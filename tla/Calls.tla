------------------------------- MODULE Calls -------------------------------
(***************************************************************************)
(* Calls between two users (services/call/src/lib.rs) as the frames of     *)
(* gateway/src/ws/mod.rs drive them.  A frame is handled by the loop of    *)
(* its socket, statement after statement; the other user's frames run in   *)
(* between.  The handler ignores the errors of join_call, leave_call and   *)
(* end_call and goes on (SkipRest), and leaves off at any other, or when   *)
(* the server stops (DropFrame).  The end of the socket does not stop it:  *)
(* nothing aborts the loop.                                                *)
(***************************************************************************)
EXTENDS Service

CONSTANTS CallIds  \* never used twice

ASSUME CallAssumption == None \notin CallIds

VARIABLES
  call,       \* calls.status; none before the row exists
  ended_at,   \* calls whose ended_at is set
  caller, callee,
  line,       \* call_participants: none, in, or left once left_at is set
  heard,      \* <<user, call, event>> that reached a user
  missed,     \* <<call, user>> of the notifications of missed calls
  frame,      \* what each loop is doing
  \* History, no state of the code:
  answered,   \* calls of which an accept began
  hungup,     \* calls that end_call has ended
  late,       \* calls of which an accept and an end overlapped, or came in that order
  lost        \* calls of which a frame was dropped or a statement failed

calls == <<call, ended_at, caller, callee, line>>
told_of == <<heard, missed>>
past == <<answered, hungup, late, lost>>
callVars == <<calls, told_of, frame, past>>

NoFrame == [at |-> "none", user |-> None, call |-> None]

CallInit ==
  /\ call = [c \in CallIds |-> "none"] /\ ended_at = {}
  /\ caller = [c \in CallIds |-> None] /\ callee = caller
  /\ line = [c \in CallIds |-> [u \in Users |-> "none"]]
  /\ heard = {} /\ missed = {}
  /\ frame = [t \in Tasks |-> NoFrame]
  /\ answered = {} /\ hungup = {} /\ late = {} /\ lost = {}

\* The recipientId of a frame is the other of the two.
Other(c, u) == IF u = caller[c] THEN callee[c] ELSE caller[c]

Receive(t, u, c, at) ==
  /\ frame[t] = NoFrame
  /\ frame' = [frame EXCEPT ![t] = [at |-> at, user |-> u, call |-> c]]

Proceed(t, at) == frame' = [frame EXCEPT ![t].at = at]
EndFrame(t) == frame' = [frame EXCEPT ![t] = NoFrame]

At(c, places) == \E t \in Tasks : frame[t].call = c /\ frame[t].at \in places
Answering(c) == At(c, {"activate", "told_accept"})
Ending(c) == At(c, {"look", "alert", "leave", "end", "told_ended"})
InProgress(c) == \E t \in Tasks : frame[t].call = c

----------------------------------------------------------------------------
(* call:invite                                                             *)

\* create_call
Invite(t, u, v, c) ==
  /\ call[c] = "none"
  /\ Receive(t, u, c, "host")
  /\ call' = [call EXCEPT ![c] = "initiated"]
  /\ caller' = [caller EXCEPT ![c] = u] /\ callee' = [callee EXCEPT ![c] = v]
  /\ UNCHANGED <<ended_at, line, told_of, past>>

\* add_participant(host)
HostRow(t) ==
  /\ frame[t].at = "host"
  /\ line' = [line EXCEPT ![frame[t].call][frame[t].user] = "in"]
  /\ Proceed(t, "ring")
  /\ UNCHANGED <<call, ended_at, caller, callee, told_of, past>>

\* send_to_user: a user without a socket hears nothing.
Hear(u, c, event) == heard' \in {heard, heard \cup {<<u, c, event>>}}

Ring(t) == LET c == frame[t].call IN
  /\ frame[t].at = "ring"
  /\ Hear(callee[c], c, "invite")
  /\ Proceed(t, "ack")
  /\ UNCHANGED <<calls, missed, past>>

Ack(t) == LET c == frame[t].call IN
  /\ frame[t].at = "ack"
  /\ Hear(caller[c], c, "ack")
  /\ EndFrame(t)
  /\ UNCHANGED <<calls, missed, past>>

----------------------------------------------------------------------------
(* call:accept                                                             *)

\* An upsert that has lost its INSERT.
WrongAccept(t, c) ==
  /\ <<callee[c], c, "invite">> \in heard
  /\ Receive(t, callee[c], c, "activate")
  /\ answered' = answered \cup {c}
  /\ late' = IF Ending(c) \/ c \in hungup THEN late \cup {c} ELSE late
  /\ UNCHANGED <<calls, told_of, hungup, lost>>

\* join_call's add_participant: a row that is there has its left_at cleared.
Accept(t, c) ==
  /\ <<callee[c], c, "invite">> \in heard
  /\ Receive(t, callee[c], c, "activate")
  /\ line' = [line EXCEPT ![c][callee[c]] = "in"]
  /\ answered' = answered \cup {c}
  /\ late' = IF Ending(c) \/ c \in hungup THEN late \cup {c} ELSE late
  /\ UNCHANGED <<call, ended_at, caller, callee, told_of, hungup, lost>>

\* Its first statement fails; the error is ignored.
AcceptFails(t, c) ==
  /\ <<callee[c], c, "invite">> \in heard
  /\ Receive(t, callee[c], c, "told_accept")
  /\ lost' = lost \cup {c}
  /\ UNCHANGED <<calls, told_of, answered, hungup, late>>

\* update_status(active, None), whatever the status was.
Activate(t) == LET c == frame[t].call IN
  /\ frame[t].at = "activate"
  /\ call' = [call EXCEPT ![c] = "active"] /\ ended_at' = ended_at \ {c}
  /\ Proceed(t, "told_accept")
  /\ UNCHANGED <<caller, callee, line, told_of, past>>

Accepted(t) == LET c == frame[t].call IN
  /\ frame[t].at = "told_accept"
  /\ Hear(Other(c, frame[t].user), c, "accept")
  /\ EndFrame(t)
  /\ UNCHANGED <<calls, missed, past>>

----------------------------------------------------------------------------
(* call:ended                                                              *)

\* From the caller once he has the id, or from the callee.
HangUp(t, u, c) ==
  /\ <<u, c, IF u = caller[c] THEN "ack" ELSE "invite">> \in heard
  /\ Receive(t, u, c, "look")
  /\ late' = IF Answering(c) THEN late \cup {c} ELSE late
  /\ UNCHANGED <<calls, told_of, answered, hungup, lost>>

\* A call that was answered is taken for a missed one.
WrongLook(t) ==
  /\ frame[t].at = "look"
  /\ Proceed(t, IF call[frame[t].call] # "ended" THEN "alert" ELSE "leave")
  /\ UNCHANGED <<calls, told_of, past>>

\* get_call
Look(t) ==
  /\ frame[t].at = "look"
  /\ Proceed(t, IF call[frame[t].call] = "initiated" THEN "alert" ELSE "leave")
  /\ UNCHANGED <<calls, told_of, past>>

\* The notification and its event, for the other one, whoever hung up.
AlertMissed(t) == LET c == frame[t].call IN
  /\ frame[t].at = "alert"
  /\ missed' = missed \cup {<<c, Other(c, frame[t].user)>>}
  /\ Proceed(t, "leave")
  /\ UNCHANGED <<calls, heard, past>>

\* update_participant_left; the callee has no row before he accepts.
LeaveCall(t) == LET c == frame[t].call IN
  /\ frame[t].at = "leave"
  /\ line' = [line EXCEPT ![c][frame[t].user] = IF @ = "none" THEN @ ELSE "left"]
  /\ Proceed(t, "end")
  /\ UNCHANGED <<call, ended_at, caller, callee, told_of, past>>

\* update_status(ended, now)
EndCall(t) == LET c == frame[t].call IN
  /\ frame[t].at = "end"
  /\ call' = [call EXCEPT ![c] = "ended"] /\ ended_at' = ended_at \cup {c}
  /\ hungup' = hungup \cup {c}
  /\ Proceed(t, "told_ended")
  /\ UNCHANGED <<caller, callee, line, told_of, answered, late, lost>>

Ended(t) == LET c == frame[t].call IN
  /\ frame[t].at = "told_ended"
  /\ Hear(Other(c, frame[t].user), c, "ended")
  /\ EndFrame(t)
  /\ UNCHANGED <<calls, missed, past>>

----------------------------------------------------------------------------
\* What the handler does next when a statement fails whose error it ignores.
AfterError(at) == CASE at = "activate" -> "told_accept"
                    [] at \in {"look", "alert"} -> "leave"
                    [] at = "leave" -> "end"
                    [] at = "end" -> "told_ended"

SkipRest(t) ==
  /\ frame[t].at \in {"activate", "look", "alert", "leave", "end"}
  /\ Proceed(t, AfterError(frame[t].at))
  /\ lost' = lost \cup {frame[t].call}
  /\ UNCHANGED <<calls, told_of, answered, hungup, late>>

DropFrame(t) ==
  /\ frame[t] # NoFrame
  /\ EndFrame(t)
  /\ lost' = lost \cup {frame[t].call}
  /\ UNCHANGED <<calls, told_of, answered, hungup, late>>

CallFrame(t) == \E c \in CallIds :
  \/ \E u, v \in Users : Invite(t, u, v, c)
  \/ Accept(t, c) \/ AcceptFails(t, c)
  \/ \E u \in {caller[c], callee[c]} : HangUp(t, u, c)

CallStep(t) ==
  \/ HostRow(t) \/ Ring(t) \/ Ack(t)
  \/ Activate(t) \/ Accepted(t)
  \/ Look(t) \/ AlertMissed(t) \/ LeaveCall(t) \/ EndCall(t) \/ Ended(t)

CallNext == \E t \in Tasks : CallFrame(t) \/ CallStep(t) \/ SkipRest(t) \/ DropFrame(t)

CallSpec == CallInit /\ [][CallNext]_callVars

----------------------------------------------------------------------------
(* Properties.                                                             *)

CallTypeOK ==
  /\ call \in [CallIds -> {"none", "initiated", "active", "ended"}]
  /\ {ended_at, answered, hungup, late, lost} \subseteq SUBSET CallIds
  /\ {caller, callee} \subseteq [CallIds -> Users \cup {None}]
  /\ line \in [CallIds -> [Users -> {"none", "in", "left"}]]
  /\ heard \subseteq Users \X CallIds \X {"invite", "ack", "accept", "ended"}
  /\ missed \subseteq CallIds \X Users
  /\ frame \in [Tasks -> [at : {"none", "host", "ring", "ack", "activate", "told_accept",
                                "look", "alert", "leave", "end", "told_ended"},
                          user : Users \cup {None}, call : CallIds \cup {None}]]

\* When no frame about a call was dropped, failed or crossed another, a notification of
\* a missed call was sent if and only if the call ended and was never accepted.
MissedIsAlerted ==
  \A c \in CallIds \ (lost \cup late) : ~InProgress(c) =>
    (\E u \in Users : <<c, u>> \in missed) <=> (call[c] = "ended" /\ c \notin answered)

\* The rows of a call agree, at every step: an active call has a row for both of the
\* users, an ended one and no other has a time, nobody has left one that nobody has hung
\* up, and one that was hung up stays ended, unless an accept crossed the end or came
\* after it.
CallRowsAgree ==
  \A c \in CallIds :
    /\ call[c] = "active" => line[c][callee[c]] # "none" /\ line[c][caller[c]] # "none"
    /\ c \in ended_at <=> call[c] = "ended"
    /\ \A u \in Users : line[c][u] = "left" => c \in hungup \cup lost \/ Ending(c)
    /\ c \in hungup \ late => call[c] = "ended"
=============================================================================
