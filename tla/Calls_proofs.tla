---------------------------- MODULE Calls_proofs ----------------------------
(***************************************************************************)
(* Proofs about the frames of calls, for any number of users, calls and    *)
(* tasks: the rows of a call agree at every step of the frames about it,   *)
(* and a call is notified as missed exactly if nobody accepted it.         *)
(***************************************************************************)
EXTENDS Calls, TLAPS

CallStates == {"none", "initiated", "active", "ended"}
FramePlaces == {"none", "host", "ring", "ack", "activate", "told_accept",
                "look", "alert", "leave", "end", "told_ended"}
FrameStates == [at : FramePlaces, user : Users \cup {None}, call : CallIds \cup {None}]

On(t, c) == frame[t].call = c
Missed(c) == \E u \in Users : <<c, u>> \in missed

\* A frame at work is about a call that exists, and comes from one of its users.
FramesFit == \A t \in Tasks :
  /\ frame[t].at = "none" => frame[t].call = None /\ frame[t].user = None
  /\ frame[t].at # "none" =>
       /\ frame[t].call \in CallIds /\ call[frame[t].call] # "none"
       /\ frame[t].user \in {caller[frame[t].call], callee[frame[t].call]}
  /\ frame[t].at \in {"host", "ring", "ack"} => frame[t].user = caller[frame[t].call]
  /\ frame[t].at \in {"activate", "told_accept"} => frame[t].user = callee[frame[t].call]

\* Before anybody has heard of a call it has a row for its caller.
Placed(c) ==
  /\ call[c] # "none" => caller[c] \in Users /\ callee[c] \in Users
  /\ \A x \in heard : x[2] = c => call[c] # "none" /\ line[c][caller[c]] # "none"
  /\ \A t \in Tasks : On(t, c) /\ frame[t].at # "host" => line[c][caller[c]] # "none"
  /\ \A t \in Tasks : On(t, c) /\ frame[t].at = "activate" =>
       line[c][callee[c]] # "none" /\ c \in answered
  /\ call[c] = "active" => line[c][callee[c]] # "none" /\ line[c][caller[c]] # "none" /\ c \in answered

\* An accept that is to be written meets no end, unless it is late.
Crossing(c) == \A t \in Tasks : On(t, c) /\ frame[t].at = "activate" /\ (c \in hungup \/ Ending(c)) => c \in late

Hung(c) ==
  /\ c \in ended_at <=> call[c] = "ended"
  /\ call[c] = "ended" => c \in hungup
  /\ c \in hungup => call[c] # "none"
  /\ c \in hungup \ late => call[c] = "ended"
  /\ \A u \in Users : line[c][u] = "left" => c \in hungup \cup lost \/ Ending(c)
  /\ \A t \in Tasks : On(t, c) /\ frame[t].at = "told_ended" => c \in hungup \cup lost

\* What the end of a call knows of its notification.
Alerts(c) == c \notin lost \cup late =>
  /\ c \in answered => call[c] \in {"active", "ended"} \/ At(c, {"activate"})
  /\ Missed(c) => c \notin answered /\ (call[c] = "ended" \/ At(c, {"leave", "end"}))
  /\ \A t \in Tasks : On(t, c) /\ frame[t].at = "alert" => c \notin answered
  /\ \A t \in Tasks : On(t, c) /\ frame[t].at \in {"leave", "end", "told_ended"} => c \in answered \/ Missed(c)
  /\ call[c] = "ended" => c \in answered \/ Missed(c)

AboutCall(c) == Placed(c) /\ Crossing(c) /\ Hung(c) /\ Alerts(c)

CallInv == CallTypeOK /\ FramesFit /\ \A c \in CallIds : AboutCall(c)

----------------------------------------------------------------------------
(* How a step looks to another call.                                       *)

Untouched(c) ==
  /\ call'[c] = call[c] /\ caller'[c] = caller[c] /\ callee'[c] = callee[c] /\ line'[c] = line[c]
  /\ \A x \in heard' : x[2] = c => x \in heard
  /\ Missed(c)' <=> Missed(c)
  /\ c \in ended_at' <=> c \in ended_at
  /\ c \in answered' <=> c \in answered
  /\ c \in hungup' <=> c \in hungup
  /\ c \in late' <=> c \in late
  /\ c \in lost' <=> c \in lost

LEMMA OtherCall ==
  ASSUME NEW c \in CallIds, AboutCall(c), Untouched(c),
         \A t \in Tasks : frame'[t] = frame[t] \/ (~On(t, c) /\ ~On(t, c)')
  PROVE  AboutCall(c)'
  <1>1. \A t \in Tasks : On(t, c)' => On(t, c) /\ frame'[t] = frame[t] BY DEF On
  <1>2. \A t \in Tasks : On(t, c) => On(t, c)' /\ frame'[t] = frame[t] BY DEF On
  <1>3. ASSUME NEW P PROVE At(c, P)' <=> At(c, P) BY <1>1, <1>2 DEF At, On
  <1>4. Ending(c)' <=> Ending(c) BY <1>3 DEF Ending
  <1>5. Placed(c)' BY <1>1 DEF AboutCall, Placed, Untouched
  <1>6. Crossing(c)' BY <1>1, <1>4 DEF AboutCall, Crossing, Untouched
  <1>7. Hung(c)' BY <1>1, <1>4 DEF AboutCall, Hung, Untouched
  <1>8. Alerts(c)'
    <2> SUFFICES ASSUME c \notin lost /\ c \notin late PROVE Alerts(c)' BY DEF Alerts, Untouched
    <2>1. At(c, {"activate"})' <=> At(c, {"activate"}) BY <1>3
    <2>2. At(c, {"leave", "end"})' <=> At(c, {"leave", "end"}) BY <1>3
    <2> QED BY <1>1, <2>1, <2>2 DEF AboutCall, Alerts, Untouched
  <1> QED BY <1>5, <1>6, <1>7, <1>8 DEF AboutCall

\* The types of the rows, one by one.
RowTypes ==
  /\ call \in [CallIds -> CallStates]
  /\ caller \in [CallIds -> Users \cup {None}] /\ callee \in [CallIds -> Users \cup {None}]
  /\ line \in [CallIds -> [Users -> {"none", "in", "left"}]]
  /\ ended_at \subseteq CallIds /\ answered \subseteq CallIds /\ hungup \subseteq CallIds
  /\ late \subseteq CallIds /\ lost \subseteq CallIds
  /\ heard \subseteq Users \X CallIds \X {"invite", "ack", "accept", "ended"}
  /\ missed \subseteq CallIds \X Users

LEMMA TypesMean == CallTypeOK <=> RowTypes /\ frame \in [Tasks -> FrameStates]
  <1>1. CallTypeOK => RowTypes /\ frame \in [Tasks -> FrameStates]
    BY DEF CallTypeOK, RowTypes, CallStates, FrameStates, FramePlaces
  <1>2. RowTypes /\ frame \in [Tasks -> FrameStates] => CallTypeOK
    BY DEF CallTypeOK, RowTypes, CallStates, FrameStates, FramePlaces
  <1> QED BY <1>1, <1>2

LEMMA TypesNext == ASSUME RowTypes', frame' \in [Tasks -> FrameStates] PROVE CallTypeOK'
  BY DEF CallTypeOK, RowTypes, CallStates, FrameStates, FramePlaces

LEMMA NewFrame ==
  ASSUME CallTypeOK, NEW t \in Tasks, NEW s \in FrameStates, frame' = [frame EXCEPT ![t] = s]
  PROVE  /\ frame' \in [Tasks -> FrameStates] /\ frame'[t] = s
         /\ \A t2 \in Tasks \ {t} : frame'[t2] = frame[t2]
  BY DEF CallTypeOK, FrameStates, FramePlaces

LEMMA NoFrameIs == /\ NoFrame \in FrameStates /\ NoFrame.at = "none"
                   /\ NoFrame.call = None /\ NoFrame.user = None
  BY DEF NoFrame, FrameStates, FramePlaces

\* The call a frame at work is about, and its user.
LEMMA AtWork ==
  ASSUME CallInv, NEW t \in Tasks, frame[t].at # "none"
  PROVE  /\ frame[t].call \in CallIds /\ frame[t].call # None /\ call[frame[t].call] # "none"
         /\ frame[t].user \in {caller[frame[t].call], callee[frame[t].call]} /\ frame[t].user \in Users
         /\ Other(frame[t].call, frame[t].user) \in Users
         /\ frame[t] \in FrameStates
  <1>1. frame[t].call \in CallIds /\ call[frame[t].call] # "none"
        /\ frame[t].user \in {caller[frame[t].call], callee[frame[t].call]}
    BY DEF CallInv, FramesFit
  <1>2. caller[frame[t].call] \in Users /\ callee[frame[t].call] \in Users
    BY <1>1 DEF CallInv, AboutCall, Placed
  <1> QED BY <1>1, <1>2, CallAssumption DEF Other, CallInv, CallTypeOK, FrameStates, FramePlaces

\* A frame that is about c before and after the step leaves the other calls as they are.
LEMMA OtherCalls ==
  ASSUME CallInv, NEW t \in Tasks, NEW c \in CallIds, NEW s \in FrameStates,
         frame' = [frame EXCEPT ![t] = s],
         frame[t].call \in {c, None}, s.call \in {c, None},
         \A c2 \in CallIds \ {c} : Untouched(c2)
  PROVE  \A c2 \in CallIds \ {c} : AboutCall(c2)'
  <1> TAKE c2 \in CallIds \ {c}
  <1>1. frame'[t] = s /\ \A t2 \in Tasks \ {t} : frame'[t2] = frame[t2]
    BY NewFrame DEF CallInv
  <1>2. \A t2 \in Tasks : frame'[t2] = frame[t2] \/ (~On(t2, c2) /\ ~On(t2, c2)')
    BY <1>1, CallAssumption DEF On
  <1>3. AboutCall(c2) BY DEF CallInv
  <1> QED BY <1>2, <1>3, OtherCall

\* The frame s fits call c of these users.
Fits(s, c, from, to) ==
  /\ s.at = "none" => s.call = None /\ s.user = None
  /\ s.at # "none" => s.call = c /\ s.user \in {from, to}
  /\ s.at \in {"host", "ring", "ack"} => s.user = from
  /\ s.at \in {"activate", "told_accept"} => s.user = to

LEMMA StillFit ==
  ASSUME CallInv, NEW t \in Tasks, NEW c \in CallIds, NEW s \in FrameStates,
         frame' = [frame EXCEPT ![t] = s], Fits(s, c, caller[c], callee[c]),
         call'[c] # "none", UNCHANGED <<caller, callee>>,
         \A c2 \in CallIds \ {c} : call'[c2] = call[c2]
  PROVE  FramesFit'
  <1>1. frame'[t] = s /\ \A t2 \in Tasks \ {t} : frame'[t2] = frame[t2]
    BY NewFrame DEF CallInv
  <1> SUFFICES ASSUME NEW t2 \in Tasks
               PROVE  /\ frame'[t2].at = "none" => frame'[t2].call = None /\ frame'[t2].user = None
                      /\ frame'[t2].at # "none" =>
                           /\ frame'[t2].call \in CallIds /\ call'[frame'[t2].call] # "none"
                           /\ frame'[t2].user \in {caller[frame'[t2].call], callee[frame'[t2].call]}
                      /\ frame'[t2].at \in {"host", "ring", "ack"} => frame'[t2].user = caller[frame'[t2].call]
                      /\ frame'[t2].at \in {"activate", "told_accept"} => frame'[t2].user = callee[frame'[t2].call]
    BY DEF FramesFit
  <1>2. CASE t2 = t BY <1>1, <1>2 DEF Fits
  <1>3. CASE t2 # t BY <1>1, <1>3 DEF CallInv, FramesFit
  <1> QED BY <1>2, <1>3

\* The same from the fields that Proceed keeps.
LEMMA FrameIs ==
  ASSUME CallInv, NEW t \in Tasks
  PROVE  /\ RowTypes /\ frame \in [Tasks -> FrameStates] /\ FramesFit
         /\ \A c \in CallIds : AboutCall(c)
         /\ frame[t] \in FrameStates
  BY TypesMean DEF CallInv

\* What reaches a user is well typed, and about the call of the frame.
LEMMA HearFacts ==
  ASSUME RowTypes, NEW u \in Users, NEW c \in CallIds,
         NEW e \in {"invite", "ack", "accept", "ended"}, Hear(u, c, e)
  PROVE  /\ heard' \subseteq Users \X CallIds \X {"invite", "ack", "accept", "ended"}
         /\ \A x \in heard' : x \in heard \/ x[2] = c
  <1>1. <<u, c, e>> \in Users \X CallIds \X {"invite", "ack", "accept", "ended"} /\ <<u, c, e>>[2] = c
    OBVIOUS
  <1> QED BY <1>1 DEF Hear, RowTypes

LEMMA Ahead ==
  ASSUME CallInv, NEW t \in Tasks, NEW at \in FramePlaces, frame[t].at # "none", Proceed(t, at)
  PROVE  \E s \in FrameStates : /\ frame' = [frame EXCEPT ![t] = s]
                                /\ s.at = at /\ s.user = frame[t].user /\ s.call = frame[t].call
  <1> DEFINE s == [frame[t] EXCEPT !.at = at]
  <1>1. frame' = [frame EXCEPT ![t] = s] BY DEF Proceed
  <1>2. s \in FrameStates /\ s.at = at /\ s.user = frame[t].user /\ s.call = frame[t].call
    BY FrameIs DEF FrameStates
  <1> HIDE DEF s
  <1> QED BY <1>1, <1>2

LEMMA Together ==
  ASSUME CallInv, NEW t \in Tasks, NEW c \in CallIds, NEW s \in FrameStates,
         frame' = [frame EXCEPT ![t] = s], Fits(s, c, caller[c], callee[c]),
         frame[t].call \in {c, None}, UNCHANGED <<caller, callee>>,
         call'[c] # "none", \A c2 \in CallIds \ {c} : Untouched(c2),
         RowTypes', AboutCall(c)'
  PROVE  CallInv'
  <1>1. frame' \in [Tasks -> FrameStates] BY NewFrame DEF CallInv
  <1>2. CallTypeOK' BY <1>1, TypesNext
  <1>3. FramesFit' BY StillFit DEF Untouched
  <1>4. s.call \in {c, None} BY DEF Fits
  <1>5. \A c2 \in CallIds \ {c} : AboutCall(c2)' BY <1>4, OtherCalls
  <1> QED BY <1>2, <1>3, <1>5 DEF CallInv

----------------------------------------------------------------------------
(* What each step keeps.                                                   *)

LEMMA InviteKeeps == ASSUME CallInv, NEW t \in Tasks, NEW u \in Users, NEW v \in Users, NEW c \in CallIds,
                            Invite(t, u, v, c)
                     PROVE  CallInv'
  <1> DEFINE s == [at |-> "host", user |-> u, call |-> c]
  <1>1. /\ call[c] = "none" /\ frame[t] = NoFrame /\ frame' = [frame EXCEPT ![t] = s]
        /\ call' = [call EXCEPT ![c] = "initiated"]
        /\ caller' = [caller EXCEPT ![c] = u] /\ callee' = [callee EXCEPT ![c] = v]
        /\ UNCHANGED <<ended_at, line, heard, missed, answered, hungup, late, lost>>
    BY DEF Invite, Receive, told_of, past
  <1>2. s \in FrameStates /\ s.at = "host" /\ s.user = u /\ s.call = c BY DEF FrameStates, FramePlaces
  <1> HIDE DEF s
  <1>3. /\ frame' \in [Tasks -> FrameStates] /\ frame'[t] = s
        /\ \A t2 \in Tasks \ {t} : frame'[t2] = frame[t2]
    BY <1>1, <1>2, NewFrame DEF CallInv
  <1>0. RowTypes /\ FramesFit /\ AboutCall(c) BY FrameIs
  <1>4. /\ call'[c] = "initiated" /\ caller'[c] = u /\ callee'[c] = v
        /\ \A c2 \in CallIds \ {c} : call'[c2] = call[c2] /\ caller'[c2] = caller[c2] /\ callee'[c2] = callee[c2]
    BY <1>0, <1>1 DEF RowTypes
  <1>5. CallTypeOK'
    <2>1. RowTypes' BY <1>0, <1>1 DEF RowTypes, CallStates
    <2> QED BY <2>1, <1>3, TypesNext
  <1>6. \A t2 \in Tasks : ~On(t2, c) BY <1>0, <1>1, CallAssumption DEF FramesFit, On
  <1>7. FramesFit'
    <2> SUFFICES ASSUME NEW t2 \in Tasks
                 PROVE  /\ frame'[t2].at = "none" => frame'[t2].call = None /\ frame'[t2].user = None
                        /\ frame'[t2].at # "none" =>
                             /\ frame'[t2].call \in CallIds /\ call'[frame'[t2].call] # "none"
                             /\ frame'[t2].user \in {caller'[frame'[t2].call], callee'[frame'[t2].call]}
                        /\ frame'[t2].at \in {"host", "ring", "ack"} => frame'[t2].user = caller'[frame'[t2].call]
                        /\ frame'[t2].at \in {"activate", "told_accept"} =>
                             frame'[t2].user = callee'[frame'[t2].call]
      BY DEF FramesFit
    <2>1. CASE t2 = t BY <1>2, <1>3, <1>4, <2>1
    <2>2. CASE t2 # t
      <3>1. frame'[t2] = frame[t2] /\ frame[t2].call # c BY <1>3, <1>6, <2>2 DEF On
      <3>2. CASE frame[t2].at = "none" BY <1>0, <3>1, <3>2 DEF FramesFit
      <3>3. CASE frame[t2].at # "none"
        <4>1. PICK d \in CallIds \ {c} : d = frame[t2].call BY <1>0, <3>1, <3>3 DEF FramesFit
        <4>2. call'[d] = call[d] /\ caller'[d] = caller[d] /\ callee'[d] = callee[d] BY <1>4
        <4> QED BY <1>0, <3>1, <3>3, <4>1, <4>2 DEF FramesFit
      <3> QED BY <3>2, <3>3
    <2> QED BY <2>1, <2>2
  <1>8. \A c2 \in CallIds \ {c} : AboutCall(c2)'
    <2>1. \A c2 \in CallIds \ {c} : Untouched(c2) BY <1>1, <1>4 DEF Untouched, Missed
    <2>2. frame[t].call \in {c, None} BY <1>1, NoFrameIs
    <2> QED BY <1>1, <1>2, <2>1, <2>2, OtherCalls
  <1>9. AboutCall(c)'
    <2>1. \A t2 \in Tasks : On(t2, c)' => frame'[t2].at = "host" BY <1>2, <1>3, <1>6 DEF On
    <2>3. Placed(c)' BY <1>0, <1>1, <1>4, <2>1 DEF AboutCall, Placed
    <2>4. Crossing(c)' BY <2>1 DEF Crossing
    <2>5. ~Ending(c) BY <1>6 DEF Ending, At, On
    <2>6. Hung(c)' BY <1>0, <1>1, <1>4, <2>1, <2>5 DEF AboutCall, Hung
    <2>7. Alerts(c)'
      <3>1. ~At(c, {"activate"}) /\ ~At(c, {"leave", "end"}) BY <1>6 DEF At, On
      <3>2. c \notin lost \cup late => c \notin answered /\ ~Missed(c)
        BY <1>0, <1>1, <3>1 DEF AboutCall, Alerts
      <3> QED BY <1>1, <1>4, <2>1, <3>2 DEF Alerts, Missed
    <2> QED BY <2>3, <2>4, <2>6, <2>7 DEF AboutCall
  <1> QED BY <1>5, <1>7, <1>8, <1>9 DEF CallInv

LEMMA HostRowKeeps == ASSUME CallInv, NEW t \in Tasks, HostRow(t) PROVE CallInv'
  <1>at. frame[t].at = "host" BY DEF HostRow
  <1>p. PICK c \in CallIds : c = frame[t].call BY <1>at, AtWork
  <1>c. /\ frame[t].call = c /\ call[c] # "none" /\ caller[c] \in Users /\ callee[c] \in Users
        /\ frame[t].user \in {caller[c], callee[c]} /\ frame[t].user \in Users /\ Other(c, frame[t].user) \in Users
    BY <1>at, <1>p, AtWork DEF CallInv, AboutCall, Placed
  <1>0. RowTypes /\ FramesFit /\ AboutCall(c) /\ frame[t].at = "host" /\ On(t, c) BY <1>at, <1>c, FrameIs DEF On
  <1>s. PICK s \in FrameStates : /\ frame' = [frame EXCEPT ![t] = s]
                                /\ s.at = "ring" /\ s.user = frame[t].user /\ s.call = frame[t].call
    <2>1. Proceed(t, "ring") /\ "ring" \in FramePlaces BY DEF HostRow, FramePlaces
    <2> QED BY <1>at, <2>1, Ahead
  <1>1. /\ frame' = [frame EXCEPT ![t] = s]
        /\ line' = [line EXCEPT ![c][frame[t].user] = "in"]
        /\ UNCHANGED <<call, ended_at, caller, callee, heard, missed, answered, hungup, late, lost>>
    BY <1>p, <1>s DEF HostRow, calls, told_of, past
  <1>2. s.at = "ring" /\ s.user = frame[t].user /\ s.call = c BY <1>s, <1>c
  <1>3. frame'[t] = s /\ \A t2 \in Tasks \ {t} : frame'[t2] = frame[t2] BY <1>1, NewFrame DEF CallInv
  <1>4. call'[c] # "none" /\ frame[t].user = caller[c] /\ line'[c][caller[c]] = "in"
        /\ \A u \in Users : line'[c][u] \in {line[c][u], "in"}
    BY <1>0, <1>1, <1>c DEF RowTypes, FramesFit
  <1>5. AboutCall(c)'
    <2>1. \A t2 \in Tasks : On(t2, c)' => (t2 = t /\ s.call = c) \/ (t2 # t /\ On(t2, c)) BY <1>3 DEF On
    <2>2. Placed(c)' BY <1>0, <1>1, <1>2, <1>3, <1>4, <2>1 DEF AboutCall, Placed
    <2>3. Crossing(c)' BY <1>0, <1>1, <1>2, <1>3, <1>4, <2>1 DEF AboutCall, Crossing, Ending, At, On
    <2>4. Hung(c)' BY <1>0, <1>1, <1>2, <1>3, <1>4, <2>1 DEF AboutCall, Hung, Ending, At, On
    <2>5. Alerts(c)' BY <1>0, <1>1, <1>2, <1>3, <1>4, <2>1 DEF AboutCall, Alerts, At, On, Missed
    <2> QED BY <2>2, <2>3, <2>4, <2>5 DEF AboutCall
  <1>6. RowTypes' BY <1>0, <1>1 DEF RowTypes, CallStates
  <1>7. \A c2 \in CallIds \ {c} : Untouched(c2) BY <1>0, <1>1 DEF Untouched, Missed, RowTypes
  <1>8. Fits(s, c, caller[c], callee[c]) BY <1>0, <1>1, <1>2, <1>c DEF Fits, FramesFit
  <1> QED BY <1>0, <1>1, <1>2, <1>4, <1>5, <1>6, <1>7, <1>8, <1>c, Together

LEMMA RingKeeps == ASSUME CallInv, NEW t \in Tasks, Ring(t) PROVE CallInv'
  <1>at. frame[t].at = "ring" BY DEF Ring
  <1>p. PICK c \in CallIds : c = frame[t].call BY <1>at, AtWork
  <1>c. /\ frame[t].call = c /\ call[c] # "none" /\ caller[c] \in Users /\ callee[c] \in Users
        /\ frame[t].user \in {caller[c], callee[c]} /\ frame[t].user \in Users /\ Other(c, frame[t].user) \in Users
    BY <1>at, <1>p, AtWork DEF CallInv, AboutCall, Placed
  <1>0. RowTypes /\ FramesFit /\ AboutCall(c) /\ frame[t].at = "ring" /\ On(t, c) BY <1>at, <1>c, FrameIs DEF On
  <1>s. PICK s \in FrameStates : /\ frame' = [frame EXCEPT ![t] = s]
                                /\ s.at = "ack" /\ s.user = frame[t].user /\ s.call = frame[t].call
    <2>1. Proceed(t, "ack") /\ "ack" \in FramePlaces BY DEF Ring, FramePlaces
    <2> QED BY <1>at, <2>1, Ahead
  <1>1. /\ frame' = [frame EXCEPT ![t] = s]
        /\ Hear(callee[c], c, "invite")
        /\ UNCHANGED <<call, ended_at, caller, callee, line, missed, answered, hungup, late, lost>>
    BY <1>p, <1>s DEF Ring, calls, told_of, past
  <1>2. s.at = "ack" /\ s.user = frame[t].user /\ s.call = c BY <1>s, <1>c
  <1>3. frame'[t] = s /\ \A t2 \in Tasks \ {t} : frame'[t2] = frame[t2] BY <1>1, NewFrame DEF CallInv
  <1>4. call'[c] # "none" BY <1>1, <1>c
  <1>5. AboutCall(c)'
    <2>1. \A t2 \in Tasks : On(t2, c)' => (t2 = t /\ s.call = c) \/ (t2 # t /\ On(t2, c)) BY <1>3 DEF On
    <2>2. Placed(c)' BY <1>0, <1>1, <1>2, <1>3, <1>4, <2>1 DEF AboutCall, Placed
    <2>3. Crossing(c)' BY <1>0, <1>1, <1>2, <1>3, <1>4, <2>1 DEF AboutCall, Crossing, Ending, At, On
    <2>4. Hung(c)' BY <1>0, <1>1, <1>2, <1>3, <1>4, <2>1 DEF AboutCall, Hung, Ending, At, On
    <2>5. Alerts(c)' BY <1>0, <1>1, <1>2, <1>3, <1>4, <2>1 DEF AboutCall, Alerts, At, On, Missed
    <2> QED BY <2>2, <2>3, <2>4, <2>5 DEF AboutCall
  <1>h. /\ heard' \subseteq Users \X CallIds \X {"invite", "ack", "accept", "ended"}
        /\ \A x \in heard' : x \in heard \/ x[2] = c
    BY <1>0, <1>1, <1>c, HearFacts
  <1>6. RowTypes' BY <1>0, <1>1, <1>h DEF RowTypes, CallStates
  <1>7. \A c2 \in CallIds \ {c} : Untouched(c2) BY <1>0, <1>1, <1>h DEF Untouched, Missed, RowTypes
  <1>8. Fits(s, c, caller[c], callee[c]) BY <1>0, <1>1, <1>2, <1>c DEF Fits, FramesFit
  <1> QED BY <1>0, <1>1, <1>2, <1>4, <1>5, <1>6, <1>7, <1>8, <1>c, Together

LEMMA AckKeeps == ASSUME CallInv, NEW t \in Tasks, Ack(t) PROVE CallInv'
  <1>at. frame[t].at = "ack" BY DEF Ack
  <1>p. PICK c \in CallIds : c = frame[t].call BY <1>at, AtWork
  <1>c. /\ frame[t].call = c /\ call[c] # "none" /\ caller[c] \in Users /\ callee[c] \in Users
        /\ frame[t].user \in {caller[c], callee[c]} /\ frame[t].user \in Users /\ Other(c, frame[t].user) \in Users
    BY <1>at, <1>p, AtWork DEF CallInv, AboutCall, Placed
  <1>0. RowTypes /\ FramesFit /\ AboutCall(c) /\ frame[t].at = "ack" /\ On(t, c) BY <1>at, <1>c, FrameIs DEF On
  <1>s. PICK s \in FrameStates : s = NoFrame BY NoFrameIs
  <1>1. /\ frame' = [frame EXCEPT ![t] = s]
        /\ Hear(caller[c], c, "ack")
        /\ UNCHANGED <<call, ended_at, caller, callee, line, missed, answered, hungup, late, lost>>
    BY <1>p, <1>s DEF Ack, EndFrame, calls, told_of, past
  <1>2. s.at = "none" /\ s.call = None /\ s.user = None /\ s.call # c BY <1>s, NoFrameIs, CallAssumption
  <1>3. frame'[t] = s /\ \A t2 \in Tasks \ {t} : frame'[t2] = frame[t2] BY <1>1, NewFrame DEF CallInv
  <1>4. call'[c] # "none" BY <1>1, <1>c
  <1>5. AboutCall(c)'
    <2>1. \A t2 \in Tasks : On(t2, c)' => (t2 = t /\ s.call = c) \/ (t2 # t /\ On(t2, c)) BY <1>3 DEF On
    <2>2. Placed(c)' BY <1>0, <1>1, <1>2, <1>3, <1>4, <2>1 DEF AboutCall, Placed
    <2>3. Crossing(c)' BY <1>0, <1>1, <1>2, <1>3, <1>4, <2>1 DEF AboutCall, Crossing, Ending, At, On
    <2>4. Hung(c)' BY <1>0, <1>1, <1>2, <1>3, <1>4, <2>1 DEF AboutCall, Hung, Ending, At, On
    <2>5. Alerts(c)' BY <1>0, <1>1, <1>2, <1>3, <1>4, <2>1 DEF AboutCall, Alerts, At, On, Missed
    <2> QED BY <2>2, <2>3, <2>4, <2>5 DEF AboutCall
  <1>h. /\ heard' \subseteq Users \X CallIds \X {"invite", "ack", "accept", "ended"}
        /\ \A x \in heard' : x \in heard \/ x[2] = c
    BY <1>0, <1>1, <1>c, HearFacts
  <1>6. RowTypes' BY <1>0, <1>1, <1>h DEF RowTypes, CallStates
  <1>7. \A c2 \in CallIds \ {c} : Untouched(c2) BY <1>0, <1>1, <1>h DEF Untouched, Missed, RowTypes
  <1>8. Fits(s, c, caller[c], callee[c]) BY <1>0, <1>1, <1>2, <1>c DEF Fits, FramesFit
  <1> QED BY <1>0, <1>1, <1>2, <1>4, <1>5, <1>6, <1>7, <1>8, <1>c, Together

LEMMA AcceptedKeeps == ASSUME CallInv, NEW t \in Tasks, Accepted(t) PROVE CallInv'
  <1>at. frame[t].at = "told_accept" BY DEF Accepted
  <1>p. PICK c \in CallIds : c = frame[t].call BY <1>at, AtWork
  <1>c. /\ frame[t].call = c /\ call[c] # "none" /\ caller[c] \in Users /\ callee[c] \in Users
        /\ frame[t].user \in {caller[c], callee[c]} /\ frame[t].user \in Users /\ Other(c, frame[t].user) \in Users
    BY <1>at, <1>p, AtWork DEF CallInv, AboutCall, Placed
  <1>0. RowTypes /\ FramesFit /\ AboutCall(c) /\ frame[t].at = "told_accept" /\ On(t, c) BY <1>at, <1>c, FrameIs DEF On
  <1>s. PICK s \in FrameStates : s = NoFrame BY NoFrameIs
  <1>1. /\ frame' = [frame EXCEPT ![t] = s]
        /\ Hear(Other(c, frame[t].user), c, "accept")
        /\ UNCHANGED <<call, ended_at, caller, callee, line, missed, answered, hungup, late, lost>>
    BY <1>p, <1>s DEF Accepted, EndFrame, calls, told_of, past
  <1>2. s.at = "none" /\ s.call = None /\ s.user = None /\ s.call # c BY <1>s, NoFrameIs, CallAssumption
  <1>3. frame'[t] = s /\ \A t2 \in Tasks \ {t} : frame'[t2] = frame[t2] BY <1>1, NewFrame DEF CallInv
  <1>4. call'[c] # "none" BY <1>1, <1>c
  <1>5. AboutCall(c)'
    <2>1. \A t2 \in Tasks : On(t2, c)' => (t2 = t /\ s.call = c) \/ (t2 # t /\ On(t2, c)) BY <1>3 DEF On
    <2>2. Placed(c)' BY <1>0, <1>1, <1>2, <1>3, <1>4, <2>1 DEF AboutCall, Placed
    <2>3. Crossing(c)' BY <1>0, <1>1, <1>2, <1>3, <1>4, <2>1 DEF AboutCall, Crossing, Ending, At, On
    <2>4. Hung(c)' BY <1>0, <1>1, <1>2, <1>3, <1>4, <2>1 DEF AboutCall, Hung, Ending, At, On
    <2>5. Alerts(c)' BY <1>0, <1>1, <1>2, <1>3, <1>4, <2>1 DEF AboutCall, Alerts, At, On, Missed
    <2> QED BY <2>2, <2>3, <2>4, <2>5 DEF AboutCall
  <1>h. /\ heard' \subseteq Users \X CallIds \X {"invite", "ack", "accept", "ended"}
        /\ \A x \in heard' : x \in heard \/ x[2] = c
    BY <1>0, <1>1, <1>c, HearFacts
  <1>6. RowTypes' BY <1>0, <1>1, <1>h DEF RowTypes, CallStates
  <1>7. \A c2 \in CallIds \ {c} : Untouched(c2) BY <1>0, <1>1, <1>h DEF Untouched, Missed, RowTypes
  <1>8. Fits(s, c, caller[c], callee[c]) BY <1>0, <1>1, <1>2, <1>c DEF Fits, FramesFit
  <1> QED BY <1>0, <1>1, <1>2, <1>4, <1>5, <1>6, <1>7, <1>8, <1>c, Together

LEMMA EndedKeeps == ASSUME CallInv, NEW t \in Tasks, Ended(t) PROVE CallInv'
  <1>at. frame[t].at = "told_ended" BY DEF Ended
  <1>p. PICK c \in CallIds : c = frame[t].call BY <1>at, AtWork
  <1>c. /\ frame[t].call = c /\ call[c] # "none" /\ caller[c] \in Users /\ callee[c] \in Users
        /\ frame[t].user \in {caller[c], callee[c]} /\ frame[t].user \in Users /\ Other(c, frame[t].user) \in Users
    BY <1>at, <1>p, AtWork DEF CallInv, AboutCall, Placed
  <1>0. RowTypes /\ FramesFit /\ AboutCall(c) /\ frame[t].at = "told_ended" /\ On(t, c) BY <1>at, <1>c, FrameIs DEF On
  <1>s. PICK s \in FrameStates : s = NoFrame BY NoFrameIs
  <1>1. /\ frame' = [frame EXCEPT ![t] = s]
        /\ Hear(Other(c, frame[t].user), c, "ended")
        /\ UNCHANGED <<call, ended_at, caller, callee, line, missed, answered, hungup, late, lost>>
    BY <1>p, <1>s DEF Ended, EndFrame, calls, told_of, past
  <1>2. s.at = "none" /\ s.call = None /\ s.user = None /\ s.call # c BY <1>s, NoFrameIs, CallAssumption
  <1>3. frame'[t] = s /\ \A t2 \in Tasks \ {t} : frame'[t2] = frame[t2] BY <1>1, NewFrame DEF CallInv
  <1>4. call'[c] # "none" BY <1>1, <1>c
  <1>5. AboutCall(c)'
    <2>1. \A t2 \in Tasks : On(t2, c)' => (t2 = t /\ s.call = c) \/ (t2 # t /\ On(t2, c)) BY <1>3 DEF On
    <2>2. Placed(c)' BY <1>0, <1>1, <1>2, <1>3, <1>4, <2>1 DEF AboutCall, Placed
    <2>3. Crossing(c)' BY <1>0, <1>1, <1>2, <1>3, <1>4, <2>1 DEF AboutCall, Crossing, Ending, At, On
    <2>4. Hung(c)' BY <1>0, <1>1, <1>2, <1>3, <1>4, <2>1 DEF AboutCall, Hung, Ending, At, On
    <2>5. Alerts(c)' BY <1>0, <1>1, <1>2, <1>3, <1>4, <2>1 DEF AboutCall, Alerts, At, On, Missed
    <2> QED BY <2>2, <2>3, <2>4, <2>5 DEF AboutCall
  <1>h. /\ heard' \subseteq Users \X CallIds \X {"invite", "ack", "accept", "ended"}
        /\ \A x \in heard' : x \in heard \/ x[2] = c
    BY <1>0, <1>1, <1>c, HearFacts
  <1>6. RowTypes' BY <1>0, <1>1, <1>h DEF RowTypes, CallStates
  <1>7. \A c2 \in CallIds \ {c} : Untouched(c2) BY <1>0, <1>1, <1>h DEF Untouched, Missed, RowTypes
  <1>8. Fits(s, c, caller[c], callee[c]) BY <1>0, <1>1, <1>2, <1>c DEF Fits, FramesFit
  <1> QED BY <1>0, <1>1, <1>2, <1>4, <1>5, <1>6, <1>7, <1>8, <1>c, Together

LEMMA ActivateKeeps == ASSUME CallInv, NEW t \in Tasks, Activate(t) PROVE CallInv'
  <1>at. frame[t].at = "activate" BY DEF Activate
  <1>p. PICK c \in CallIds : c = frame[t].call BY <1>at, AtWork
  <1>c. /\ frame[t].call = c /\ call[c] # "none" /\ caller[c] \in Users /\ callee[c] \in Users
        /\ frame[t].user \in {caller[c], callee[c]} /\ frame[t].user \in Users /\ Other(c, frame[t].user) \in Users
    BY <1>at, <1>p, AtWork DEF CallInv, AboutCall, Placed
  <1>0. RowTypes /\ FramesFit /\ AboutCall(c) /\ frame[t].at = "activate" /\ On(t, c) BY <1>at, <1>c, FrameIs DEF On
  <1>s. PICK s \in FrameStates : /\ frame' = [frame EXCEPT ![t] = s]
                                /\ s.at = "told_accept" /\ s.user = frame[t].user /\ s.call = frame[t].call
    <2>1. Proceed(t, "told_accept") /\ "told_accept" \in FramePlaces BY DEF Activate, FramePlaces
    <2> QED BY <1>at, <2>1, Ahead
  <1>1. /\ frame' = [frame EXCEPT ![t] = s]
        /\ call' = [call EXCEPT ![c] = "active"]
        /\ ended_at' = ended_at \ {c}
        /\ UNCHANGED <<caller, callee, line, heard, missed, answered, hungup, late, lost>>
    BY <1>p, <1>s DEF Activate, calls, told_of, past
  <1>2. s.at = "told_accept" /\ s.user = frame[t].user /\ s.call = c BY <1>s, <1>c
  <1>3. frame'[t] = s /\ \A t2 \in Tasks \ {t} : frame'[t2] = frame[t2] BY <1>1, NewFrame DEF CallInv
  <1>4. call'[c] = "active" BY <1>0, <1>1 DEF RowTypes
  <1>5. AboutCall(c)'
    <2>1. \A t2 \in Tasks : On(t2, c)' => (t2 = t /\ s.call = c) \/ (t2 # t /\ On(t2, c)) BY <1>3 DEF On
    <2>0. /\ line[c][callee[c]] # "none" /\ line[c][caller[c]] # "none" /\ c \in answered
          /\ c \in hungup => c \in late
      BY <1>0, <1>2 DEF AboutCall, Placed, Crossing
    <2>2. Placed(c)'
      <3>1. \A x \in heard' : x[2] = c => line'[c][caller'[c]] # "none" BY <1>0, <1>1 DEF AboutCall, Placed
      <3>2. \A t2 \in Tasks : On(t2, c)' => line'[c][caller'[c]] # "none" BY <1>1, <2>0
      <3>3. \A t2 \in Tasks : On(t2, c)' /\ frame'[t2].at = "activate" => line'[c][callee'[c]] # "none" /\ c \in answered'
        BY <1>1, <2>0
      <3> QED BY <1>1, <1>4, <1>c, <2>0, <3>1, <3>2, <3>3 DEF Placed
    <2>3. Crossing(c)' BY <1>0, <1>1, <1>2, <1>3, <1>4, <2>1 DEF AboutCall, Crossing, Ending, At, On
    <2>4. Hung(c)'
      <3>1. Ending(c) => Ending(c)' BY <1>0, <1>2, <1>3 DEF Ending, At
      <3>2. c \notin ended_at' /\ call'[c] # "ended" BY <1>1, <1>4
      <3>3. \A t2 \in Tasks : On(t2, c)' /\ frame'[t2].at = "told_ended" => c \in hungup \cup lost
        BY <1>0, <1>2, <1>3, <2>1 DEF AboutCall, Hung
      <3>4. \A u \in Users : line[c][u] = "left" => c \in hungup \cup lost \/ Ending(c)
        BY <1>0 DEF AboutCall, Hung
      <3> QED BY <1>1, <1>4, <2>0, <3>1, <3>2, <3>3, <3>4 DEF Hung
    <2>5. Alerts(c)'
      <3>1. c \notin lost \cup late => ~Missed(c) BY <1>0, <2>0 DEF AboutCall, Alerts
      <3>2. c \notin lost \cup late => \A t2 \in Tasks : On(t2, c)' => frame'[t2].at # "alert"
        BY <1>0, <1>2, <1>3, <2>0, <2>1 DEF AboutCall, Alerts
      <3> QED BY <1>1, <1>4, <2>0, <3>1, <3>2 DEF Alerts, Missed
    <2> QED BY <2>2, <2>3, <2>4, <2>5 DEF AboutCall
  <1>6. RowTypes' BY <1>0, <1>1 DEF RowTypes, CallStates
  <1>7. \A c2 \in CallIds \ {c} : Untouched(c2) BY <1>0, <1>1 DEF Untouched, Missed, RowTypes
  <1>8. Fits(s, c, caller[c], callee[c]) BY <1>0, <1>1, <1>2, <1>c DEF Fits, FramesFit
  <1> QED BY <1>0, <1>1, <1>2, <1>4, <1>5, <1>6, <1>7, <1>8, <1>c, Together

LEMMA AlertMissedKeeps == ASSUME CallInv, NEW t \in Tasks, AlertMissed(t) PROVE CallInv'
  <1>at. frame[t].at = "alert" BY DEF AlertMissed
  <1>p. PICK c \in CallIds : c = frame[t].call BY <1>at, AtWork
  <1>c. /\ frame[t].call = c /\ call[c] # "none" /\ caller[c] \in Users /\ callee[c] \in Users
        /\ frame[t].user \in {caller[c], callee[c]} /\ frame[t].user \in Users /\ Other(c, frame[t].user) \in Users
    BY <1>at, <1>p, AtWork DEF CallInv, AboutCall, Placed
  <1>0. RowTypes /\ FramesFit /\ AboutCall(c) /\ frame[t].at = "alert" /\ On(t, c) BY <1>at, <1>c, FrameIs DEF On
  <1>s. PICK s \in FrameStates : /\ frame' = [frame EXCEPT ![t] = s]
                                /\ s.at = "leave" /\ s.user = frame[t].user /\ s.call = frame[t].call
    <2>1. Proceed(t, "leave") /\ "leave" \in FramePlaces BY DEF AlertMissed, FramePlaces
    <2> QED BY <1>at, <2>1, Ahead
  <1>1. /\ frame' = [frame EXCEPT ![t] = s]
        /\ missed' = missed \cup {<<c, Other(c, frame[t].user)>>}
        /\ UNCHANGED <<call, ended_at, caller, callee, line, heard, answered, hungup, late, lost>>
    BY <1>p, <1>s DEF AlertMissed, calls, told_of, past
  <1>2. s.at = "leave" /\ s.user = frame[t].user /\ s.call = c BY <1>s, <1>c
  <1>3. frame'[t] = s /\ \A t2 \in Tasks \ {t} : frame'[t2] = frame[t2] BY <1>1, NewFrame DEF CallInv
  <1>4. call'[c] # "none" BY <1>1, <1>c
  <1>5. AboutCall(c)'
    <2>1. \A t2 \in Tasks : On(t2, c)' => (t2 = t /\ s.call = c) \/ (t2 # t /\ On(t2, c)) BY <1>3 DEF On
    <2>2. Placed(c)' BY <1>0, <1>1, <1>2, <1>3, <1>4, <2>1 DEF AboutCall, Placed
    <2>3. Crossing(c)' BY <1>0, <1>1, <1>2, <1>3, <1>4, <2>1 DEF AboutCall, Crossing, Ending, At, On
    <2>4. Hung(c)' BY <1>0, <1>1, <1>2, <1>3, <1>4, <2>1 DEF AboutCall, Hung, Ending, At, On
    <2>5. Alerts(c)'
      <3> SUFFICES ASSUME c \notin lost \cup late PROVE Alerts(c)' BY <1>1 DEF Alerts
      <3>1. c \notin answered BY <1>0 DEF AboutCall, Alerts
      <3>2. Missed(c)' BY <1>1, <1>c DEF Missed
      <3>3. At(c, {"leave", "end"})' BY <1>2, <1>3 DEF At
      <3> QED BY <1>1, <3>1, <3>2, <3>3 DEF Alerts
    <2> QED BY <2>2, <2>3, <2>4, <2>5 DEF AboutCall
  <1>6. RowTypes' BY <1>0, <1>1, <1>c DEF RowTypes, CallStates
  <1>7. \A c2 \in CallIds \ {c} : Untouched(c2) BY <1>0, <1>1 DEF Untouched, Missed, RowTypes
  <1>8. Fits(s, c, caller[c], callee[c]) BY <1>0, <1>1, <1>2, <1>c DEF Fits, FramesFit
  <1> QED BY <1>0, <1>1, <1>2, <1>4, <1>5, <1>6, <1>7, <1>8, <1>c, Together

LEMMA LeaveCallKeeps == ASSUME CallInv, NEW t \in Tasks, LeaveCall(t) PROVE CallInv'
  <1>at. frame[t].at = "leave" BY DEF LeaveCall
  <1>p. PICK c \in CallIds : c = frame[t].call BY <1>at, AtWork
  <1>c. /\ frame[t].call = c /\ call[c] # "none" /\ caller[c] \in Users /\ callee[c] \in Users
        /\ frame[t].user \in {caller[c], callee[c]} /\ frame[t].user \in Users /\ Other(c, frame[t].user) \in Users
    BY <1>at, <1>p, AtWork DEF CallInv, AboutCall, Placed
  <1>0. RowTypes /\ FramesFit /\ AboutCall(c) /\ frame[t].at = "leave" /\ On(t, c) BY <1>at, <1>c, FrameIs DEF On
  <1>s. PICK s \in FrameStates : /\ frame' = [frame EXCEPT ![t] = s]
                                /\ s.at = "end" /\ s.user = frame[t].user /\ s.call = frame[t].call
    <2>1. Proceed(t, "end") /\ "end" \in FramePlaces BY DEF LeaveCall, FramePlaces
    <2> QED BY <1>at, <2>1, Ahead
  <1>1. /\ frame' = [frame EXCEPT ![t] = s]
        /\ line' = [line EXCEPT ![c][frame[t].user] = IF @ = "none" THEN @ ELSE "left"]
        /\ UNCHANGED <<call, ended_at, caller, callee, heard, missed, answered, hungup, late, lost>>
    BY <1>p, <1>s DEF LeaveCall, calls, told_of, past
  <1>2. s.at = "end" /\ s.user = frame[t].user /\ s.call = c BY <1>s, <1>c
  <1>3. frame'[t] = s /\ \A t2 \in Tasks \ {t} : frame'[t2] = frame[t2] BY <1>1, NewFrame DEF CallInv
  <1>4. call'[c] # "none" /\ \A u \in Users : (line'[c][u] = line[c][u]) \/ (line[c][u] # "none" /\ line'[c][u] = "left")
    BY <1>0, <1>1, <1>c DEF RowTypes
  <1>5. AboutCall(c)'
    <2>1. \A t2 \in Tasks : On(t2, c)' => (t2 = t /\ s.call = c) \/ (t2 # t /\ On(t2, c)) BY <1>3 DEF On
    <2>2. Placed(c)' BY <1>0, <1>1, <1>2, <1>3, <1>4, <2>1 DEF AboutCall, Placed
    <2>3. Crossing(c)' BY <1>0, <1>1, <1>2, <1>3, <1>4, <2>1 DEF AboutCall, Crossing, Ending, At, On
    <2>4. Hung(c)' BY <1>0, <1>1, <1>2, <1>3, <1>4, <2>1 DEF AboutCall, Hung, Ending, At, On
    <2>5. Alerts(c)' BY <1>0, <1>1, <1>2, <1>3, <1>4, <2>1 DEF AboutCall, Alerts, At, On, Missed
    <2> QED BY <2>2, <2>3, <2>4, <2>5 DEF AboutCall
  <1>6. RowTypes' BY <1>0, <1>1 DEF RowTypes, CallStates
  <1>7. \A c2 \in CallIds \ {c} : Untouched(c2) BY <1>0, <1>1 DEF Untouched, Missed, RowTypes
  <1>8. Fits(s, c, caller[c], callee[c]) BY <1>0, <1>1, <1>2, <1>c DEF Fits, FramesFit
  <1> QED BY <1>0, <1>1, <1>2, <1>4, <1>5, <1>6, <1>7, <1>8, <1>c, Together

LEMMA EndCallKeeps == ASSUME CallInv, NEW t \in Tasks, EndCall(t) PROVE CallInv'
  <1>at. frame[t].at = "end" BY DEF EndCall
  <1>p. PICK c \in CallIds : c = frame[t].call BY <1>at, AtWork
  <1>c. /\ frame[t].call = c /\ call[c] # "none" /\ caller[c] \in Users /\ callee[c] \in Users
        /\ frame[t].user \in {caller[c], callee[c]} /\ frame[t].user \in Users /\ Other(c, frame[t].user) \in Users
    BY <1>at, <1>p, AtWork DEF CallInv, AboutCall, Placed
  <1>0. RowTypes /\ FramesFit /\ AboutCall(c) /\ frame[t].at = "end" /\ On(t, c) BY <1>at, <1>c, FrameIs DEF On
  <1>s. PICK s \in FrameStates : /\ frame' = [frame EXCEPT ![t] = s]
                                /\ s.at = "told_ended" /\ s.user = frame[t].user /\ s.call = frame[t].call
    <2>1. Proceed(t, "told_ended") /\ "told_ended" \in FramePlaces BY DEF EndCall, FramePlaces
    <2> QED BY <1>at, <2>1, Ahead
  <1>1. /\ frame' = [frame EXCEPT ![t] = s]
        /\ call' = [call EXCEPT ![c] = "ended"]
        /\ ended_at' = ended_at \cup {c}
        /\ hungup' = hungup \cup {c}
        /\ UNCHANGED <<caller, callee, line, heard, missed, answered, late, lost>>
    BY <1>p, <1>s DEF EndCall, calls, told_of, past
  <1>2. s.at = "told_ended" /\ s.user = frame[t].user /\ s.call = c BY <1>s, <1>c
  <1>3. frame'[t] = s /\ \A t2 \in Tasks \ {t} : frame'[t2] = frame[t2] BY <1>1, NewFrame DEF CallInv
  <1>4. call'[c] = "ended" BY <1>0, <1>1 DEF RowTypes
  <1>5. AboutCall(c)'
    <2>1. \A t2 \in Tasks : On(t2, c)' => (t2 = t /\ s.call = c) \/ (t2 # t /\ On(t2, c)) BY <1>3 DEF On
    <2>2. Placed(c)'
      <3>1. line'[c][caller'[c]] # "none" BY <1>0, <1>1 DEF AboutCall, Placed
      <3>2. \A t2 \in Tasks : On(t2, c)' /\ frame'[t2].at = "activate" => line'[c][callee'[c]] # "none" /\ c \in answered'
        BY <1>0, <1>1, <1>2, <1>3, <2>1 DEF AboutCall, Placed
      <3> QED BY <1>1, <1>4, <1>c, <3>1, <3>2 DEF Placed
    <2>3. Crossing(c)' BY <1>0, <1>1, <1>2, <1>3, <1>4, <2>1 DEF AboutCall, Crossing, Ending, At, On
    <2>4. Hung(c)' BY <1>0, <1>1, <1>2, <1>3, <1>4, <2>1 DEF AboutCall, Hung, Ending, At, On
    <2>5. Alerts(c)' BY <1>0, <1>1, <1>2, <1>3, <1>4, <2>1 DEF AboutCall, Alerts, At, On, Missed
    <2> QED BY <2>2, <2>3, <2>4, <2>5 DEF AboutCall
  <1>6. RowTypes' BY <1>0, <1>1 DEF RowTypes, CallStates
  <1>7. \A c2 \in CallIds \ {c} : Untouched(c2) BY <1>0, <1>1 DEF Untouched, Missed, RowTypes
  <1>8. Fits(s, c, caller[c], callee[c]) BY <1>0, <1>1, <1>2, <1>c DEF Fits, FramesFit
  <1> QED BY <1>0, <1>1, <1>2, <1>4, <1>5, <1>6, <1>7, <1>8, <1>c, Together

LEMMA AcceptKeeps == ASSUME CallInv, NEW t \in Tasks, NEW c \in CallIds, Accept(t, c) PROVE CallInv'
  <1>c. /\ call[c] # "none" /\ caller[c] \in Users /\ callee[c] \in Users /\ line[c][caller[c]] # "none"
    BY FrameIs DEF Accept, AboutCall, Placed
  <1>s. PICK s \in FrameStates : s = [at |-> "activate", user |-> callee[c], call |-> c]
    BY <1>c DEF FrameStates, FramePlaces
  <1>0. RowTypes /\ FramesFit /\ AboutCall(c) /\ frame[t] = NoFrame /\ frame[t].call = None /\ ~On(t, c)
    BY FrameIs, NoFrameIs, CallAssumption DEF On, Accept, Receive
  <1>1. /\ frame' = [frame EXCEPT ![t] = s]
        /\ line' = [line EXCEPT ![c][callee[c]] = "in"]
        /\ answered' = answered \cup {c}
        /\ late' = IF Ending(c) \/ c \in hungup THEN late \cup {c} ELSE late
        /\ UNCHANGED <<call, ended_at, caller, callee, heard, missed, hungup, lost>>
    BY <1>s DEF Accept, Receive, told_of
  <1>2. s.at = "activate" /\ s.user = callee[c] /\ s.call = c BY <1>s
  <1>3. frame'[t] = s /\ \A t2 \in Tasks \ {t} : frame'[t2] = frame[t2] BY <1>1, NewFrame DEF CallInv
  <1>4. /\ call'[c] # "none" /\ line'[c][callee[c]] = "in" /\ line'[c][caller[c]] # "none" /\ c \in answered'
        /\ \A u \in Users : line'[c][u] \in {line[c][u], "in"}
    BY <1>0, <1>1, <1>c DEF RowTypes
  <1>5. AboutCall(c)'
    <2>1. \A t2 \in Tasks : On(t2, c)' => (t2 = t /\ s.call = c) \/ (t2 # t /\ On(t2, c)) BY <1>3 DEF On
    <2>2. Placed(c)' BY <1>0, <1>1, <1>2, <1>3, <1>4, <1>c, <2>1 DEF AboutCall, Placed
    <2>3. Ending(c)' <=> Ending(c) BY <1>0, <1>2, <1>3 DEF Ending, At, On
    <2>4. Crossing(c)'
      <3>1. Ending(c) \/ c \in hungup => c \in late' BY <1>1
      <3> QED BY <1>1, <2>3, <3>1 DEF Crossing
    <2>5. Hung(c)' BY <1>0, <1>1, <1>2, <1>3, <1>4, <2>1, <2>3 DEF AboutCall, Hung
    <2>6. Alerts(c)'
      <3> SUFFICES ASSUME c \notin lost \cup late' PROVE Alerts(c)' BY <1>1 DEF Alerts
      <3>1. c \notin late /\ ~Ending(c) /\ c \notin hungup BY <1>1
      <3>2. ~At(c, {"leave", "end"}) /\ call[c] # "ended" BY <1>0, <3>1 DEF Ending, At, AboutCall, Hung
      <3>3. ~Missed(c) BY <1>0, <3>1, <3>2 DEF AboutCall, Alerts
      <3>4. \A t2 \in Tasks : On(t2, c)' => frame'[t2].at # "alert"
        BY <1>2, <1>3, <2>1, <3>1 DEF Ending, At, On
      <3>5. At(c, {"activate"})' BY <1>2, <1>3 DEF At
      <3> QED BY <1>1, <1>4, <3>3, <3>4, <3>5 DEF Alerts, Missed
    <2> QED BY <2>2, <2>4, <2>5, <2>6 DEF AboutCall
  <1>6. RowTypes' BY <1>0, <1>1, <1>c DEF RowTypes, CallStates
  <1>7. \A c2 \in CallIds \ {c} : Untouched(c2) BY <1>0, <1>1 DEF Untouched, Missed, RowTypes
  <1>8. Fits(s, c, caller[c], callee[c]) BY <1>2 DEF Fits
  <1> QED BY <1>0, <1>1, <1>2, <1>4, <1>5, <1>6, <1>7, <1>8, <1>c, Together

LEMMA AcceptFailsKeeps == ASSUME CallInv, NEW t \in Tasks, NEW c \in CallIds, AcceptFails(t, c) PROVE CallInv'
  <1>c. /\ call[c] # "none" /\ caller[c] \in Users /\ callee[c] \in Users /\ line[c][caller[c]] # "none"
    BY FrameIs DEF AcceptFails, AboutCall, Placed
  <1>s. PICK s \in FrameStates : s = [at |-> "told_accept", user |-> callee[c], call |-> c]
    BY <1>c DEF FrameStates, FramePlaces
  <1>0. RowTypes /\ FramesFit /\ AboutCall(c) /\ frame[t] = NoFrame /\ frame[t].call = None /\ ~On(t, c)
    BY FrameIs, NoFrameIs, CallAssumption DEF On, AcceptFails, Receive
  <1>1. /\ frame' = [frame EXCEPT ![t] = s]
        /\ lost' = lost \cup {c}
        /\ UNCHANGED <<call, ended_at, caller, callee, line, heard, missed, answered, hungup, late>>
    BY <1>s DEF AcceptFails, Receive, calls, told_of
  <1>2. s.at = "told_accept" /\ s.user = callee[c] /\ s.call = c BY <1>s
  <1>3. frame'[t] = s /\ \A t2 \in Tasks \ {t} : frame'[t2] = frame[t2] BY <1>1, NewFrame DEF CallInv
  <1>4. call'[c] # "none" /\ c \in lost' BY <1>1, <1>c
  <1>5. AboutCall(c)'
    <2>1. \A t2 \in Tasks : On(t2, c)' => (t2 = t /\ s.call = c) \/ (t2 # t /\ On(t2, c)) BY <1>3 DEF On
    <2>2. Placed(c)' BY <1>0, <1>1, <1>2, <1>3, <1>4, <1>c, <2>1 DEF AboutCall, Placed
    <2>3. Crossing(c)' BY <1>0, <1>1, <1>2, <1>3, <1>4, <2>1 DEF AboutCall, Crossing, Ending, At, On, Answering
    <2>4. Hung(c)' BY <1>0, <1>1, <1>2, <1>3, <1>4, <2>1 DEF AboutCall, Hung, Ending, At, On
    <2>5. Alerts(c)' BY <1>0, <1>1, <1>2, <1>3, <1>4, <2>1 DEF AboutCall, Alerts, At, On, Missed
    <2> QED BY <2>2, <2>3, <2>4, <2>5 DEF AboutCall
  <1>6. RowTypes' BY <1>0, <1>1 DEF RowTypes, CallStates
  <1>7. \A c2 \in CallIds \ {c} : Untouched(c2) BY <1>0, <1>1 DEF Untouched, Missed, RowTypes
  <1>8. Fits(s, c, caller[c], callee[c]) BY <1>2 DEF Fits
  <1> QED BY <1>0, <1>1, <1>2, <1>4, <1>5, <1>6, <1>7, <1>8, <1>c, Together

LEMMA HangUpKeeps == ASSUME CallInv, NEW t \in Tasks, NEW c \in CallIds, NEW u \in {caller[c], callee[c]},
                            HangUp(t, u, c) PROVE CallInv'
  <1>c. /\ call[c] # "none" /\ caller[c] \in Users /\ callee[c] \in Users /\ line[c][caller[c]] # "none"
    BY FrameIs DEF HangUp, AboutCall, Placed
  <1>s. PICK s \in FrameStates : s = [at |-> "look", user |-> u, call |-> c]
    BY <1>c DEF FrameStates, FramePlaces
  <1>0. RowTypes /\ FramesFit /\ AboutCall(c) /\ frame[t] = NoFrame /\ frame[t].call = None /\ ~On(t, c)
    BY FrameIs, NoFrameIs, CallAssumption DEF On, HangUp, Receive
  <1>1. /\ frame' = [frame EXCEPT ![t] = s]
        /\ late' = IF Answering(c) THEN late \cup {c} ELSE late
        /\ UNCHANGED <<call, ended_at, caller, callee, line, heard, missed, answered, hungup, lost>>
    BY <1>s DEF HangUp, Receive, calls, told_of
  <1>2. s.at = "look" /\ s.user = u /\ s.call = c BY <1>s
  <1>3. frame'[t] = s /\ \A t2 \in Tasks \ {t} : frame'[t2] = frame[t2] BY <1>1, NewFrame DEF CallInv
  <1>4. call'[c] # "none" BY <1>1, <1>c
  <1>5. AboutCall(c)'
    <2>1. \A t2 \in Tasks : On(t2, c)' => (t2 = t /\ s.call = c) \/ (t2 # t /\ On(t2, c)) BY <1>3 DEF On
    <2>2. Placed(c)' BY <1>0, <1>1, <1>2, <1>3, <1>4, <1>c, <2>1 DEF AboutCall, Placed
    <2>3. Crossing(c)' BY <1>0, <1>1, <1>2, <1>3, <1>4, <2>1 DEF AboutCall, Crossing, Ending, At, On, Answering
    <2>4. Hung(c)' BY <1>0, <1>1, <1>2, <1>3, <1>4, <2>1 DEF AboutCall, Hung, Ending, At, On
    <2>5. Alerts(c)' BY <1>0, <1>1, <1>2, <1>3, <1>4, <2>1 DEF AboutCall, Alerts, At, On, Missed
    <2> QED BY <2>2, <2>3, <2>4, <2>5 DEF AboutCall
  <1>6. RowTypes' BY <1>0, <1>1 DEF RowTypes, CallStates
  <1>7. \A c2 \in CallIds \ {c} : Untouched(c2) BY <1>0, <1>1 DEF Untouched, Missed, RowTypes
  <1>8. Fits(s, c, caller[c], callee[c]) BY <1>2 DEF Fits
  <1> QED BY <1>0, <1>1, <1>2, <1>4, <1>5, <1>6, <1>7, <1>8, <1>c, Together

LEMMA LookKeeps == ASSUME CallInv, NEW t \in Tasks, Look(t) PROVE CallInv'
  <1>at. frame[t].at = "look" BY DEF Look
  <1>p. PICK c \in CallIds : c = frame[t].call BY <1>at, AtWork
  <1>c. /\ frame[t].call = c /\ call[c] # "none" /\ caller[c] \in Users /\ callee[c] \in Users
        /\ frame[t].user \in {caller[c], callee[c]} /\ frame[t].user \in Users /\ Other(c, frame[t].user) \in Users
    BY <1>at, <1>p, AtWork DEF CallInv, AboutCall, Placed
  <1>0. RowTypes /\ FramesFit /\ AboutCall(c) /\ frame[t].at = "look" /\ On(t, c) BY <1>at, <1>c, FrameIs DEF On
  <1>a. PICK at \in {"alert", "leave"} : at = (IF call[frame[t].call] = "initiated" THEN "alert" ELSE "leave") OBVIOUS
  <1>s. PICK s \in FrameStates : /\ frame' = [frame EXCEPT ![t] = s]
                                /\ s.at = at /\ s.user = frame[t].user /\ s.call = frame[t].call
    <2>1. Proceed(t, at) /\ at \in FramePlaces BY <1>a DEF Look, FramePlaces
    <2> QED BY <1>at, <2>1, Ahead
  <1>1. /\ frame' = [frame EXCEPT ![t] = s]
        /\ UNCHANGED <<call, ended_at, caller, callee, line, heard, missed, answered, hungup, late, lost>>
    BY <1>p, <1>s DEF Look, calls, told_of, past
  <1>2. s.at = at /\ s.user = frame[t].user /\ s.call = c BY <1>s, <1>c
  <1>3. frame'[t] = s /\ \A t2 \in Tasks \ {t} : frame'[t2] = frame[t2] BY <1>1, NewFrame DEF CallInv
  <1>4. call'[c] # "none" BY <1>1, <1>c
  <1>5. AboutCall(c)'
    <2>1. \A t2 \in Tasks : On(t2, c)' => (t2 = t /\ s.call = c) \/ (t2 # t /\ On(t2, c)) BY <1>3 DEF On
    <2>2. Placed(c)' BY <1>0, <1>1, <1>2, <1>3, <1>4, <2>1 DEF AboutCall, Placed
    <2>3. Crossing(c)' BY <1>0, <1>1, <1>2, <1>3, <1>4, <2>1 DEF AboutCall, Crossing, Ending, At, On
    <2>4. Hung(c)' BY <1>0, <1>1, <1>2, <1>3, <1>4, <2>1 DEF AboutCall, Hung, Ending, At, On
    <2>5. Alerts(c)'
      <3> SUFFICES ASSUME c \notin lost \cup late PROVE Alerts(c)' BY <1>1 DEF Alerts
      <3>1. Ending(c) BY <1>0, <1>c DEF Ending, At, On
      <3>2. ~At(c, {"activate"}) BY <1>0, <3>1 DEF AboutCall, Crossing, At, On
      <3>3. call[c] = "initiated" => c \notin answered BY <1>0, <3>2 DEF AboutCall, Alerts
      <3>4. call[c] # "initiated" => call[c] \in {"active", "ended"} BY <1>0, <1>c DEF RowTypes, CallStates
      <3>5. call[c] # "initiated" => c \in answered \/ Missed(c)
        BY <1>0, <3>4 DEF AboutCall, Placed, Alerts
      <3>6. s.at = IF call[c] = "initiated" THEN "alert" ELSE "leave" BY <1>a, <1>2, <1>c
      <3>7. \A t2 \in Tasks : On(t2, c)' /\ frame'[t2].at = "alert" => c \notin answered
        BY <1>0, <1>3, <2>1, <3>3, <3>6 DEF AboutCall, Alerts
      <3>8. \A t2 \in Tasks : On(t2, c)' /\ frame'[t2].at \in {"leave", "end", "told_ended"} => c \in answered \/ Missed(c)
        BY <1>0, <1>3, <2>1, <3>5, <3>6 DEF AboutCall, Alerts
      <3>9. Missed(c) => c \notin answered /\ (call[c] = "ended" \/ At(c, {"leave", "end"})')
        BY <1>0, <1>3 DEF AboutCall, Alerts, At, On
      <3> QED BY <1>0, <1>1, <3>2, <3>7, <3>8, <3>9 DEF Alerts, Missed, AboutCall
    <2> QED BY <2>2, <2>3, <2>4, <2>5 DEF AboutCall
  <1>6. RowTypes' BY <1>0, <1>1 DEF RowTypes, CallStates
  <1>7. \A c2 \in CallIds \ {c} : Untouched(c2) BY <1>0, <1>1 DEF Untouched, Missed, RowTypes
  <1>8. Fits(s, c, caller[c], callee[c]) BY <1>0, <1>1, <1>2, <1>c DEF Fits, FramesFit
  <1> QED BY <1>0, <1>1, <1>2, <1>4, <1>5, <1>6, <1>7, <1>8, <1>c, Together

LEMMA SkipRestKeeps == ASSUME CallInv, NEW t \in Tasks, SkipRest(t) PROVE CallInv'
  <1>at. frame[t].at \in {"activate", "look", "alert", "leave", "end"} BY DEF SkipRest
  <1>p. PICK c \in CallIds : c = frame[t].call BY <1>at, AtWork
  <1>c. /\ frame[t].call = c /\ call[c] # "none" /\ caller[c] \in Users /\ callee[c] \in Users
        /\ frame[t].user \in {caller[c], callee[c]} /\ frame[t].user \in Users /\ Other(c, frame[t].user) \in Users
    BY <1>at, <1>p, AtWork DEF CallInv, AboutCall, Placed
  <1>0. RowTypes /\ FramesFit /\ AboutCall(c) /\ frame[t].at \in {"activate", "look", "alert", "leave", "end"} /\ On(t, c) BY <1>at, <1>c, FrameIs DEF On
  <1>a. PICK at \in {"told_accept", "leave", "end", "told_ended"} :
          /\ at = AfterError(frame[t].at)
          /\ at = "told_accept" <=> frame[t].at = "activate"
    BY <1>at DEF AfterError
  <1>s. PICK s \in FrameStates : /\ frame' = [frame EXCEPT ![t] = s]
                                /\ s.at = at /\ s.user = frame[t].user /\ s.call = frame[t].call
    <2>1. Proceed(t, at) /\ at \in FramePlaces BY <1>a DEF SkipRest, FramePlaces
    <2> QED BY <1>at, <2>1, Ahead
  <1>1. /\ frame' = [frame EXCEPT ![t] = s]
        /\ lost' = lost \cup {c}
        /\ UNCHANGED <<call, ended_at, caller, callee, line, heard, missed, answered, hungup, late>>
    BY <1>p, <1>s DEF SkipRest, calls, told_of
  <1>2. s.at = at /\ s.user = frame[t].user /\ s.call = c BY <1>s, <1>c
  <1>3. frame'[t] = s /\ \A t2 \in Tasks \ {t} : frame'[t2] = frame[t2] BY <1>1, NewFrame DEF CallInv
  <1>4. call'[c] # "none" /\ c \in lost' BY <1>1, <1>c
  <1>5. AboutCall(c)'
    <2>1. \A t2 \in Tasks : On(t2, c)' => (t2 = t /\ s.call = c) \/ (t2 # t /\ On(t2, c)) BY <1>3 DEF On
    <2>2. Placed(c)' BY <1>a, <1>0, <1>1, <1>2, <1>3, <1>4, <2>1 DEF AboutCall, Placed
    <2>3. Crossing(c)' BY <1>a, <1>0, <1>1, <1>2, <1>3, <1>4, <2>1 DEF AboutCall, Crossing, Ending, At, On
    <2>4. Hung(c)' BY <1>a, <1>0, <1>1, <1>2, <1>3, <1>4, <2>1 DEF AboutCall, Hung, Ending, At, On
    <2>5. Alerts(c)' BY <1>0, <1>1, <1>2, <1>3, <1>4, <2>1 DEF AboutCall, Alerts, At, On, Missed
    <2> QED BY <2>2, <2>3, <2>4, <2>5 DEF AboutCall
  <1>6. RowTypes' BY <1>0, <1>1 DEF RowTypes, CallStates
  <1>7. \A c2 \in CallIds \ {c} : Untouched(c2) BY <1>0, <1>1 DEF Untouched, Missed, RowTypes
  <1>8. Fits(s, c, caller[c], callee[c]) BY <1>0, <1>1, <1>2, <1>a, <1>c DEF Fits, FramesFit
  <1> QED BY <1>0, <1>1, <1>2, <1>4, <1>5, <1>6, <1>7, <1>8, <1>c, Together

LEMMA DropFrameKeeps == ASSUME CallInv, NEW t \in Tasks, DropFrame(t) PROVE CallInv'
  <1>at. frame[t].at # "none" BY FrameIs DEF DropFrame, FramesFit, FrameStates, NoFrame
  <1>p. PICK c \in CallIds : c = frame[t].call BY <1>at, AtWork
  <1>c. /\ frame[t].call = c /\ call[c] # "none" /\ caller[c] \in Users /\ callee[c] \in Users
        /\ frame[t].user \in {caller[c], callee[c]} /\ frame[t].user \in Users /\ Other(c, frame[t].user) \in Users
    BY <1>at, <1>p, AtWork DEF CallInv, AboutCall, Placed
  <1>0. RowTypes /\ FramesFit /\ AboutCall(c) /\ frame[t].at # "none" /\ On(t, c) BY <1>at, <1>c, FrameIs DEF On
  <1>s. PICK s \in FrameStates : s = NoFrame BY NoFrameIs
  <1>1. /\ frame' = [frame EXCEPT ![t] = s]
        /\ lost' = lost \cup {c}
        /\ UNCHANGED <<call, ended_at, caller, callee, line, heard, missed, answered, hungup, late>>
    BY <1>p, <1>s DEF DropFrame, EndFrame, calls, told_of
  <1>2. s.at = "none" /\ s.call = None /\ s.user = None /\ s.call # c BY <1>s, NoFrameIs, CallAssumption
  <1>3. frame'[t] = s /\ \A t2 \in Tasks \ {t} : frame'[t2] = frame[t2] BY <1>1, NewFrame DEF CallInv
  <1>4. call'[c] # "none" /\ c \in lost' BY <1>1, <1>c
  <1>5. AboutCall(c)'
    <2>1. \A t2 \in Tasks : On(t2, c)' => (t2 = t /\ s.call = c) \/ (t2 # t /\ On(t2, c)) BY <1>3 DEF On
    <2>2. Placed(c)' BY <1>0, <1>1, <1>2, <1>3, <1>4, <2>1 DEF AboutCall, Placed
    <2>3. Crossing(c)' BY <1>0, <1>1, <1>2, <1>3, <1>4, <2>1 DEF AboutCall, Crossing, Ending, At, On
    <2>4. Hung(c)' BY <1>0, <1>1, <1>2, <1>3, <1>4, <2>1 DEF AboutCall, Hung, Ending, At, On
    <2>5. Alerts(c)' BY <1>0, <1>1, <1>2, <1>3, <1>4, <2>1 DEF AboutCall, Alerts, At, On, Missed
    <2> QED BY <2>2, <2>3, <2>4, <2>5 DEF AboutCall
  <1>6. RowTypes' BY <1>0, <1>1 DEF RowTypes, CallStates
  <1>7. \A c2 \in CallIds \ {c} : Untouched(c2) BY <1>0, <1>1 DEF Untouched, Missed, RowTypes
  <1>8. Fits(s, c, caller[c], callee[c]) BY <1>0, <1>1, <1>2, <1>c DEF Fits, FramesFit
  <1> QED BY <1>0, <1>1, <1>2, <1>4, <1>5, <1>6, <1>7, <1>8, <1>c, Together

----------------------------------------------------------------------------
(* Every step keeps the invariant.                                         *)

LEMMA CallInitHolds == CallInit => CallInv
  <1> SUFFICES ASSUME CallInit PROVE CallInv OBVIOUS
  <1>1. RowTypes BY DEF CallInit, RowTypes, CallStates
  <1>2. frame \in [Tasks -> FrameStates] /\ \A t \in Tasks : frame[t] = NoFrame
    BY NoFrameIs DEF CallInit
  <1>3. FramesFit BY <1>2, NoFrameIs DEF FramesFit
  <1>4. \A c \in CallIds, t \in Tasks : ~On(t, c) BY <1>2, NoFrameIs, CallAssumption DEF On
  <1>5. ASSUME NEW c \in CallIds PROVE AboutCall(c)
    <2>1. /\ call[c] = "none" /\ c \notin ended_at /\ c \notin answered /\ c \notin hungup /\ ~Missed(c)
          /\ heard = {} /\ \A u \in Users : line[c][u] = "none"
      BY DEF CallInit, Missed
    <2>2. Placed(c) BY <2>1, <1>4 DEF Placed
    <2>3. Crossing(c) BY <1>4 DEF Crossing
    <2>4. Hung(c) BY <2>1, <1>4 DEF Hung
    <2>5. Alerts(c) BY <2>1, <1>4 DEF Alerts
    <2> QED BY <2>2, <2>3, <2>4, <2>5 DEF AboutCall
  <1> QED BY <1>1, <1>2, <1>3, <1>5, TypesMean DEF CallInv

LEMMA CallStutterKeeps == ASSUME CallInv, UNCHANGED callVars PROVE CallInv'
  <1>1. UNCHANGED <<call, ended_at, caller, callee, line, heard, missed, frame, answered, hungup, late, lost>>
    BY DEF callVars, calls, told_of, past
  <1>2. CallTypeOK' BY <1>1 DEF CallInv, CallTypeOK
  <1>3. FramesFit' BY <1>1 DEF CallInv, FramesFit
  <1>4. ASSUME NEW c \in CallIds PROVE AboutCall(c)'
    <2>1. Untouched(c) BY <1>1 DEF Untouched, Missed
    <2> QED BY <1>1, <2>1, OtherCall DEF CallInv
  <1> QED BY <1>2, <1>3, <1>4 DEF CallInv

LEMMA CallNextKeeps == ASSUME CallInv, CallNext PROVE CallInv'
  <1> PICK t \in Tasks : CallFrame(t) \/ CallStep(t) \/ SkipRest(t) \/ DropFrame(t) BY DEF CallNext
  <1>1. CASE CallFrame(t)
    <2> PICK c \in CallIds : \/ \E u, v \in Users : Invite(t, u, v, c)
                             \/ Accept(t, c) \/ AcceptFails(t, c)
                             \/ \E u \in {caller[c], callee[c]} : HangUp(t, u, c)
      BY <1>1 DEF CallFrame
    <2> QED BY InviteKeeps, AcceptKeeps, AcceptFailsKeeps, HangUpKeeps
  <1>2. CASE CallStep(t)
    BY <1>2, HostRowKeeps, RingKeeps, AckKeeps, ActivateKeeps, AcceptedKeeps, LookKeeps, AlertMissedKeeps,
       LeaveCallKeeps, EndCallKeeps, EndedKeeps DEF CallStep
  <1> QED BY <1>1, <1>2, SkipRestKeeps, DropFrameKeeps

LEMMA CallInvMeans == CallInv => CallTypeOK /\ MissedIsAlerted /\ CallRowsAgree
  <1> SUFFICES ASSUME CallInv PROVE CallTypeOK /\ MissedIsAlerted /\ CallRowsAgree OBVIOUS
  <1>1. MissedIsAlerted
    <2> SUFFICES ASSUME NEW c \in CallIds \ (lost \cup late), ~InProgress(c)
                 PROVE  Missed(c) <=> (call[c] = "ended" /\ c \notin answered)
      BY DEF MissedIsAlerted, Missed
    <2>1. ~At(c, {"activate"}) /\ ~At(c, {"leave", "end"}) BY DEF At, InProgress
    <2> QED BY <2>1 DEF CallInv, AboutCall, Alerts
  <1>2. CallRowsAgree BY DEF CallRowsAgree, CallInv, AboutCall, Placed, Hung
  <1> QED BY <1>1, <1>2 DEF CallInv

\* The frames of two sockets may run between any two statements of one another: what
\* CallInv says of the rows, of the events and of the frames at work holds all the while.
THEOREM CallInvariance == CallSpec => []CallInv
  <1>1. CallInit => CallInv BY CallInitHolds
  <1>2. CallInv /\ [CallNext]_callVars => CallInv' BY CallNextKeeps, CallStutterKeeps
  <1> QED BY <1>1, <1>2, PTL DEF CallSpec

\* The rows of a call, the history and the frames of the loops are well typed.
THEOREM CallTypesHold == CallSpec => []CallTypeOK
  BY CallInvariance, CallInvMeans, PTL

\* A notification of a missed call was sent exactly if the call ended unanswered, when no
\* frame about it was lost and no accept met an end (the call:ended branch, which looks at
\* the status in one statement and ends the call three statements later).
THEOREM MissedCallsAreAlerted == CallSpec => []MissedIsAlerted
  BY CallInvariance, CallInvMeans, PTL

\* The status of a call, its time, its participants and its end agree at every step,
\* however the statements of its frames interleave and whichever of them fail.
THEOREM RowsOfACallAgree == CallSpec => []CallRowsAgree
  BY CallInvariance, CallInvMeans, PTL

\* An end that no accept has met is final.
EndIsFinal == \A c \in CallIds \ late : call[c] = "ended" => call'[c] = "ended"

\* An accept sets the status whatever it was: if the call has ended, it is late.
LEMMA EndsRemain == ASSUME CallInv, CallNext PROVE EndIsFinal
  <1> SUFFICES ASSUME NEW c \in CallIds, c \notin late, call[c] = "ended" PROVE call'[c] = "ended"
    BY DEF EndIsFinal
  <1>1. call \in [CallIds -> CallStates] /\ AboutCall(c) BY TypesMean DEF CallInv, RowTypes
  <1>2. CASE UNCHANGED call BY <1>2
  <1>3. ASSUME NEW t \in Tasks, NEW u \in Users, NEW v \in Users, NEW d \in CallIds, Invite(t, u, v, d)
        PROVE  call'[c] = "ended"
    BY <1>1, <1>3 DEF Invite
  <1>4. ASSUME NEW t \in Tasks, Activate(t) PROVE call'[c] = "ended"
    <2>1. frame[t].at = "activate" /\ call' = [call EXCEPT ![frame[t].call] = "active"]
      BY <1>4 DEF Activate
    <2>2. frame[t].call # c BY <1>1, <2>1 DEF AboutCall, Crossing, Hung, On
    <2> QED BY <1>1, <2>1, <2>2
  <1>5. ASSUME NEW t \in Tasks, EndCall(t) PROVE call'[c] = "ended" BY <1>1, <1>5 DEF EndCall
  <1>6. ASSUME NEW t \in Tasks, CallStep(t), ~Activate(t), ~EndCall(t) PROVE UNCHANGED call
    BY <1>6 DEF CallStep, HostRow, Ring, Ack, Accepted, Look, AlertMissed, LeaveCall, Ended, calls
  <1>7. ASSUME NEW t \in Tasks, NEW d \in CallIds,
               Accept(t, d) \/ AcceptFails(t, d) \/ \E u \in {caller[d], callee[d]} : HangUp(t, u, d)
        PROVE  UNCHANGED call
    BY <1>7 DEF Accept, AcceptFails, HangUp, calls
  <1>8. ASSUME NEW t \in Tasks, SkipRest(t) \/ DropFrame(t) PROVE UNCHANGED call
    BY <1>8 DEF SkipRest, DropFrame, calls
  <1> QED BY <1>2, <1>3, <1>4, <1>5, <1>6, <1>7, <1>8 DEF CallNext, CallFrame

\* A call that ended stays ended, although update_status asks nothing of the row: only an
\* accept that overlapped the end makes it active again.
THEOREM EndsAreFinal == CallSpec => [][EndIsFinal]_callVars
  <1>1. CallInv /\ [CallNext]_callVars => [EndIsFinal]_callVars BY EndsRemain
  <1> QED BY <1>1, CallInvariance, PTL DEF CallSpec
=============================================================================
