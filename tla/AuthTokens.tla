----------------------------- MODULE AuthTokens -----------------------------
(***************************************************************************)
(* Refresh tokens (services/auth/src/lib.rs).  A token is signed from the  *)
(* user, the kind and two times in whole seconds (crates/auth): of one     *)
(* user, it is its second, and two made in one second are equal.           *)
(***************************************************************************)
EXTENDS Service, Integers

CONSTANTS
  Accounts,   \* users, as far as their sessions go
  MaxSecond,  \* bound on the clock
  Lifetime    \* seconds a refresh token is valid

ASSUME AuthAssumption == None \notin Accounts /\ MaxSecond \in Nat /\ Lifetime \in Nat \ {0}

VARIABLES
  second,     \* Utc::now()
  revoked,    \* refresh_tokens: none, FALSE or TRUE for each token
  held,       \* tokens that reached a client
  request,    \* what each task is doing
  \* History, no state of the code:
  exchanged,  \* <<old, new>>: new was issued in exchange for old
  twice,      \* tokens of which two exchanges overlapped
  doomed      \* tokens that were there when a reuse of one of the user's was dealt with

authVars == <<second, revoked, held, request, exchanged, twice, doomed>>

Seconds == 0..MaxSecond
AuthTokenIds == Accounts \X Seconds
NoToken == <<None, 0>>

Resting == [op |-> "none", at |-> "none", old |-> NoToken, new |-> NoToken]

AuthInit ==
  /\ second = 0
  /\ revoked = [k \in AuthTokenIds |-> "none"]
  /\ held = {} /\ exchanged = {} /\ twice = {} /\ doomed = {}
  /\ request = [t \in Tasks |-> Resting]

Serve(t, state) == request' = [request EXCEPT ![t] = state]
Rest(t) == Serve(t, Resting)

TickSecond ==
  /\ second < MaxSecond
  /\ second' = second + 1
  /\ UNCHANGED <<revoked, held, request, exchanged, twice, doomed>>

\* generate_token
Sign(u) == <<u, second>>

Expired(k) == k[2] + Lifetime < second

----------------------------------------------------------------------------
\* The tokens are answered without a row.
WrongLogin(t, u) ==
  /\ request[t] = Resting
  /\ Serve(t, [Resting EXCEPT !.op = "login", !.at = "answer", !.new = Sign(u)])
  /\ UNCHANGED <<second, revoked, held, exchanged, twice, doomed>>

\* The password is right and the tokens are signed.
Login(t, u) ==
  /\ request[t] = Resting
  /\ Serve(t, [Resting EXCEPT !.op = "login", !.at = "create", !.new = Sign(u)])
  /\ UNCHANGED <<second, revoked, held, exchanged, twice, doomed>>

\* create; the token is unique.  A login goes on to the row of the device.
CreateToken(t) == LET k == request[t].new IN
  /\ request[t].at = "create"
  /\ IF revoked[k] # "none" THEN Rest(t) /\ UNCHANGED <<revoked, exchanged>>
     ELSE /\ revoked' = [revoked EXCEPT ![k] = "FALSE"]
          /\ exchanged' = IF request[t].op = "refresh"
               THEN exchanged \cup {<<request[t].old, k>>} ELSE exchanged
          /\ Serve(t, [request[t] EXCEPT !.at = "answer"])
  /\ UNCHANGED <<second, held, twice, doomed>>

\* The answer of login or refresh reaches the client.
AnswerTokens(t) ==
  /\ request[t].at = "answer"
  /\ held' = held \cup {request[t].new}
  /\ Rest(t)
  /\ UNCHANGED <<second, revoked, exchanged, twice, doomed>>

----------------------------------------------------------------------------
\* Another exchange of the same token is between its lookup and its end.
Exchanging(k) == \E t \in Tasks : request[t].op = "refresh" /\ request[t].old = k /\ request[t].at = "revoke"

\* Anything but a token that is too old is exchanged.
WrongRefresh(t, k) ==
  /\ request[t] = Resting /\ k \in held
  /\ ~Expired(k)
  /\ Serve(t, [Resting EXCEPT !.op = "refresh", !.at = "revoke", !.old = k])
  /\ twice' = IF Exchanging(k) THEN twice \cup {k} ELSE twice
  /\ UNCHANGED <<second, revoked, held, exchanged, doomed>>

\* verify_token and find_by_token.  A revoked one is dealt with although it has expired:
\* verify_token leaves a minute's leeway.
Refresh(t, k) ==
  /\ request[t] = Resting /\ k \in held
  /\ \/ /\ revoked[k] = "TRUE"
        /\ Serve(t, [Resting EXCEPT !.op = "reuse", !.at = "revoke_all", !.old = k])
        /\ UNCHANGED twice
     \/ /\ revoked[k] = "FALSE" /\ ~Expired(k)
        /\ Serve(t, [Resting EXCEPT !.op = "refresh", !.at = "revoke", !.old = k])
        /\ twice' = IF Exchanging(k) THEN twice \cup {k} ELSE twice
  /\ UNCHANGED <<second, revoked, held, exchanged, doomed>>

\* revoke_by_token, and the new pair is signed.
RevokeOld(t) == LET k == request[t].old IN
  /\ request[t].at = "revoke"
  /\ revoked' = [revoked EXCEPT ![k] = "TRUE"]
  /\ Serve(t, [request[t] EXCEPT !.at = "create", !.new = Sign(k[1])])
  /\ UNCHANGED <<second, held, exchanged, twice, doomed>>

Sessions(u) == {k \in AuthTokenIds : k[1] = u /\ revoked[k] # "none"}

\* Only the token that was used again is revoked.
WrongRevokeAll(t) == LET k == request[t].old IN
  /\ request[t].at = "revoke_all"
  /\ revoked' = [revoked EXCEPT ![k] = "TRUE"]
  /\ doomed' = doomed \cup Sessions(k[1])
  /\ Rest(t)
  /\ UNCHANGED <<second, held, exchanged, twice>>

\* revoke_all_for_user, and the error.
RevokeAll(t) == LET u == request[t].old[1] IN
  /\ request[t].at = "revoke_all"
  /\ revoked' = [k \in AuthTokenIds |-> IF k \in Sessions(u) THEN "TRUE" ELSE revoked[k]]
  /\ doomed' = doomed \cup Sessions(u)
  /\ Rest(t)
  /\ UNCHANGED <<second, held, exchanged, twice>>

\* No owner is asked for.
Logout(k) ==
  /\ k \in held
  /\ revoked' = [revoked EXCEPT ![k] = "TRUE"]
  /\ UNCHANGED <<second, held, request, exchanged, twice, doomed>>

\* A statement fails, or the client goes away.
DropAuth(t) ==
  /\ request[t] # Resting
  /\ Rest(t)
  /\ UNCHANGED <<second, revoked, held, exchanged, twice, doomed>>

----------------------------------------------------------------------------
AuthStep(t) ==
  \/ CreateToken(t) \/ AnswerTokens(t) \/ RevokeOld(t) \/ RevokeAll(t) \/ DropAuth(t)

AuthNext ==
  \/ TickSecond
  \/ \E t \in Tasks :
       \/ \E u \in Accounts : Login(t, u)
       \/ \E k \in held : Refresh(t, k)
       \/ AuthStep(t)
  \/ \E k \in held : Logout(k)

AuthSpec == AuthInit /\ [][AuthNext]_authVars

----------------------------------------------------------------------------
(* Properties.                                                             *)

AuthTypeOK ==
  /\ second \in Seconds
  /\ revoked \in [AuthTokenIds -> {"none", "FALSE", "TRUE"}]
  /\ held \subseteq {k \in AuthTokenIds : revoked[k] # "none"}
  /\ twice \subseteq AuthTokenIds /\ doomed \subseteq AuthTokenIds
  /\ exchanged \subseteq AuthTokenIds \X AuthTokenIds
  /\ request \in [Tasks -> [op : {"none", "login", "refresh", "reuse"},
                            at : {"none", "create", "answer", "revoke", "revoke_all"},
                            old : AuthTokenIds \cup {NoToken}, new : AuthTokenIds \cup {NoToken}]]

\* A refresh token that was exchanged is revoked, and it was exchanged once, for a
\* token of the same user that was signed later, unless two exchanges of it overlapped
\* between the lookup and the revocation.
ExchangedOnce ==
  \A x, y \in exchanged :
    /\ revoked[x[1]] = "TRUE"
    /\ x[1][1] = x[2][1] /\ x[1][2] < x[2][2]
    /\ x[1] = y[1] /\ x[1] \notin twice => x = y

\* Once the reuse of a revoked token was answered, every session the user had at that
\* time is over for good: no exchange or login that was in progress brings one back.
ReuseEndsAll ==
  \A k \in doomed : revoked[k] = "TRUE"
=============================================================================
