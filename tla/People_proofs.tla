---------------------------- MODULE People_proofs ----------------------------
(***************************************************************************)
(* Proofs about the four services that MCPeople puts side by side:         *)
(* AuthTokens, Friends, Story and LiveHost, for any number of users, tasks *)
(* and rows, each with the inductive invariant of its module; and about    *)
(* the four together.                                                      *)
(***************************************************************************)
EXTENDS MCPeople, TLAPS

----------------------------------------------------------------------------
(*************************************************************************)
(* AuthTokens: ExchangedOnce and ReuseEndsAll.  A revoked token stays    *)
(* revoked, and while it is being exchanged nothing else but an          *)
(* overlapping exchange, which twice remembers, can exchange it: that is *)
(* what the invariant says of the tasks between their lookup and their   *)
(* INSERT.                                                               *)
(*************************************************************************)

\* What a task in state r may rely on, the rows being rev and the second now.
Sound(r, rev, now) ==
  /\ r.at = "revoke" => r.op = "refresh" /\ r.old \in AuthTokenIds /\ rev[r.old] # "none"
  /\ r.at = "revoke_all" => r.old \in AuthTokenIds
  /\ r.at = "create" => r.new \in AuthTokenIds /\ r.new[2] <= now /\ r.op \in {"login", "refresh"}
  /\ r.at = "create" /\ r.op = "refresh" =>
       r.old \in AuthTokenIds /\ rev[r.old] = "TRUE" /\ r.old[1] = r.new[1] /\ r.old[2] <= r.new[2]
  /\ r.at = "answer" => r.new \in AuthTokenIds /\ rev[r.new] # "none"

AllSound == \A t \in Tasks : Sound(request[t], revoked, second)

\* No row is of a second to come.
NoneAhead == \A k \in AuthTokenIds : revoked[k] # "none" => k[2] <= second

\* The token of a task in state r that is being exchanged.
Exchanges(r, k) == r.op = "refresh" /\ r.at \in {"revoke", "create"} /\ r.old = k

OneExchanges == \A t, t2 \in Tasks, k \in AuthTokenIds :
  Exchanges(request[t], k) /\ Exchanges(request[t2], k) /\ t # t2 => k \in twice

NotYetExchanged == \A t \in Tasks, k \in AuthTokenIds : Exchanges(request[t], k) /\ k \notin twice =>
  \A x \in exchanged : x[1] # k

AuthInv ==
  /\ AuthTypeOK /\ AllSound /\ NoneAhead
  /\ OneExchanges /\ NotYetExchanged
  /\ ExchangedOnce /\ ReuseEndsAll

RequestState == [op : {"none", "login", "refresh", "reuse"},
                 at : {"none", "create", "answer", "revoke", "revoke_all"},
                 old : AuthTokenIds \cup {NoToken}, new : AuthTokenIds \cup {NoToken}]

----------------------------------------------------------------------------
\* Rows come and are revoked; none goes, and none is valid again.
RowsKept(rev, rev2) ==
  /\ rev2 \in [AuthTokenIds -> {"none", "FALSE", "TRUE"}]
  /\ \A k \in AuthTokenIds : (rev[k] = "TRUE" => rev2[k] = "TRUE") /\ (rev[k] # "none" => rev2[k] # "none")

LEMMA SoundLater == ASSUME NEW r, NEW rev, NEW rev2, NEW now \in Nat, NEW now2 \in Nat, now <= now2,
                           Sound(r, rev, now), RowsKept(rev, rev2)
                    PROVE  Sound(r, rev2, now2)
  <1>1. r.at = "create" => r.new[2] <= now2
    <2> SUFFICES ASSUME r.at = "create" PROVE r.new[2] <= now2 OBVIOUS
    <2>1. r.new \in AuthTokenIds /\ r.new[2] <= now BY DEF Sound
    <2>2. r.new[2] \in Int BY <2>1 DEF AuthTokenIds, Seconds
    <2> QED BY <2>1, <2>2
  <1>2. r.at = "revoke" => r.op = "refresh" /\ r.old \in AuthTokenIds /\ rev2[r.old] # "none"
    BY DEF Sound, RowsKept
  <1>3. r.at = "create" => r.new \in AuthTokenIds /\ r.op \in {"login", "refresh"}
    BY DEF Sound
  <1>4. r.at = "create" /\ r.op = "refresh" =>
          r.old \in AuthTokenIds /\ rev2[r.old] = "TRUE" /\ r.old[1] = r.new[1] /\ r.old[2] <= r.new[2]
    BY DEF Sound, RowsKept
  <1>5. r.at = "answer" => r.new \in AuthTokenIds /\ rev2[r.new] # "none"
    BY DEF Sound, RowsKept
  <1>6. r.at = "revoke_all" => r.old \in AuthTokenIds
    BY DEF Sound
  <1> QED BY <1>1, <1>2, <1>3, <1>4, <1>5, <1>6 DEF Sound

LEMMA SecondNat == ASSUME AuthTypeOK PROVE second \in Nat /\ second \in Int /\ second <= second
  <1>1. second \in 0..MaxSecond /\ MaxSecond \in Nat
    BY AuthAssumption DEF AuthTypeOK, Seconds
  <1> QED BY ONLY <1>1

\* A step of one task that exchanges nothing new.
LEMMA RequestFrame ==
  ASSUME AuthInv, NEW t \in Tasks, NEW s \in RequestState, Serve(t, s),
         Sound(s, revoked', second), \A k \in AuthTokenIds : Exchanges(s, k) => Exchanges(request[t], k),
         RowsKept(revoked, revoked'), \A k \in AuthTokenIds : revoked'[k] # "none" => k[2] <= second,
         held' \subseteq {k \in AuthTokenIds : revoked'[k] # "none"},
         UNCHANGED <<second, twice>>, exchanged' \subseteq AuthTokenIds \X AuthTokenIds,
         doomed' \subseteq AuthTokenIds, \A k \in doomed' : revoked'[k] = "TRUE"
  PROVE  /\ AuthTypeOK' /\ AllSound' /\ NoneAhead' /\ OneExchanges' /\ ReuseEndsAll'
         /\ exchanged' = exchanged => AuthInv'
  <1> USE DEF AuthInv
  <1>1. request'[t] = s /\ \A t2 \in Tasks \ {t} : request'[t2] = request[t2]
    BY DEF Serve, AuthTypeOK
  <1>2. AuthTypeOK'
    <2>1. request' \in [Tasks -> RequestState] BY DEF Serve, AuthTypeOK, RequestState
    <2> QED BY <2>1 DEF AuthTypeOK, RowsKept, RequestState
  <1>3. AllSound'
    <2> SUFFICES ASSUME NEW t2 \in Tasks PROVE Sound(request'[t2], revoked', second') BY DEF AllSound
    <2>1. CASE t2 = t BY <2>1, <1>1
    <2>2. CASE t2 # t
      <3>1. Sound(request[t2], revoked, second) BY DEF AllSound
      <3>2. second \in Nat /\ second <= second BY SecondNat
      <3> QED BY <3>1, <3>2, <2>2, <1>1, SoundLater
    <2> QED BY <2>1, <2>2
  <1>4. NoneAhead' BY DEF NoneAhead
  <1>5. \A t2 \in Tasks, k \in AuthTokenIds : Exchanges(request'[t2], k) => Exchanges(request[t2], k)
    BY <1>1
  <1>6. OneExchanges' BY <1>5 DEF OneExchanges
  <1>7. exchanged' = exchanged => NotYetExchanged' BY <1>5 DEF NotYetExchanged
  <1>8. exchanged' = exchanged => ExchangedOnce'
    <2>1. \A x \in exchanged : x[1] \in AuthTokenIds BY DEF AuthTypeOK
    <2> QED BY <2>1 DEF ExchangedOnce, RowsKept
  <1>9. ReuseEndsAll' BY DEF ReuseEndsAll
  <1> QED BY <1>2, <1>3, <1>4, <1>6, <1>7, <1>8, <1>9

\* A step that only ends what a task was doing.
LEMMA RestingIsSound == ASSUME NEW rev, NEW now
                        PROVE  /\ Resting \in RequestState /\ Sound(Resting, rev, now)
                               /\ \A k \in AuthTokenIds : ~Exchanges(Resting, k)
  BY DEF Resting, RequestState, Sound, Exchanges

LEMMA RowsAsTheyAre == AuthTypeOK => RowsKept(revoked, revoked)
  BY DEF RowsKept, AuthTypeOK

LEMMA DropRequestKeeps == ASSUME AuthInv, NEW t \in Tasks, DropAuth(t) PROVE AuthInv'
  <1>1. Serve(t, Resting) /\ UNCHANGED <<second, revoked, held, exchanged, twice, doomed>>
    BY DEF DropAuth, Rest
  <1>2. RowsKept(revoked, revoked') BY <1>1, RowsAsTheyAre DEF AuthInv
  <1>3. \A k \in AuthTokenIds : revoked'[k] # "none" => k[2] <= second BY <1>1 DEF AuthInv, NoneAhead
  <1>4. /\ held' \subseteq {k \in AuthTokenIds : revoked'[k] # "none"}
        /\ exchanged' \subseteq AuthTokenIds \X AuthTokenIds
        /\ doomed' \subseteq AuthTokenIds /\ \A k \in doomed' : revoked'[k] = "TRUE"
    BY <1>1 DEF AuthInv, AuthTypeOK, ReuseEndsAll
  <1> QED BY <1>1, <1>2, <1>3, <1>4, RestingIsSound, RequestFrame

LEMMA LoginKeeps == ASSUME AuthInv, NEW t \in Tasks, NEW u \in Accounts, Login(t, u) PROVE AuthInv'
  <1> DEFINE s == [Resting EXCEPT !.op = "login", !.at = "create", !.new = Sign(u)]
  <1>1. Serve(t, s) /\ UNCHANGED <<second, revoked, held, exchanged, twice, doomed>>
    BY DEF Login
  <1>2. Sign(u) \in AuthTokenIds /\ Sign(u)[2] <= second
    <2>1. second \in Seconds /\ second <= second BY SecondNat DEF AuthInv, AuthTypeOK
    <2> QED BY <2>1 DEF Sign, AuthTokenIds
  <1>3. s \in RequestState /\ s.op = "login" /\ s.at = "create" /\ s.new = Sign(u)
    BY <1>2 DEF Resting, RequestState
  <1>4. RowsKept(revoked, revoked') BY <1>1, RowsAsTheyAre DEF AuthInv
  <1>5. /\ \A k \in AuthTokenIds : revoked'[k] # "none" => k[2] <= second
        /\ held' \subseteq {k \in AuthTokenIds : revoked'[k] # "none"}
        /\ exchanged' \subseteq AuthTokenIds \X AuthTokenIds
        /\ doomed' \subseteq AuthTokenIds /\ \A k \in doomed' : revoked'[k] = "TRUE"
    BY <1>1 DEF AuthInv, NoneAhead, AuthTypeOK, ReuseEndsAll
  <1> HIDE DEF s
  <1>6. Sound(s, revoked', second) /\ \A k \in AuthTokenIds : Exchanges(s, k) => Exchanges(request[t], k)
    BY <1>2, <1>3 DEF Sound, Exchanges
  <1> QED BY <1>1, <1>3, <1>4, <1>5, <1>6, RequestFrame

LEMMA AnswerLoginKeeps == ASSUME AuthInv, NEW t \in Tasks, AnswerTokens(t) PROVE AuthInv'
  <1>1. /\ request[t].at = "answer" /\ held' = held \cup {request[t].new}
        /\ Serve(t, Resting) /\ UNCHANGED <<second, revoked, exchanged, twice, doomed>>
    BY DEF AnswerTokens, Rest
  <1>2. RowsKept(revoked, revoked') BY <1>1, RowsAsTheyAre DEF AuthInv
  <1>3. request[t].new \in AuthTokenIds /\ revoked[request[t].new] # "none"
    BY <1>1 DEF AuthInv, AllSound, Sound
  <1>4. /\ \A k \in AuthTokenIds : revoked'[k] # "none" => k[2] <= second
        /\ held' \subseteq {k \in AuthTokenIds : revoked'[k] # "none"}
        /\ exchanged' \subseteq AuthTokenIds \X AuthTokenIds
        /\ doomed' \subseteq AuthTokenIds /\ \A k \in doomed' : revoked'[k] = "TRUE"
    BY <1>1, <1>3 DEF AuthInv, NoneAhead, AuthTypeOK, ReuseEndsAll
  <1> QED BY <1>1, <1>2, <1>4, RestingIsSound, RequestFrame

LEMMA RevokeAllKeeps == ASSUME AuthInv, NEW t \in Tasks, RevokeAll(t) PROVE AuthInv'
  <1> DEFINE u == request[t].old[1]
  <1>1. /\ Serve(t, Resting) /\ UNCHANGED <<second, held, exchanged, twice>>
        /\ revoked' = [k \in AuthTokenIds |-> IF k \in Sessions(u) THEN "TRUE" ELSE revoked[k]]
        /\ doomed' = doomed \cup Sessions(u)
    BY DEF RevokeAll, Rest
  <1>2. RowsKept(revoked, revoked') BY <1>1 DEF RowsKept, AuthInv, AuthTypeOK
  <1>3. \A k \in AuthTokenIds : revoked'[k] # "none" => k[2] <= second
    BY <1>1 DEF AuthInv, NoneAhead, Sessions
  <1>4. held' \subseteq {k \in AuthTokenIds : revoked'[k] # "none"}
    BY <1>1, <1>2 DEF AuthInv, AuthTypeOK, RowsKept
  <1>5. exchanged' \subseteq AuthTokenIds \X AuthTokenIds /\ doomed' \subseteq AuthTokenIds
    BY <1>1 DEF AuthInv, AuthTypeOK, Sessions
  <1>6. \A k \in doomed' : revoked'[k] = "TRUE"
    BY <1>1, <1>2 DEF AuthInv, AuthTypeOK, ReuseEndsAll, RowsKept, Sessions
  <1> QED BY <1>1, <1>2, <1>3, <1>4, <1>5, <1>6, RestingIsSound, RequestFrame

\* One token revoked, by an exchange or a logout.
LEMMA RevokeOne == ASSUME AuthInv, NEW k \in AuthTokenIds, revoked[k] # "none",
                          revoked' = [revoked EXCEPT ![k] = "TRUE"], UNCHANGED <<held, doomed>>
                   PROVE  /\ RowsKept(revoked, revoked') /\ revoked'[k] = "TRUE"
                          /\ \A k2 \in AuthTokenIds : revoked'[k2] # "none" => k2[2] <= second
                          /\ held' \subseteq {k2 \in AuthTokenIds : revoked'[k2] # "none"}
                          /\ doomed' \subseteq AuthTokenIds /\ \A k2 \in doomed' : revoked'[k2] = "TRUE"
  <1>1. RowsKept(revoked, revoked') /\ revoked'[k] = "TRUE" BY DEF RowsKept, AuthInv, AuthTypeOK
  <1>2. \A k2 \in AuthTokenIds : revoked'[k2] # "none" => k2[2] <= second
    BY DEF AuthInv, AuthTypeOK, NoneAhead
  <1>3. held' \subseteq {k2 \in AuthTokenIds : revoked'[k2] # "none"}
    BY <1>1 DEF AuthInv, AuthTypeOK, RowsKept
  <1>4. doomed' \subseteq AuthTokenIds /\ \A k2 \in doomed' : revoked'[k2] = "TRUE"
    BY <1>1 DEF AuthInv, AuthTypeOK, ReuseEndsAll, RowsKept
  <1> QED BY <1>1, <1>2, <1>3, <1>4

LEMMA RevokeOldKeeps == ASSUME AuthInv, NEW t \in Tasks, RevokeOld(t) PROVE AuthInv'
  <1> DEFINE k == request[t].old
             s == [request[t] EXCEPT !.at = "create", !.new = Sign(k[1])]
  <1>1. /\ request[t].at = "revoke" /\ revoked' = [revoked EXCEPT ![k] = "TRUE"]
        /\ Serve(t, s) /\ UNCHANGED <<second, held, exchanged, twice, doomed>>
    BY DEF RevokeOld
  <1>2. request[t].op = "refresh" /\ k \in AuthTokenIds /\ revoked[k] # "none"
    BY <1>1 DEF AuthInv, AllSound, Sound
  <1>3. /\ RowsKept(revoked, revoked') /\ revoked'[k] = "TRUE"
        /\ \A k2 \in AuthTokenIds : revoked'[k2] # "none" => k2[2] <= second
        /\ held' \subseteq {k2 \in AuthTokenIds : revoked'[k2] # "none"}
        /\ doomed' \subseteq AuthTokenIds /\ \A k2 \in doomed' : revoked'[k2] = "TRUE"
    BY <1>1, <1>2, RevokeOne
  <1>4. k[1] \in Accounts /\ k[2] <= second
    BY <1>2 DEF AuthTokenIds, AuthInv, NoneAhead
  <1>5. second \in Seconds /\ second <= second BY SecondNat DEF AuthInv, AuthTypeOK
  <1>6. Sign(k[1]) \in AuthTokenIds /\ Sign(k[1])[1] = k[1] /\ Sign(k[1])[2] = second
    BY <1>4, <1>5 DEF Sign, AuthTokenIds
  <1>7. /\ s \in RequestState
        /\ s.op = "refresh" /\ s.at = "create" /\ s.old = k /\ s.new = Sign(k[1])
    BY <1>2, <1>6 DEF AuthInv, AuthTypeOK, RequestState
  <1> HIDE DEF s
  <1>8. Sound(s, revoked', second)
    BY <1>2, <1>3, <1>4, <1>5, <1>6, <1>7 DEF Sound
  <1>9. \A k2 \in AuthTokenIds : Exchanges(s, k2) => Exchanges(request[t], k2)
    BY <1>1, <1>2, <1>7 DEF Exchanges
  <1>10. exchanged' \subseteq AuthTokenIds \X AuthTokenIds BY <1>1 DEF AuthInv, AuthTypeOK
  <1> QED BY <1>1, <1>3, <1>7, <1>8, <1>9, <1>10, RequestFrame

----------------------------------------------------------------------------
\* The old token is exchanged for the new one.  That no other has been is what
\* NotYetExchanged says of this task, and OneExchanges then says it of the others.
LEMMA CreateTokenKeeps == ASSUME AuthInv, NEW t \in Tasks, CreateToken(t) PROVE AuthInv'
  <1> DEFINE k == request[t].new
             s == [request[t] EXCEPT !.at = "answer"]
  <1>1. request[t].at = "create" /\ UNCHANGED <<second, held, twice, doomed>>
    BY DEF CreateToken
  <1>2. k \in AuthTokenIds /\ k[2] <= second BY <1>1 DEF AuthInv, AllSound, Sound
  <1>3. CASE revoked[k] # "none"
    <2>1. Serve(t, Resting) /\ UNCHANGED <<revoked, exchanged>> BY <1>3 DEF CreateToken, Rest
    <2>2. RowsKept(revoked, revoked') BY <2>1, RowsAsTheyAre DEF AuthInv
    <2>3. /\ \A k2 \in AuthTokenIds : revoked'[k2] # "none" => k2[2] <= second
          /\ held' \subseteq {k2 \in AuthTokenIds : revoked'[k2] # "none"}
          /\ exchanged' \subseteq AuthTokenIds \X AuthTokenIds
          /\ doomed' \subseteq AuthTokenIds /\ \A k2 \in doomed' : revoked'[k2] = "TRUE"
      BY <1>1, <2>1 DEF AuthInv, NoneAhead, AuthTypeOK, ReuseEndsAll
    <2> QED BY <1>1, <2>1, <2>2, <2>3, RestingIsSound, RequestFrame
  <1>4. CASE revoked[k] = "none"
    <2>1. /\ revoked' = [revoked EXCEPT ![k] = "FALSE"] /\ Serve(t, s)
          /\ exchanged' = IF request[t].op = "refresh"
                          THEN exchanged \cup {<<request[t].old, k>>} ELSE exchanged
      BY <1>4 DEF CreateToken
    <2>2. RowsKept(revoked, revoked') /\ revoked'[k] = "FALSE"
      BY <1>2, <1>4, <2>1 DEF RowsKept, AuthInv, AuthTypeOK
    <2>3. \A k2 \in AuthTokenIds : revoked'[k2] # "none" => k2[2] <= second
      BY <1>2, <2>1 DEF AuthInv, AuthTypeOK, NoneAhead
    <2>4. held' \subseteq {k2 \in AuthTokenIds : revoked'[k2] # "none"}
      BY <1>1, <2>2 DEF AuthInv, AuthTypeOK, RowsKept
    <2>5. doomed' \subseteq AuthTokenIds /\ \A k2 \in doomed' : revoked'[k2] = "TRUE"
      BY <1>1, <2>2 DEF AuthInv, AuthTypeOK, ReuseEndsAll, RowsKept
    <2>6. s \in RequestState /\ s.op = request[t].op /\ s.at = "answer" /\ s.new = k
      BY DEF AuthInv, AuthTypeOK, RequestState
    <2>7. request[t].op = "refresh" =>
            /\ request[t].old \in AuthTokenIds /\ revoked[request[t].old] = "TRUE"
            /\ request[t].old[1] = k[1] /\ request[t].old[2] <= k[2]
      BY <1>1 DEF AuthInv, AllSound, Sound
    <2>8. exchanged' \subseteq AuthTokenIds \X AuthTokenIds
      <3>1. exchanged \subseteq AuthTokenIds \X AuthTokenIds BY DEF AuthInv, AuthTypeOK
      <3>2. request[t].op = "refresh" => <<request[t].old, k>> \in AuthTokenIds \X AuthTokenIds
        BY <1>2, <2>7
      <3> QED BY <2>1, <3>1, <3>2
    <2> HIDE DEF s
    <2>9. Sound(s, revoked', second) /\ \A k2 \in AuthTokenIds : ~Exchanges(s, k2)
      BY <1>2, <2>2, <2>6 DEF Sound, Exchanges
    <2>10. /\ AuthTypeOK' /\ AllSound' /\ NoneAhead' /\ OneExchanges' /\ ReuseEndsAll'
           /\ exchanged' = exchanged => AuthInv'
      BY <1>1, <2>1, <2>2, <2>3, <2>4, <2>5, <2>6, <2>8, <2>9, RequestFrame
    <2>11. CASE request[t].op # "refresh" BY <2>1, <2>10, <2>11
    <2>12. CASE request[t].op = "refresh"
      <3> DEFINE old == request[t].old
      <3>1. exchanged' = exchanged \cup {<<old, k>>} BY <2>1, <2>12
      <3>2. Exchanges(request[t], old) BY <1>1, <2>12 DEF Exchanges
      <3>3. request'[t] = s /\ \A t2 \in Tasks \ {t} : request'[t2] = request[t2]
        BY <2>1 DEF Serve, AuthInv, AuthTypeOK
      <3>4. NotYetExchanged'
        <4> SUFFICES ASSUME NEW t2 \in Tasks, NEW k2 \in AuthTokenIds, Exchanges(request'[t2], k2),
                            k2 \notin twice, NEW x \in exchanged'
                     PROVE  x[1] # k2
          BY <1>1 DEF NotYetExchanged
        <4>1. t2 # t /\ Exchanges(request[t2], k2) BY <3>3, <2>9
        <4>2. k2 # old BY <4>1, <3>2 DEF AuthInv, OneExchanges
        <4>3. x \in exchanged => x[1] # k2 BY <4>1 DEF AuthInv, NotYetExchanged
        <4> QED BY <4>2, <4>3, <3>1
      <3>5. ExchangedOnce'
        <4>1. \A x \in exchanged : x[1] \in AuthTokenIds BY DEF AuthInv, AuthTypeOK
        <4>2. revoked[old] = "TRUE" /\ revoked'[old] = "TRUE" /\ old \in AuthTokenIds
          BY <2>2, <2>7, <2>12 DEF RowsKept
        <4>3. old[1] = k[1] /\ old[2] < k[2]
          <5>1. old[1] = k[1] /\ old[2] <= k[2] /\ old # k BY <1>4, <2>7, <2>12
          <5>2. /\ old = <<old[1], old[2]>> /\ k = <<k[1], k[2]>>
                /\ old[2] \in Int /\ k[2] \in Int
            BY <1>2, <4>2 DEF AuthTokenIds, Seconds
          <5>3. old[2] # k[2] BY <5>1, <5>2
          <5> QED BY <5>1, <5>2, <5>3
        <4>4. \A x \in exchanged' : /\ revoked'[x[1]] = "TRUE"
                                    /\ x[1][1] = x[2][1] /\ x[1][2] < x[2][2]
          BY <3>1, <4>1, <4>2, <4>3, <2>2 DEF AuthInv, ExchangedOnce, RowsKept
        <4>5. old \notin twice => \A x \in exchanged : x[1] # old
          BY <3>2, <4>2 DEF AuthInv, NotYetExchanged
        <4>6. \A x, y \in exchanged' : x[1] = y[1] /\ x[1] \notin twice' => x = y
          BY <1>1, <3>1, <4>5 DEF AuthInv, ExchangedOnce
        <4> QED BY <4>4, <4>6 DEF ExchangedOnce
      <3> QED BY <2>10, <3>4, <3>5 DEF AuthInv
    <2> QED BY <2>11, <2>12
  <1> QED BY <1>3, <1>4

----------------------------------------------------------------------------
\* A token that is exchanged is not revoked yet, so that nobody has exchanged it and
\* none of the tasks that exchange it is past its revocation.
LEMMA RefreshKeeps == ASSUME AuthInv, NEW t \in Tasks, NEW k \in held, Refresh(t, k) PROVE AuthInv'
  <1>1. request[t] = Resting /\ UNCHANGED <<second, revoked, held, exchanged, doomed>>
    BY DEF Refresh
  <1>2. k \in AuthTokenIds /\ revoked[k] # "none" BY DEF AuthInv, AuthTypeOK
  <1>3. RowsKept(revoked, revoked') BY <1>1, RowsAsTheyAre DEF AuthInv
  <1>4. /\ \A k2 \in AuthTokenIds : revoked'[k2] # "none" => k2[2] <= second
        /\ held' \subseteq {k2 \in AuthTokenIds : revoked'[k2] # "none"}
        /\ exchanged' \subseteq AuthTokenIds \X AuthTokenIds
        /\ doomed' \subseteq AuthTokenIds /\ \A k2 \in doomed' : revoked'[k2] = "TRUE"
    BY <1>1 DEF AuthInv, NoneAhead, AuthTypeOK, ReuseEndsAll
  <1>5. CASE revoked[k] = "TRUE"
    <2> DEFINE s == [Resting EXCEPT !.op = "reuse", !.at = "revoke_all", !.old = k]
    <2>1. Serve(t, s) /\ UNCHANGED twice BY <1>5 DEF Refresh
    <2>2. s \in RequestState /\ s.op = "reuse" /\ s.at = "revoke_all" /\ s.old = k
      BY <1>2 DEF Resting, RequestState
    <2> HIDE DEF s
    <2>3. Sound(s, revoked', second) /\ \A k2 \in AuthTokenIds : Exchanges(s, k2) => Exchanges(request[t], k2)
      BY <1>2, <2>2 DEF Sound, Exchanges
    <2> QED BY <1>1, <1>3, <1>4, <2>1, <2>2, <2>3, RequestFrame
  <1>6. CASE revoked[k] # "TRUE"
    <2> DEFINE s == [Resting EXCEPT !.op = "refresh", !.at = "revoke", !.old = k]
    <2>1. Serve(t, s) /\ twice' = IF Exchanging(k) THEN twice \cup {k} ELSE twice BY <1>6 DEF Refresh
    <2>2. s \in RequestState /\ s.op = "refresh" /\ s.at = "revoke" /\ s.old = k
      BY <1>2 DEF Resting, RequestState
    <2>3. request'[t] = s /\ \A t2 \in Tasks \ {t} : request'[t2] = request[t2]
      BY <2>1 DEF Serve, AuthInv, AuthTypeOK
    <2>4. request' \in [Tasks -> RequestState]
      BY <2>1, <2>2 DEF Serve, AuthInv, AuthTypeOK, RequestState
    <2> HIDE DEF s
    <2>5. twice \subseteq twice' /\ twice' \subseteq AuthTokenIds
      BY <1>2, <2>1 DEF AuthInv, AuthTypeOK
    <2>6. AuthTypeOK'
      <3>1. /\ second \in Seconds /\ revoked \in [AuthTokenIds -> {"none", "FALSE", "TRUE"}]
            /\ held \subseteq {k2 \in AuthTokenIds : revoked[k2] # "none"}
            /\ doomed \subseteq AuthTokenIds /\ exchanged \subseteq AuthTokenIds \X AuthTokenIds
        BY DEF AuthInv, AuthTypeOK
      <3> QED BY <3>1, <1>1, <2>4, <2>5 DEF AuthTypeOK, RequestState
    <2>7. AllSound'
      <3> SUFFICES ASSUME NEW t2 \in Tasks PROVE Sound(request'[t2], revoked', second') BY DEF AllSound
      <3>1. CASE t2 = t BY <3>1, <1>1, <1>2, <2>2, <2>3 DEF Sound
      <3>2. CASE t2 # t BY <3>2, <1>1, <2>3 DEF AuthInv, AllSound
      <3> QED BY <3>1, <3>2
    \* Another task that exchanges k is before its revocation, and twice knows.
    <2>8. ASSUME NEW t2 \in Tasks \ {t}, Exchanges(request[t2], k) PROVE k \in twice'
      <3>1. Sound(request[t2], revoked, second) BY DEF AuthInv, AllSound
      <3>2. request[t2].at = "revoke" BY <2>8, <3>1, <1>6 DEF Sound, Exchanges
      <3>3. Exchanging(k) BY <2>8, <3>2 DEF Exchanging, Exchanges
      <3> QED BY <3>3, <2>1
    <2>9. \A k2 \in AuthTokenIds : Exchanges(s, k2) => k2 = k BY <2>2 DEF Exchanges
    <2>10. OneExchanges'
      <3> SUFFICES ASSUME NEW t1 \in Tasks, NEW t2 \in Tasks, NEW k2 \in AuthTokenIds, t1 # t2,
                          Exchanges(request'[t1], k2), Exchanges(request'[t2], k2)
                   PROVE  k2 \in twice'
        BY DEF OneExchanges
      <3>1. CASE t1 # t /\ t2 # t BY <3>1, <2>3, <2>5 DEF AuthInv, OneExchanges
      <3>2. CASE t1 = t BY <3>2, <2>3, <2>8, <2>9
      <3>3. CASE t2 = t BY <3>3, <2>3, <2>8, <2>9
      <3> QED BY <3>1, <3>2, <3>3
    <2>11. NotYetExchanged'
      <3> SUFFICES ASSUME NEW t2 \in Tasks, NEW k2 \in AuthTokenIds, Exchanges(request'[t2], k2),
                          k2 \notin twice', NEW x \in exchanged
                   PROVE  x[1] # k2
        BY <1>1 DEF NotYetExchanged
      <3>1. CASE t2 # t BY <3>1, <2>3, <2>5 DEF AuthInv, NotYetExchanged
      <3>2. CASE t2 = t
        <4>1. revoked[x[1]] = "TRUE" BY DEF AuthInv, ExchangedOnce
        <4>2. k2 = k BY <3>2, <2>3, <2>9
        <4> QED BY <4>1, <4>2, <1>6
      <3> QED BY <3>1, <3>2
    <2>12. NoneAhead' /\ ExchangedOnce' /\ ReuseEndsAll'
      BY <1>1, <2>5 DEF AuthInv, NoneAhead, ExchangedOnce, ReuseEndsAll
    <2> QED BY <2>6, <2>7, <2>10, <2>11, <2>12 DEF AuthInv
  <1> QED BY <1>5, <1>6

LEMMA TickKeeps == ASSUME AuthInv, TickSecond PROVE AuthInv'
  <1>1. second < MaxSecond /\ second' = second + 1
        /\ UNCHANGED <<revoked, held, request, exchanged, twice, doomed>>
    BY DEF TickSecond
  <1>2. second \in Nat /\ MaxSecond \in Nat BY SecondNat, AuthAssumption DEF AuthInv
  <1>3. second' \in 0..MaxSecond /\ second' \in Nat /\ second <= second' BY <1>1, <1>2
  <1>4. AuthTypeOK' BY <1>1, <1>3 DEF AuthInv, AuthTypeOK, Seconds
  <1>5. RowsKept(revoked, revoked') BY <1>1, RowsAsTheyAre DEF AuthInv
  <1>6. AllSound'
    <2> SUFFICES ASSUME NEW t \in Tasks PROVE Sound(request[t], revoked', second') BY <1>1 DEF AllSound
    <2>1. Sound(request[t], revoked, second) BY DEF AuthInv, AllSound
    <2> QED BY <2>1, <1>2, <1>3, <1>5, SoundLater
  <1>7. NoneAhead'
    <2> SUFFICES ASSUME NEW k \in AuthTokenIds, revoked[k] # "none" PROVE k[2] <= second'
      BY <1>1 DEF NoneAhead
    <2>1. k[2] <= second BY DEF AuthInv, NoneAhead
    <2>2. k[2] \in Int BY DEF AuthTokenIds, Seconds
    <2> QED BY <2>1, <2>2, <1>2, <1>3
  <1>8. OneExchanges' /\ NotYetExchanged' /\ ExchangedOnce' /\ ReuseEndsAll'
    BY <1>1 DEF AuthInv, OneExchanges, NotYetExchanged, ExchangedOnce, ReuseEndsAll, Exchanges
  <1> QED BY <1>4, <1>6, <1>7, <1>8 DEF AuthInv

LEMMA LogoutKeeps == ASSUME AuthInv, NEW k \in held, Logout(k) PROVE AuthInv'
  <1>1. revoked' = [revoked EXCEPT ![k] = "TRUE"] /\ UNCHANGED <<second, held, request, exchanged, twice, doomed>>
    BY DEF Logout
  <1>2. k \in AuthTokenIds /\ revoked[k] # "none" BY DEF AuthInv, AuthTypeOK
  <1>3. /\ RowsKept(revoked, revoked')
        /\ \A k2 \in AuthTokenIds : revoked'[k2] # "none" => k2[2] <= second
        /\ held' \subseteq {k2 \in AuthTokenIds : revoked'[k2] # "none"}
        /\ doomed' \subseteq AuthTokenIds /\ \A k2 \in doomed' : revoked'[k2] = "TRUE"
    BY <1>1, <1>2, RevokeOne
  <1>4. AuthTypeOK' BY <1>1, <1>3 DEF AuthInv, AuthTypeOK, RowsKept
  <1>5. AllSound'
    <2> SUFFICES ASSUME NEW t \in Tasks PROVE Sound(request[t], revoked', second) BY <1>1 DEF AllSound
    <2>1. Sound(request[t], revoked, second) BY DEF AuthInv, AllSound
    <2>2. second \in Nat /\ second <= second BY SecondNat DEF AuthInv
    <2> QED BY <2>1, <2>2, <1>3, SoundLater
  <1>6. NoneAhead' /\ ReuseEndsAll' BY <1>1, <1>3 DEF NoneAhead, ReuseEndsAll
  <1>7. OneExchanges' /\ NotYetExchanged' BY <1>1 DEF AuthInv, OneExchanges, NotYetExchanged, Exchanges
  <1>8. ExchangedOnce'
    <2>1. \A x \in exchanged : x[1] \in AuthTokenIds BY DEF AuthInv, AuthTypeOK
    <2> QED BY <2>1, <1>1, <1>3 DEF AuthInv, ExchangedOnce, RowsKept
  <1> QED BY <1>4, <1>5, <1>6, <1>7, <1>8 DEF AuthInv

----------------------------------------------------------------------------
LEMMA AuthInitHolds == AuthInit => AuthInv
  <1> SUFFICES ASSUME AuthInit PROVE AuthInv OBVIOUS
  <1>1. /\ second = 0 /\ revoked = [k \in AuthTokenIds |-> "none"]
        /\ held = {} /\ exchanged = {} /\ twice = {} /\ doomed = {}
        /\ request = [t \in Tasks |-> Resting]
    BY DEF AuthInit
  <1>2. second \in Seconds BY <1>1, AuthAssumption DEF Seconds
  <1>3. request \in [Tasks -> RequestState] BY <1>1, RestingIsSound
  <1>4. AuthTypeOK BY <1>1, <1>2, <1>3 DEF AuthTypeOK, RequestState
  <1>5. AllSound BY <1>1, RestingIsSound DEF AllSound
  <1>6. OneExchanges /\ NotYetExchanged BY <1>1, RestingIsSound DEF OneExchanges, NotYetExchanged
  <1>7. NoneAhead /\ ExchangedOnce /\ ReuseEndsAll BY <1>1 DEF NoneAhead, ExchangedOnce, ReuseEndsAll
  <1> QED BY <1>4, <1>5, <1>6, <1>7 DEF AuthInv

LEMMA AuthStepKeeps == ASSUME AuthInv, [AuthNext]_authVars PROVE AuthInv'
  <1>1. CASE UNCHANGED authVars
    BY <1>1 DEF AuthInv, authVars, AuthTypeOK, AllSound, NoneAhead, OneExchanges, NotYetExchanged,
                ExchangedOnce, ReuseEndsAll, Sound, Exchanges
  <1>2. CASE TickSecond BY <1>2, TickKeeps
  <1>3. ASSUME NEW t \in Tasks, AuthStep(t) PROVE AuthInv'
    BY <1>3, CreateTokenKeeps, AnswerLoginKeeps, RevokeOldKeeps, RevokeAllKeeps, DropRequestKeeps DEF AuthStep
  <1> QED BY <1>1, <1>2, <1>3, LoginKeeps, RefreshKeeps, LogoutKeeps DEF AuthNext

\* Every token a task is working on is what the task takes it for, whatever logins,
\* exchanges, logouts and dropped requests come in between.
THEOREM TokenInvariance == AuthSpec => []AuthInv
  BY AuthInitHolds, AuthStepKeeps, PTL DEF AuthSpec

\* An exchanged token is revoked, its successor is of the same user and signed later,
\* and it is the only one, unless two lookups came before the first revocation.
THEOREM OneSuccessor == AuthSpec => []ExchangedOnce
  <1>1. AuthInv => ExchangedOnce BY DEF AuthInv
  <1> QED BY <1>1, TokenInvariance, PTL

\* The sessions a reuse ended stay ended, although exchanges, logins and logouts of the
\* same user were in progress.
THEOREM ReuseIsFinal == AuthSpec => []ReuseEndsAll
  <1>1. AuthInv => ReuseEndsAll BY DEF AuthInv
  <1> QED BY <1>1, TokenInvariance, PTL

----------------------------------------------------------------------------
(*************************************************************************)
(* Friends: OneRowPerPair and FriendsStay.  What makes them inductive is *)
(* what a task still relies on from its lookup: an ask that nobody doubled*)
(* has no row to meet, and a rejection that nobody upset no friendship.  *)
(*************************************************************************)

Pair(t) == {errand[t].user, errand[t].other}
Asks(t) == errand[t].op = "ask"
Answers(t) == errand[t].op \in {"accept", "reject"}

\* Nobody asks himself, and a task at work is about two users.
Ordered == \A t \in Tasks : errand[t].op # "none" =>
  errand[t].user \in Users /\ errand[t].other \in Users /\ errand[t].user # errand[t].other

AsksMeet == \A t, t2 \in Tasks : Asks(t) /\ Asks(t2) /\ Pair(t) = Pair(t2) /\ t # t2 => Pair(t) \in doubled

AskFindsNone == \A t \in Tasks : Asks(t) /\ Pair(t) \notin doubled =>
  Rows(errand[t].user, errand[t].other) = {}

AnswersMeet == \A t, t2 \in Tasks :
  Answers(t) /\ Answers(t2) /\ Pair(t) = Pair(t2) /\ t # t2 => Pair(t) \in upset

RejectsStrangers == \A t \in Tasks :
  errand[t].op = "reject" /\ Pair(t) \notin upset \cup doubled => Pair(t) \notin friends

FriendInv ==
  /\ FriendTypeOK /\ Ordered
  /\ AsksMeet /\ AskFindsNone
  /\ AnswersMeet /\ RejectsStrangers
  /\ OneRowPerPair /\ FriendsStay

----------------------------------------------------------------------------
LEMMA SamePair == ASSUME NEW a, NEW b, NEW c, NEW d, {a, b} = {c, d}
                  PROVE  (a = c /\ b = d) \/ (a = d /\ b = c)
  <1>1. a \in {c, d} /\ b \in {c, d} /\ c \in {a, b} /\ d \in {a, b} OBVIOUS
  <1> QED BY <1>1

LEMMA RowsAreNone == ASSUME NEW u, NEW v
                     PROVE  Rows(u, v) = {} <=> friendship[<<u, v>>] = "none" /\ friendship[<<v, u>>] = "none"
  BY DEF Rows, Directions

\* The two UPDATEs and DELETEs, and the INSERT, row by row.
LEMMA WriteRow == ASSUME NEW u \in Users, NEW v \in Users, NEW s, WriteBoth(u, v, s),
                         NEW a \in Users, NEW b \in Users
                  PROVE  friendship'[<<a, b>>] =
                           IF {a, b} = {u, v} /\ friendship[<<a, b>>] # "none" THEN s ELSE friendship[<<a, b>>]
  <1>1. friendship'[<<a, b>>] = IF <<a, b>> \in Rows(u, v) THEN s ELSE friendship[<<a, b>>]
    BY DEF WriteBoth
  <1>2. <<a, b>> \in Rows(u, v) <=> <<a, b>> \in {<<u, v>>, <<v, u>>} /\ friendship[<<a, b>>] # "none"
    BY DEF Rows, Directions
  <1>3. <<a, b>> \in {<<u, v>>, <<v, u>>} <=> {a, b} = {u, v}
    <2>1. ASSUME {a, b} = {u, v} PROVE <<a, b>> \in {<<u, v>>, <<v, u>>}
      BY <2>1, SamePair
    <2> QED BY <2>1
  <1> QED BY <1>1, <1>2, <1>3

\* What a request that starts leaves of its task and of the others.
LEMMA TakeFacts == ASSUME FriendTypeOK, NEW t \in Tasks, NEW op \in {"ask", "accept", "reject", "remove"},
                          NEW u \in Users, NEW v \in Users, Take(t, op, u, v)
                   PROVE  /\ errand[t].op = "none" /\ u # v
                          /\ errand'[t] = [op |-> op, user |-> u, other |-> v]
                          /\ errand'[t].op = op /\ errand'[t].user = u /\ errand'[t].other = v
                          /\ \A t2 \in Tasks \ {t} : errand'[t2] = errand[t2]
  BY DEF Take, NoErrand, FriendTypeOK

LEMMA FinishedFacts == ASSUME FriendTypeOK, NEW t \in Tasks, Finished(t)
                       PROVE  /\ errand'[t] = NoErrand /\ errand'[t].op = "none"
                              /\ \A t2 \in Tasks \ {t} : errand'[t2] = errand[t2]
  BY DEF Finished, NoErrand, FriendTypeOK

LEMMA PairTyped == ASSUME NEW u \in Users, NEW v \in Users PROVE {u, v} \in Pairs
  <1>1. <<u, v>> \in Users \X Users /\ {u, v} = {<<u, v>>[1], <<u, v>>[2]} OBVIOUS
  <1> QED BY <1>1 DEF Pairs

LEMMA MindGrows == ASSUME NEW set, NEW ops, NEW u, NEW v
                   PROVE  /\ set \subseteq Mind(set, ops, u, v) /\ Mind(set, ops, u, v) \subseteq set \cup {{u, v}}
                          /\ (\E t \in Tasks : errand[t].op \in ops /\ Pair(t) = {u, v}) => {u, v} \in Mind(set, ops, u, v)
  BY DEF Mind, Pair

----------------------------------------------------------------------------
(* The requests: a lookup, whatever it is for, changes no row.             *)

LEMMA TakeTyped == ASSUME FriendTypeOK, NEW t \in Tasks, NEW op \in {"ask", "accept", "reject", "remove"},
                          NEW u \in Users, NEW v \in Users, Take(t, op, u, v)
                   PROVE  errand' \in [Tasks -> [op : {"none", "ask", "accept", "reject", "remove"},
                                                 user : Users \cup {None}, other : Users \cup {None}]]
  BY DEF Take, FriendTypeOK

LEMMA AskKeeps == ASSUME FriendInv, NEW t \in Tasks, NEW u \in Users, NEW v \in Users, AskFriend(t, u, v)
                  PROVE  FriendInv'
  <1> USE DEF FriendInv
  <1>1. Take(t, "ask", u, v) /\ Rows(u, v) = {} /\ UNCHANGED <<friendship, friends, upset>>
        /\ doubled' = Mind(doubled, {"ask"}, u, v)
    BY DEF AskFriend
  <1>2. /\ errand[t].op = "none" /\ u # v
        /\ errand'[t].op = "ask" /\ errand'[t].user = u /\ errand'[t].other = v
        /\ \A t2 \in Tasks \ {t} : errand'[t2] = errand[t2]
    BY <1>1, TakeFacts DEF FriendInv
  <1>3. Pair(t)' = {u, v} /\ \A t2 \in Tasks \ {t} : Pair(t2)' = Pair(t2)
    BY <1>2 DEF Pair
  <1>4. /\ doubled \subseteq doubled' /\ doubled' \subseteq doubled \cup {{u, v}}
        /\ \A t2 \in Tasks : Asks(t2) /\ Pair(t2) = {u, v} => {u, v} \in doubled'
    BY <1>1, MindGrows DEF Asks
  <1>5. FriendTypeOK'
    <2>1. doubled' \in SUBSET Pairs BY <1>4, PairTyped DEF FriendTypeOK
    <2> QED BY <2>1, <1>1, TakeTyped DEF FriendTypeOK
  <1>6. Ordered' BY <1>2 DEF Ordered
  <1>7. AsksMeet'
    <2> SUFFICES ASSUME NEW t1 \in Tasks, NEW t2 \in Tasks, Asks(t1)', Asks(t2)', Pair(t1)' = Pair(t2)', t1 # t2
                 PROVE  Pair(t1)' \in doubled'
      BY DEF AsksMeet
    <2>1. CASE t1 # t /\ t2 # t BY <2>1, <1>2, <1>3, <1>4 DEF AsksMeet, Asks
    <2>2. CASE t1 = t
      <3>1. t2 # t /\ Asks(t2) /\ Pair(t2) = {u, v} BY <2>2, <1>2, <1>3 DEF Asks
      <3> QED BY <3>1, <2>2, <1>3, <1>4
    <2>3. CASE t2 = t
      <3>1. t1 # t /\ Asks(t1) /\ Pair(t1) = {u, v} BY <2>3, <1>2, <1>3 DEF Asks
      <3> QED BY <3>1, <2>3, <1>3, <1>4
    <2> QED BY <2>1, <2>2, <2>3
  <1>8. AskFindsNone'
    <2> SUFFICES ASSUME NEW t2 \in Tasks, Asks(t2)', Pair(t2)' \notin doubled'
                 PROVE  Rows(errand[t2].user, errand[t2].other)' = {}
      BY DEF AskFindsNone
    <2>1. CASE t2 = t BY <2>1, <1>1, <1>2 DEF Rows, Directions
    <2>2. CASE t2 # t
      <3>1. Asks(t2) /\ Pair(t2) \notin doubled BY <2>2, <1>2, <1>3, <1>4 DEF Asks
      <3>2. Rows(errand[t2].user, errand[t2].other) = {} BY <3>1 DEF AskFindsNone
      <3> QED BY <3>2, <2>2, <1>1, <1>2 DEF Rows, Directions
    <2> QED BY <2>1, <2>2
  <1>9. AnswersMeet' /\ RejectsStrangers'
    BY <1>1, <1>2, <1>3, <1>4 DEF AnswersMeet, RejectsStrangers, Answers
  <1>10. OneRowPerPair' BY <1>1, <1>4 DEF OneRowPerPair
  <1>11. FriendsStay' BY <1>1, <1>4 DEF FriendsStay, AreFriends, Directions
  <1> QED BY <1>5, <1>6, <1>7, <1>8, <1>9, <1>10, <1>11

LEMMA FindPendingKeeps ==
  ASSUME FriendInv, NEW t \in Tasks, NEW op \in {"accept", "reject"}, NEW u \in Users, NEW v \in Users,
         FindPending(t, op, u, v)
  PROVE  FriendInv'
  <1> USE DEF FriendInv
  <1>1. Take(t, op, u, v) /\ (\E d \in Rows(u, v) : friendship[d] = "pending")
        /\ UNCHANGED <<friendship, friends, doubled>> /\ upset' = Mind(upset, {"accept", "reject"}, u, v)
    BY DEF FindPending
  <1>2. /\ errand[t].op = "none" /\ u # v
        /\ errand'[t].op = op /\ errand'[t].user = u /\ errand'[t].other = v
        /\ \A t2 \in Tasks \ {t} : errand'[t2] = errand[t2]
    BY <1>1 DEF Take, NoErrand, FriendTypeOK
  <1>3. Pair(t)' = {u, v} /\ \A t2 \in Tasks \ {t} : Pair(t2)' = Pair(t2)
    BY <1>2 DEF Pair
  <1>4. /\ upset \subseteq upset' /\ upset' \subseteq upset \cup {{u, v}}
        /\ \A t2 \in Tasks : Answers(t2) /\ Pair(t2) = {u, v} => {u, v} \in upset'
    BY <1>1, MindGrows DEF Answers
  <1>5. FriendTypeOK'
    <2>1. upset' \in SUBSET Pairs BY <1>4, PairTyped DEF FriendTypeOK
    <2> QED BY <2>1, <1>1, TakeTyped DEF FriendTypeOK
  <1>6. Ordered' BY <1>2 DEF Ordered
  <1>7. AsksMeet' BY <1>1, <1>2, <1>3 DEF AsksMeet, Asks
  <1>8. AskFindsNone'
    <2> SUFFICES ASSUME NEW t2 \in Tasks, Asks(t2)', Pair(t2)' \notin doubled'
                 PROVE  Rows(errand[t2].user, errand[t2].other)' = {}
      BY DEF AskFindsNone
    <2>1. t2 # t BY <1>2 DEF Asks
    <2>2. Asks(t2) /\ Pair(t2) \notin doubled BY <2>1, <1>1, <1>2, <1>3 DEF Asks
    <2>3. Rows(errand[t2].user, errand[t2].other) = {} BY <2>2 DEF AskFindsNone
    <2> QED BY <2>1, <2>3, <1>1, <1>2 DEF Rows, Directions
  <1>9. AnswersMeet'
    <2> SUFFICES ASSUME NEW t1 \in Tasks, NEW t2 \in Tasks,
                        Answers(t1)', Answers(t2)', Pair(t1)' = Pair(t2)', t1 # t2
                 PROVE  Pair(t1)' \in upset'
      BY DEF AnswersMeet
    <2>1. CASE t1 # t /\ t2 # t BY <2>1, <1>2, <1>3, <1>4 DEF AnswersMeet, Answers
    <2>2. CASE t1 = t
      <3>1. t2 # t /\ Answers(t2) /\ Pair(t2) = {u, v} BY <2>2, <1>2, <1>3 DEF Answers
      <3> QED BY <3>1, <2>2, <1>3, <1>4
    <2>3. CASE t2 = t
      <3>1. t1 # t /\ Answers(t1) /\ Pair(t1) = {u, v} BY <2>3, <1>2, <1>3 DEF Answers
      <3> QED BY <3>1, <2>3, <1>3, <1>4
    <2> QED BY <2>1, <2>2, <2>3
  \* A pending row that is the only one: the two are no friends.
  <1>10. {u, v} \notin upset \cup doubled => {u, v} \notin friends
    <2> SUFFICES ASSUME {u, v} \notin doubled, {u, v} \in friends \ (upset \cup doubled) PROVE FALSE
      OBVIOUS
    <2>1. AreFriends(u, v) BY DEF FriendsStay
    <2>2. PICK d \in {<<u, v>>, <<v, u>>} : friendship[d] = "accepted" BY <2>1 DEF AreFriends, Directions
    <2>3. PICK e \in {<<u, v>>, <<v, u>>} : friendship[e] = "pending" BY <1>1 DEF Rows, Directions
    <2>4. friendship[<<u, v>>] # "none" /\ friendship[<<v, u>>] # "none" BY <2>2, <2>3
    <2> QED BY <2>4 DEF OneRowPerPair
  <1>11. RejectsStrangers'
    <2> SUFFICES ASSUME NEW t2 \in Tasks, errand'[t2].op = "reject", Pair(t2)' \notin upset' \cup doubled'
                 PROVE  Pair(t2)' \notin friends'
      BY DEF RejectsStrangers
    <2>1. CASE t2 = t BY <2>1, <1>1, <1>3, <1>4, <1>10
    <2>2. CASE t2 # t
      <3>1. errand[t2].op = "reject" /\ Pair(t2)' = Pair(t2) /\ Pair(t2) \notin upset \cup doubled
        BY <2>2, <1>1, <1>2, <1>3, <1>4
      <3> QED BY <3>1, <1>1 DEF RejectsStrangers
    <2> QED BY <2>1, <2>2
  <1>12. OneRowPerPair' BY <1>1 DEF OneRowPerPair
  <1>13. FriendsStay' BY <1>1, <1>4 DEF FriendsStay, AreFriends, Directions
  <1> QED BY <1>5, <1>6, <1>7, <1>8, <1>9, <1>11, <1>12, <1>13

LEMMA FindFriendKeeps == ASSUME FriendInv, NEW t \in Tasks, NEW u \in Users, NEW v \in Users, FindFriend(t, u, v)
                         PROVE  FriendInv'
  <1> USE DEF FriendInv
  <1>1. Take(t, "remove", u, v) /\ UNCHANGED <<friendship, doubled, friends, upset>>
    BY DEF FindFriend, friendPast
  <1>2. /\ errand'[t].op = "remove" /\ errand'[t].user = u /\ errand'[t].other = v /\ u # v
        /\ \A t2 \in Tasks \ {t} : errand'[t2] = errand[t2]
    BY <1>1 DEF Take, NoErrand, FriendTypeOK
  <1>3. \A t2 \in Tasks \ {t} : Pair(t2)' = Pair(t2)
    BY <1>2 DEF Pair
  <1>4. FriendTypeOK' BY <1>1, TakeTyped DEF FriendTypeOK
  <1>5. Ordered' BY <1>2 DEF Ordered
  <1>6. AsksMeet' /\ AnswersMeet' /\ RejectsStrangers'
    BY <1>1, <1>2, <1>3 DEF AsksMeet, Asks, AnswersMeet, Answers, RejectsStrangers
  <1>7. AskFindsNone' BY <1>1, <1>2, <1>3 DEF AskFindsNone, Asks, Rows, Directions
  <1>8. OneRowPerPair' /\ FriendsStay'
    BY <1>1 DEF OneRowPerPair, FriendsStay, AreFriends, Directions
  <1> QED BY <1>4, <1>5, <1>6, <1>7, <1>8

----------------------------------------------------------------------------
(* The second statements.                                                  *)

\* What all of them have in common: the task is done with, and no history of overlaps.
LEMMA FinishKeeps == ASSUME FriendInv, NEW t \in Tasks, Finished(t), UNCHANGED <<doubled, upset>>
  PROVE  /\ errand' \in [Tasks -> [op : {"none", "ask", "accept", "reject", "remove"},
                                   user : Users \cup {None}, other : Users \cup {None}]]
         /\ Ordered' /\ AsksMeet' /\ AnswersMeet'
         /\ \A t2 \in Tasks : errand'[t2].op # "none" => t2 # t /\ errand'[t2] = errand[t2] /\ Pair(t2)' = Pair(t2)
  <1> USE DEF FriendInv
  <1>1. errand'[t].op = "none" /\ \A t2 \in Tasks \ {t} : errand'[t2] = errand[t2]
    BY FinishedFacts
  <1>2. \A t2 \in Tasks \ {t} : Pair(t2)' = Pair(t2)
    BY <1>1 DEF Pair
  <1>3. errand' \in [Tasks -> [op : {"none", "ask", "accept", "reject", "remove"},
                               user : Users \cup {None}, other : Users \cup {None}]]
    BY DEF Finished, NoErrand, FriendTypeOK
  <1>4. Ordered' BY <1>1 DEF Ordered
  <1>5. AsksMeet' /\ AnswersMeet'
    BY <1>1, <1>2 DEF AsksMeet, Asks, AnswersMeet, Answers
  <1>6. \A t2 \in Tasks : errand'[t2].op # "none" => t2 # t /\ errand'[t2] = errand[t2] /\ Pair(t2)' = Pair(t2)
    BY <1>1, <1>2
  <1> QED BY <1>3, <1>4, <1>5, <1>6

LEMMA DropErrandKeeps == ASSUME FriendInv, NEW t \in Tasks, DropErrand(t) PROVE FriendInv'
  <1>1. Finished(t) /\ UNCHANGED <<friendship, doubled, friends, upset>> BY DEF DropErrand, friendPast
  <1>2. FriendTypeOK' BY <1>1, FinishKeeps DEF FriendInv, FriendTypeOK
  <1>3. AskFindsNone' BY <1>1, FinishKeeps DEF FriendInv, AskFindsNone, Asks, Rows, Directions
  <1>4. RejectsStrangers' BY <1>1, FinishKeeps DEF FriendInv, RejectsStrangers
  <1>5. OneRowPerPair' /\ FriendsStay'
    BY <1>1 DEF FriendInv, OneRowPerPair, FriendsStay, AreFriends, Directions
  <1> QED BY <1>1, <1>2, <1>3, <1>4, <1>5, FinishKeeps DEF FriendInv

LEMMA InsertRowKeeps == ASSUME FriendInv, NEW t \in Tasks, InsertRequest(t) PROVE FriendInv'
  <1> DEFINE u == errand[t].user  v == errand[t].other
  <1>1. /\ errand[t].op = "ask" /\ Finished(t) /\ UNCHANGED <<doubled, friends, upset>>
        /\ friendship' = [friendship EXCEPT ![<<u, v>>] = IF @ = "none" THEN "pending" ELSE @]
    BY DEF InsertRequest, friendPast
  <1>2. u \in Users /\ v \in Users /\ u # v /\ Pair(t) = {u, v}
    BY <1>1 DEF FriendInv, Ordered, Pair
  <1>3. FriendTypeOK' BY <1>1, <1>2, FinishKeeps DEF FriendInv, FriendTypeOK
  \* A row that was none is still none, but for the new one; a row that was, is unchanged.
  <1>4. ASSUME NEW a \in Users, NEW b \in Users
        PROVE  /\ friendship[<<a, b>>] # "none" => friendship'[<<a, b>>] = friendship[<<a, b>>]
               /\ {a, b} # {u, v} => friendship'[<<a, b>>] = friendship[<<a, b>>]
               /\ <<a, b>> # <<u, v>> => friendship'[<<a, b>>] = friendship[<<a, b>>]
    <2>1. friendship'[<<a, b>>] = IF <<a, b>> = <<u, v>> /\ friendship[<<a, b>>] = "none"
                                  THEN "pending" ELSE friendship[<<a, b>>]
      BY <1>1, <1>2 DEF FriendInv, FriendTypeOK
    <2> QED BY <2>1
  <1>5. AskFindsNone'
    <2> SUFFICES ASSUME NEW t2 \in Tasks, Asks(t2)', Pair(t2)' \notin doubled'
                 PROVE  Rows(errand[t2].user, errand[t2].other)' = {}
      BY DEF AskFindsNone
    <2>1. t2 # t /\ errand'[t2] = errand[t2] /\ Pair(t2)' = Pair(t2) /\ Asks(t2) /\ Pair(t2) \notin doubled
      BY <1>1, FinishKeeps DEF Asks
    <2>2. Pair(t2) # {u, v} BY <2>1, <1>1, <1>2 DEF FriendInv, AsksMeet, Asks
    <2>3. /\ friendship[<<errand[t2].user, errand[t2].other>>] = "none"
          /\ friendship[<<errand[t2].other, errand[t2].user>>] = "none"
      BY <2>1, RowsAreNone DEF FriendInv, AskFindsNone
    <2>4. errand[t2].user \in Users /\ errand[t2].other \in Users BY <2>1 DEF FriendInv, Ordered, Asks
    <2>5. {errand[t2].user, errand[t2].other} # {u, v} /\ {errand[t2].other, errand[t2].user} # {u, v}
      BY <2>2 DEF Pair
    <2>6. /\ friendship'[<<errand[t2].user, errand[t2].other>>] = "none"
          /\ friendship'[<<errand[t2].other, errand[t2].user>>] = "none"
      BY <2>3, <2>4, <2>5, <1>4
    <2> QED BY <2>1, <2>6 DEF Rows, Directions
  <1>6. RejectsStrangers' BY <1>1, FinishKeeps DEF FriendInv, RejectsStrangers
  <1>7. OneRowPerPair'
    <2> SUFFICES ASSUME NEW a \in Users, NEW b \in Users, {a, b} \notin doubled
                 PROVE  /\ ~(friendship'[<<a, b>>] # "none" /\ friendship'[<<b, a>>] # "none")
                        /\ friendship'[<<a, a>>] = "none"
      BY <1>1 DEF OneRowPerPair
    <2>1. /\ ~(friendship[<<a, b>>] # "none" /\ friendship[<<b, a>>] # "none")
          /\ friendship[<<a, a>>] = "none"
      BY DEF FriendInv, OneRowPerPair
    <2>2. friendship'[<<a, a>>] = "none" BY <2>1, <1>2, <1>4
    <2>3. CASE {a, b} # {u, v}
      <3>1. {b, a} # {u, v} BY <2>3
      <3> QED BY <3>1, <2>1, <2>2, <2>3, <1>4
    <2>4. CASE {a, b} = {u, v}
      <3>1. Rows(u, v) = {} BY <2>4, <1>1, <1>2 DEF FriendInv, AskFindsNone, Asks
      <3>2. friendship[<<u, v>>] = "none" /\ friendship[<<v, u>>] = "none" BY <3>1, RowsAreNone
      <3>3. friendship'[<<v, u>>] = "none" BY <3>2, <1>2, <1>4
      <3>4. (a = u /\ b = v) \/ (a = v /\ b = u) BY <2>4, SamePair
      <3> QED BY <3>3, <3>4, <2>2
    <2> QED BY <2>3, <2>4
  <1>8. FriendsStay'
    <2> SUFFICES ASSUME NEW a \in Users, NEW b \in Users, {a, b} \in friends \ (upset \cup doubled)
                 PROVE  AreFriends(a, b)'
      BY <1>1 DEF FriendsStay
    <2>1. friendship[<<a, b>>] = "accepted" \/ friendship[<<b, a>>] = "accepted"
      BY DEF FriendInv, FriendsStay, AreFriends, Directions
    <2>2. friendship'[<<a, b>>] = "accepted" \/ friendship'[<<b, a>>] = "accepted"
      BY <2>1, <1>4
    <2> QED BY <2>2 DEF AreFriends, Directions
  <1> QED BY <1>1, <1>3, <1>5, <1>6, <1>7, <1>8, FinishKeeps DEF FriendInv

\* Writing both directions makes no row of none.
LEMMA WriteRowKeeps ==
  ASSUME FriendInv, NEW t \in Tasks, Finished(t), UNCHANGED <<doubled, upset>>, friends' \subseteq Pairs,
         NEW u \in Users, NEW v \in Users, NEW s \in {"none", "accepted"}, WriteBoth(u, v, s)
  PROVE  FriendTypeOK' /\ AskFindsNone' /\ OneRowPerPair'
  <1>1. ASSUME NEW a \in Users, NEW b \in Users, friendship[<<a, b>>] = "none" PROVE friendship'[<<a, b>>] = "none"
    BY <1>1, WriteRow
  <1>2. FriendTypeOK'
    <2>1. friendship' \in [Users \X Users -> {"none", "pending", "accepted"}]
      BY DEF WriteBoth, FriendInv, FriendTypeOK
    <2> QED BY <2>1, FinishKeeps DEF FriendInv, FriendTypeOK
  <1>3. AskFindsNone'
    <2> SUFFICES ASSUME NEW t2 \in Tasks, Asks(t2)', Pair(t2)' \notin doubled'
                 PROVE  Rows(errand[t2].user, errand[t2].other)' = {}
      BY DEF AskFindsNone
    <2>1. errand'[t2] = errand[t2] /\ Asks(t2) /\ Pair(t2) \notin doubled
      BY FinishKeeps DEF Asks
    <2>2. errand[t2].user \in Users /\ errand[t2].other \in Users BY <2>1 DEF FriendInv, Ordered, Asks
    <2>3. /\ friendship[<<errand[t2].user, errand[t2].other>>] = "none"
          /\ friendship[<<errand[t2].other, errand[t2].user>>] = "none"
      BY <2>1, RowsAreNone DEF FriendInv, AskFindsNone
    <2>4. /\ friendship'[<<errand[t2].user, errand[t2].other>>] = "none"
          /\ friendship'[<<errand[t2].other, errand[t2].user>>] = "none"
      BY <2>2, <2>3, <1>1
    <2> QED BY <2>1, <2>4 DEF Rows, Directions
  <1>4. OneRowPerPair'
    <2> SUFFICES ASSUME NEW a \in Users, NEW b \in Users, {a, b} \notin doubled
                 PROVE  /\ ~(friendship'[<<a, b>>] # "none" /\ friendship'[<<b, a>>] # "none")
                        /\ friendship'[<<a, a>>] = "none"
      BY DEF OneRowPerPair
    <2>1. /\ ~(friendship[<<a, b>>] # "none" /\ friendship[<<b, a>>] # "none")
          /\ friendship[<<a, a>>] = "none"
      BY DEF FriendInv, OneRowPerPair
    <2> QED BY <2>1, <1>1
  <1> QED BY <1>2, <1>3, <1>4

\* An answer or a removal is about two users, who are a pair of the histories.
LEMMA ErrandAtWork == ASSUME FriendInv, NEW t \in Tasks, errand[t].op # "none"
                PROVE  /\ errand[t].user \in Users /\ errand[t].other \in Users
                       /\ Pair(t) = {errand[t].user, errand[t].other} /\ Pair(t) \in Pairs
  BY PairTyped DEF FriendInv, Ordered, Pair

LEMMA AcceptKeeps == ASSUME FriendInv, NEW t \in Tasks, AcceptRows(t) PROVE FriendInv'
  <1> DEFINE u == errand[t].user  v == errand[t].other
  <1>1. /\ errand[t].op = "accept" /\ Finished(t) /\ UNCHANGED <<doubled, upset>>
        /\ WriteBoth(u, v, "accepted")
        /\ friends' = IF Rows(u, v) # {} THEN friends \cup {{u, v}} ELSE friends
    BY DEF AcceptRows
  <1>2. u \in Users /\ v \in Users /\ Pair(t) = {u, v} /\ {u, v} \in Pairs BY <1>1, ErrandAtWork
  <1>3. friends' \subseteq Pairs BY <1>1, <1>2 DEF FriendInv, FriendTypeOK
  <1>4. RejectsStrangers'
    <2> SUFFICES ASSUME NEW t2 \in Tasks, errand'[t2].op = "reject", Pair(t2)' \notin upset' \cup doubled'
                 PROVE  Pair(t2)' \notin friends'
      BY DEF RejectsStrangers
    <2>1. t2 # t /\ errand[t2].op = "reject" /\ Pair(t2)' = Pair(t2) /\ Pair(t2) \notin upset \cup doubled
      BY <1>1, FinishKeeps
    <2>2. Pair(t2) # {u, v} BY <2>1, <1>1, <1>2 DEF FriendInv, AnswersMeet, Answers
    <2>3. Pair(t2) \notin friends BY <2>1 DEF FriendInv, RejectsStrangers
    <2> QED BY <2>1, <2>2, <2>3, <1>1
  <1>5. FriendsStay'
    <2> SUFFICES ASSUME NEW a \in Users, NEW b \in Users, {a, b} \in friends' \ (upset \cup doubled)
                 PROVE  AreFriends(a, b)'
      BY <1>1 DEF FriendsStay
    <2>1. CASE {a, b} \in friends
      <3>1. friendship[<<a, b>>] = "accepted" \/ friendship[<<b, a>>] = "accepted"
        BY <2>1 DEF FriendInv, FriendsStay, AreFriends, Directions
      <3>2. friendship'[<<a, b>>] = "accepted" \/ friendship'[<<b, a>>] = "accepted"
        BY <3>1, <1>1, <1>2, WriteRow
      <3> QED BY <3>2 DEF AreFriends, Directions
    <2>2. CASE {a, b} \notin friends
      <3>1. {a, b} = {u, v} /\ Rows(u, v) # {} BY <2>2, <1>1
      <3>2. friendship[<<a, b>>] # "none" \/ friendship[<<b, a>>] # "none"
        BY <3>1, SamePair, RowsAreNone
      <3>3. {b, a} = {u, v} BY <3>1
      <3>4. friendship'[<<a, b>>] = "accepted" \/ friendship'[<<b, a>>] = "accepted"
        BY <3>1, <3>2, <3>3, <1>1, <1>2, WriteRow
      <3> QED BY <3>4 DEF AreFriends, Directions
    <2> QED BY <2>1, <2>2
  <1> QED BY <1>1, <1>2, <1>3, <1>4, <1>5, FinishKeeps, WriteRowKeeps DEF FriendInv

LEMMA RejectKeeps == ASSUME FriendInv, NEW t \in Tasks, RejectRows(t) PROVE FriendInv'
  <1> DEFINE u == errand[t].user  v == errand[t].other
  <1>1. /\ errand[t].op = "reject" /\ Finished(t) /\ UNCHANGED <<doubled, friends, upset>>
        /\ WriteBoth(u, v, "none")
    BY DEF RejectRows, friendPast
  <1>2. u \in Users /\ v \in Users /\ Pair(t) = {u, v} BY <1>1, ErrandAtWork
  <1>3. friends' \subseteq Pairs BY <1>1 DEF FriendInv, FriendTypeOK
  <1>4. RejectsStrangers' BY <1>1, FinishKeeps DEF FriendInv, RejectsStrangers
  <1>5. FriendsStay'
    <2> SUFFICES ASSUME NEW a \in Users, NEW b \in Users, {a, b} \in friends \ (upset \cup doubled)
                 PROVE  AreFriends(a, b)'
      BY <1>1 DEF FriendsStay
    <2>1. {a, b} # {u, v} BY <1>1, <1>2 DEF FriendInv, RejectsStrangers
    <2>2. {b, a} # {u, v} BY <2>1
    <2>3. friendship[<<a, b>>] = "accepted" \/ friendship[<<b, a>>] = "accepted"
      BY DEF FriendInv, FriendsStay, AreFriends, Directions
    <2>4. friendship'[<<a, b>>] = "accepted" \/ friendship'[<<b, a>>] = "accepted"
      BY <2>1, <2>2, <2>3, <1>1, <1>2, WriteRow
    <2> QED BY <2>4 DEF AreFriends, Directions
  <1> QED BY <1>1, <1>2, <1>3, <1>4, <1>5, FinishKeeps, WriteRowKeeps DEF FriendInv

LEMMA RemoveKeeps == ASSUME FriendInv, NEW t \in Tasks, RemoveRows(t) PROVE FriendInv'
  <1> DEFINE u == errand[t].user  v == errand[t].other
  <1>1. /\ errand[t].op = "remove" /\ Finished(t) /\ UNCHANGED <<doubled, upset>>
        /\ WriteBoth(u, v, "none") /\ friends' = friends \ {{u, v}}
    BY DEF RemoveRows
  <1>2. u \in Users /\ v \in Users BY <1>1, ErrandAtWork
  <1>3. friends' \subseteq Pairs BY <1>1 DEF FriendInv, FriendTypeOK
  <1>4. RejectsStrangers' BY <1>1, FinishKeeps DEF FriendInv, RejectsStrangers
  <1>5. FriendsStay'
    <2> SUFFICES ASSUME NEW a \in Users, NEW b \in Users, {a, b} \in friends' \ (upset \cup doubled)
                 PROVE  AreFriends(a, b)'
      BY <1>1 DEF FriendsStay
    <2>1. {a, b} # {u, v} /\ {a, b} \in friends \ (upset \cup doubled) BY <1>1
    <2>2. {b, a} # {u, v} BY <2>1
    <2>3. friendship[<<a, b>>] = "accepted" \/ friendship[<<b, a>>] = "accepted"
      BY <2>1 DEF FriendInv, FriendsStay, AreFriends, Directions
    <2>4. friendship'[<<a, b>>] = "accepted" \/ friendship'[<<b, a>>] = "accepted"
      BY <2>1, <2>2, <2>3, <1>1, <1>2, WriteRow
    <2> QED BY <2>4 DEF AreFriends, Directions
  <1> QED BY <1>1, <1>2, <1>3, <1>4, <1>5, FinishKeeps, WriteRowKeeps DEF FriendInv

----------------------------------------------------------------------------
LEMMA FriendInitHolds == FriendInit => FriendInv
  <1> SUFFICES ASSUME FriendInit PROVE FriendInv OBVIOUS
  <1>1. \A t \in Tasks : errand[t].op = "none" BY DEF FriendInit, NoErrand
  <1>2. \A a, b \in Users : friendship[<<a, b>>] = "none" BY DEF FriendInit
  <1>3. FriendTypeOK BY DEF FriendInit, FriendTypeOK, NoErrand
  <1>4. Ordered /\ AsksMeet /\ AskFindsNone /\ AnswersMeet /\ RejectsStrangers
    BY <1>1 DEF Ordered, AsksMeet, AskFindsNone, AnswersMeet, RejectsStrangers, Asks, Answers
  <1>5. OneRowPerPair /\ FriendsStay BY <1>2 DEF FriendInit, OneRowPerPair, FriendsStay
  <1> QED BY <1>3, <1>4, <1>5 DEF FriendInv

LEMMA FriendStepKeeps == ASSUME FriendInv, [FriendNext]_friendVars PROVE FriendInv'
  <1>1. CASE UNCHANGED friendVars
    <2>1. UNCHANGED <<friendship, errand, doubled, friends, upset>> BY <1>1 DEF friendVars, friendPast
    <2>2. FriendTypeOK' /\ Ordered' BY <2>1 DEF FriendInv, FriendTypeOK, Ordered
    <2>3. AsksMeet' BY <2>1 DEF FriendInv, AsksMeet, Asks, Pair
    <2>4. AskFindsNone' BY <2>1 DEF FriendInv, AskFindsNone, Asks, Pair, Rows
    <2>5. AnswersMeet' BY <2>1 DEF FriendInv, AnswersMeet, Answers, Pair
    <2>6. RejectsStrangers' BY <2>1 DEF FriendInv, RejectsStrangers, Pair
    <2>7. OneRowPerPair' BY <2>1 DEF FriendInv, OneRowPerPair
    <2>8. FriendsStay' BY <2>1 DEF FriendInv, FriendsStay, AreFriends
    <2> QED BY <2>2, <2>3, <2>4, <2>5, <2>6, <2>7, <2>8 DEF FriendInv
  <1>2. ASSUME NEW t \in Tasks, FriendStep(t) PROVE FriendInv'
    BY <1>2, InsertRowKeeps, AcceptKeeps, RejectKeeps, RemoveKeeps, DropErrandKeeps DEF FriendStep
  <1>3. ASSUME NEW t \in Tasks, NEW u \in Users, NEW v \in Users, FriendRequest(t, u, v) PROVE FriendInv'
    BY <1>3, AskKeeps, FindPendingKeeps, FindFriendKeeps DEF FriendRequest
  <1> QED BY <1>1, <1>2, <1>3 DEF FriendNext

\* What tasks rely on from their lookups holds however requests, answers and removals
\* overlap, fail between their two statements or are repeated.
THEOREM FriendInvariance == FriendSpec => []FriendInv
  BY FriendInitHolds, FriendStepKeeps, PTL DEF FriendSpec

\* Any number of users who ask each other in any order: a pair whose asks did not
\* overlap has one row at most, and nobody one with himself.
THEOREM OneRow == FriendSpec => []OneRowPerPair
  <1>1. FriendInv => OneRowPerPair BY DEF FriendInv
  <1> QED BY <1>1, FriendInvariance, PTL

\* No request, rejection or failure takes away a friendship that was accepted, unless
\* answers or asks of the two overlapped.
THEOREM FriendsRemain == FriendSpec => []FriendsStay
  <1>1. FriendInv => FriendsStay BY DEF FriendInv
  <1> QED BY <1>1, FriendInvariance, PTL

----------------------------------------------------------------------------
(*************************************************************************)
(* Story: AudienceIsRight.  A task that is past the question for the     *)
(* permission carries it to the statement that writes; a reaction waits  *)
(* for its view and an answer for its event in the hands of one task.    *)
(*************************************************************************)

VisitPlaces == {"none", "permit", "view", "react", "look", "permit_again", "reply", "tell_reply"}
VisitStates == [op : {"none", "view", "react", "reply"}, at : VisitPlaces,
                user : Users \cup {None}, story : Stories \cup {None}]

\* The rows, one by one.
StoryRows ==
  /\ story \in [Stories -> {"none", "live", "expired", "gone"}]
  /\ author \in [Stories -> Users \cup {None}]
  /\ audience \in [Stories -> {"none", "public", "friends", "close_friends", "other"}]
  /\ friend \subseteq {{x[1], x[2]} : x \in Users \X Users}
  /\ close \subseteq Users \X Users
  /\ views \subseteq Stories \X Users /\ reactions \subseteq Stories \X Users
  /\ replies \subseteq Stories \X Users
  /\ told_author \subseteq Stories \X Users \X {"reaction", "reply"}
  /\ permitted \subseteq Stories \X Users /\ broken_off \subseteq Stories \X Users

\* A visit is about a story that was created; whoever is past the question for the
\* permission was allowed to see the story, or it has none of the three visibilities, or
\* is its author, who is never asked.
VisitFits(t) ==
  /\ visit[t].at = "none" => visit[t] = NoVisit
  /\ visit[t].at # "none" =>
       /\ visit[t].story \in Stories /\ visit[t].user \in Users /\ visit[t].op # "none"
       /\ story[visit[t].story] # "none"
       /\ Mine(t) => visit[t].at \in {"react", "look"}
  /\ visit[t].at \in {"view", "react", "look", "permit_again"} =>
       Mine(t) \/ Its(t) \in permitted \/ audience[visit[t].story] = "other"
  /\ visit[t].at \in {"reply", "tell_reply"} => Its(t) \in permitted

SeenRightly == \A x \in views \cup reactions :
  /\ Stored(x[1])
  /\ x \in permitted \/ audience[x[1]] = "other" \/ (x[2] = author[x[1]] /\ x \notin views)
AnsweredRightly == \A x \in replies : x \in permitted /\ x[2] # author[x[1]] /\ story[x[1]] # "none"
ReactionsSeen == \A x \in reactions \ (views \cup broken_off) :
  x[2] # author[x[1]] => \E t \in Tasks : Its(t) = x /\ visit[t].at = "view"
RepliesTold == \A x \in replies \ broken_off : <<x[1], x[2], "reply">> \in told_author
  \/ \E t \in Tasks : Its(t) = x /\ visit[t].at = "tell_reply"

MarksRight == SeenRightly /\ AnsweredRightly /\ ReactionsSeen /\ RepliesTold

StoryInv == StoryTypeOK /\ (\A t \in Tasks : VisitFits(t)) /\ MarksRight

LEMMA StoryFacts ==
  ASSUME StoryInv, NEW t \in Tasks
  PROVE  StoryRows /\ visit \in [Tasks -> VisitStates] /\ visit[t] \in VisitStates /\ VisitFits(t)
  <1>1. StoryRows BY DEF StoryInv, StoryTypeOK, StoryRows
  <1>2. visit \in [Tasks -> VisitStates] BY DEF StoryInv, StoryTypeOK, VisitStates, VisitPlaces
  <1> QED BY <1>1, <1>2 DEF StoryInv

LEMMA StoryTypesNext == ASSUME StoryRows', visit' \in [Tasks -> VisitStates] PROVE StoryTypeOK'
  BY DEF StoryTypeOK, StoryRows, VisitStates, VisitPlaces

LEMMA NoVisitIs == /\ NoVisit \in VisitStates /\ NoVisit.at = "none"
                   /\ NoVisit.user = None /\ NoVisit.story = None
  BY DEF NoVisit, VisitStates, VisitPlaces

\* Every step adds to those ever permitted whom it leaves allowed.
Permitting == permitted' = permitted \cup {x \in Stories \X Users : Allowed(x[1], x[2])'}

\* A story that was created keeps its author and its audience.
StoriesStay == \A s \in Stories : story[s] # "none" =>
  story'[s] # "none" /\ author'[s] = author[s] /\ audience'[s] = audience[s]

LEMMA VisitStays ==
  ASSUME StoryInv, NEW t \in Tasks, visit'[t] = visit[t], StoriesStay, Permitting
  PROVE  VisitFits(t)'
  <1>1. VisitFits(t) /\ permitted \subseteq permitted' BY StoryFacts DEF Permitting
  <1>2. CASE visit[t].at = "none" BY <1>1, <1>2 DEF VisitFits
  <1>3. CASE visit[t].at # "none"
    <2> PICK s \in Stories : s = visit[t].story /\ story[s] # "none" BY <1>1, <1>3 DEF VisitFits
    <2>1. story'[s] # "none" /\ author'[s] = author[s] /\ audience'[s] = audience[s] BY DEF StoriesStay
    <2>2. Mine(t)' <=> Mine(t) BY <2>1 DEF Mine
    <2>3. Its(t)' = Its(t) BY DEF Its
    <2> QED BY <1>1, <1>3, <2>1, <2>2, <2>3 DEF VisitFits
  <1> QED BY <1>2, <1>3

LEMMA PermittingTypes == ASSUME Permitting, permitted \subseteq Stories \X Users
                         PROVE  permitted' \subseteq Stories \X Users /\ permitted \subseteq permitted'
  BY DEF Permitting

----------------------------------------------------------------------------
(* The requests of one statement.                                          *)

\* What such a request leaves alone, and what is still to be shown of it.
LEMMA StatementKeeps ==
  ASSUME StoryInv, Permitting, StoriesStay, visit' = visit,
         UNCHANGED <<replies, told_author, broken_off>>,
         views' \subseteq views, reactions' \subseteq reactions,
         \A x \in reactions' : x \in views => x \in views',
         \A x \in views' \cup reactions' : Stored(x[1])',
         story' \in [Stories -> {"none", "live", "expired", "gone"}],
         author' \in [Stories -> Users \cup {None}],
         audience' \in [Stories -> {"none", "public", "friends", "close_friends", "other"}],
         friend' \subseteq {{x[1], x[2]} : x \in Users \X Users}, close' \subseteq Users \X Users
  PROVE  StoryInv'
  <1>0. StoryRows /\ visit \in [Tasks -> VisitStates]
    BY DEF StoryInv, StoryTypeOK, StoryRows, VisitStates, VisitPlaces
  <1>1. permitted' \subseteq Stories \X Users /\ permitted \subseteq permitted'
    BY <1>0, PermittingTypes DEF StoryRows
  <1>2. StoryTypeOK'
    <2>1. StoryRows' BY <1>0, <1>1 DEF StoryRows
    <2> QED BY <1>0, <2>1, StoryTypesNext
  <1>3. \A t \in Tasks : VisitFits(t)' BY VisitStays
  <1>4. \A x \in views \cup reactions : x[1] \in Stories /\ author'[x[1]] = author[x[1]] /\ audience'[x[1]] = audience[x[1]]
    BY <1>0 DEF StoriesStay, StoryInv, MarksRight, SeenRightly, Stored, StoryRows
  <1>5. \A x \in replies : x[1] \in Stories /\ author'[x[1]] = author[x[1]] /\ story'[x[1]] # "none"
    BY <1>0 DEF StoriesStay, StoryInv, MarksRight, AnsweredRightly, StoryRows
  <1>6. SeenRightly' BY <1>1, <1>4 DEF StoryInv, MarksRight, SeenRightly
  <1>7. AnsweredRightly' BY <1>1, <1>5 DEF StoryInv, MarksRight, AnsweredRightly
  <1>8. ReactionsSeen'
    <2> SUFFICES ASSUME NEW x \in reactions' \ (views' \cup broken_off'), x[2] # author'[x[1]]
                 PROVE  \E t \in Tasks : Its(t)' = x /\ visit'[t].at = "view"
      BY DEF ReactionsSeen
    <2>1. x \in reactions \ (views \cup broken_off) /\ x[2] # author[x[1]] BY <1>4
    <2>2. PICK t \in Tasks : Its(t) = x /\ visit[t].at = "view" BY <2>1 DEF StoryInv, MarksRight, ReactionsSeen
    <2> QED BY <2>2 DEF Its
  <1>9. RepliesTold'
    <2> SUFFICES ASSUME NEW x \in replies \ broken_off, <<x[1], x[2], "reply">> \notin told_author
                 PROVE  \E t \in Tasks : Its(t)' = x /\ visit'[t].at = "tell_reply"
      BY DEF RepliesTold
    <2>1. PICK t \in Tasks : Its(t) = x /\ visit[t].at = "tell_reply" BY DEF StoryInv, MarksRight, RepliesTold
    <2> QED BY <2>1 DEF Its
  <1> QED BY <1>2, <1>3, <1>6, <1>7, <1>8, <1>9 DEF StoryInv, MarksRight

LEMMA StatementFacts ==
  ASSUME StoryInv
  PROVE  StoryRows /\ \A x \in views \cup reactions : Stored(x[1]) /\ x[1] \in Stories
  <1>1. StoryRows BY DEF StoryInv, StoryTypeOK, StoryRows
  <1> QED BY <1>1 DEF StoryInv, MarksRight, SeenRightly, StoryRows

LEMMA CreateStoryKeeps ==
  ASSUME StoryInv, Permitting, NEW s \in Stories, NEW u \in Users,
         NEW who \in {"public", "friends", "close_friends", "other"}, CreateStory(u, s, who)
  PROVE  StoryInv'
  <1>1. StoriesStay BY StatementFacts DEF CreateStory, StoriesStay, StoryRows
  <1>2. \A x \in views \cup reactions : Stored(x[1])' BY StatementFacts DEF CreateStory, Stored, StoryRows
  <1> QED BY StatementFacts, <1>1, <1>2, StatementKeeps DEF CreateStory, StoryRows

LEMMA ExpireKeeps == ASSUME StoryInv, Permitting, NEW s \in Stories, Expire(s) PROVE StoryInv'
  <1>1. StoriesStay BY StatementFacts DEF Expire, StoriesStay, StoryRows
  <1>2. \A x \in views \cup reactions : Stored(x[1])' BY StatementFacts DEF Expire, Stored, StoryRows
  <1> QED BY StatementFacts, <1>1, <1>2, StatementKeeps DEF Expire, StoryRows

LEMMA DeleteStoryKeeps == ASSUME StoryInv, Permitting, NEW s \in Stories, DeleteStory(s) PROVE StoryInv'
  <1>1. StoriesStay BY StatementFacts DEF DeleteStory, StoriesStay, StoryRows
  <1>2. \A x \in views' \cup reactions' : Stored(x[1])'
    BY StatementFacts DEF DeleteStory, Stored, StoryRows
  <1> QED BY StatementFacts, <1>1, <1>2, StatementKeeps DEF DeleteStory, StoryRows

LEMMA RemoveReactionKeeps ==
  ASSUME StoryInv, Permitting, NEW s \in Stories, NEW u \in Users, RemoveReaction(s, u)
  PROVE  StoryInv'
  <1>1. StoriesStay BY DEF RemoveReaction, StoriesStay
  <1>2. \A x \in views \cup reactions : Stored(x[1])' BY StatementFacts DEF RemoveReaction, Stored
  <1> QED BY StatementFacts, <1>1, <1>2, StatementKeeps DEF RemoveReaction, StoryRows

LEMMA FriendsChangeKeeps ==
  ASSUME StoryInv, Permitting, NEW u \in Users, NEW v \in Users,
         AddClose(u, v) \/ RemoveClose(u, v) \/ Befriend(u, v) \/ Unfriend(u, v)
  PROVE  StoryInv'
  <1>1. UNCHANGED <<story, author, audience, views, reactions, replies, told_author, visit, broken_off>>
    BY DEF AddClose, RemoveClose, Befriend, Unfriend
  <1>2. close' \subseteq Users \X Users
    BY StatementFacts DEF AddClose, RemoveClose, Befriend, Unfriend, StoryRows
  <1>3. friend' \subseteq {{x[1], x[2]} : x \in Users \X Users}
    <2>1. {u, v} \in {{x[1], x[2]} : x \in Users \X Users}
      <3>1. <<u, v>> \in Users \X Users /\ {u, v} = {<<u, v>>[1], <<u, v>>[2]} OBVIOUS
      <3> QED BY <3>1
    <2> QED BY StatementFacts, <2>1 DEF AddClose, RemoveClose, Befriend, Unfriend, StoryRows
  <1>4. StoriesStay BY <1>1 DEF StoriesStay
  <1>5. \A x \in views \cup reactions : Stored(x[1])' BY StatementFacts, <1>1 DEF Stored
  <1> QED BY StatementFacts, <1>1, <1>2, <1>3, <1>4, <1>5, StatementKeeps DEF StoryRows

----------------------------------------------------------------------------
(* The requests of several statements.                                     *)

\* What a statement of task t leaves alone, and what is still to be shown of it.
LEMMA VisitKeeps ==
  ASSUME StoryInv, Permitting, NEW t \in Tasks, NEW v \in VisitStates,
         visit' = [visit EXCEPT ![t] = v],
         UNCHANGED <<story, author, audience, friend, close>>,
         views \subseteq views', told_author \subseteq told_author', broken_off \subseteq broken_off',
         views' \subseteq Stories \X Users, reactions' \subseteq Stories \X Users,
         replies' \subseteq Stories \X Users,
         told_author' \subseteq Stories \X Users \X {"reaction", "reply"},
         broken_off' \subseteq Stories \X Users,
         VisitFits(t)', SeenRightly', AnsweredRightly',
         \A x \in reactions' \ (views' \cup broken_off') : x[2] = author[x[1]]
           \/ (x \in reactions /\ (x = Its(t) => visit[t].at # "view"))
           \/ (x = <<v.story, v.user>> /\ v.at = "view"),
         \A x \in replies' \ broken_off' :
           \/ <<x[1], x[2], "reply">> \in told_author'
           \/ (x \in replies /\ (x = Its(t) => visit[t].at # "tell_reply"))
           \/ (x = <<v.story, v.user>> /\ v.at = "tell_reply")
  PROVE  StoryInv'
  <1>0. StoryRows /\ visit \in [Tasks -> VisitStates] BY StoryFacts
  <1>1. /\ visit' \in [Tasks -> VisitStates] /\ visit'[t] = v
        /\ \A t2 \in Tasks \ {t} : visit'[t2] = visit[t2] /\ Its(t2)' = Its(t2)
    BY <1>0 DEF Its
  <1>2. StoryTypeOK'
    <2>1. permitted' \subseteq Stories \X Users BY <1>0, PermittingTypes DEF StoryRows
    <2>2. StoryRows' BY <1>0, <2>1 DEF StoryRows
    <2> QED BY <1>1, <2>2, StoryTypesNext
  <1>3. \A t2 \in Tasks : VisitFits(t2)'
    <2> TAKE t2 \in Tasks
    <2>1. StoriesStay BY DEF StoriesStay
    <2>2. CASE t2 # t BY <1>1, <2>1, <2>2, VisitStays
    <2> QED BY <2>2
  <1>4. ReactionsSeen'
    <2> SUFFICES ASSUME NEW x \in reactions' \ (views' \cup broken_off'), x[2] # author[x[1]]
                 PROVE  \E t2 \in Tasks : Its(t2)' = x /\ visit'[t2].at = "view"
      BY DEF ReactionsSeen
    <2>1. CASE x = <<v.story, v.user>> /\ v.at = "view" BY <1>1, <2>1 DEF Its
    <2>2. CASE x \in reactions /\ (x = Its(t) => visit[t].at # "view")
      <3>1. x \in reactions \ (views \cup broken_off) BY <2>2
      <3>2. PICK t2 \in Tasks : Its(t2) = x /\ visit[t2].at = "view"
        BY <3>1 DEF StoryInv, MarksRight, ReactionsSeen
      <3>3. t2 # t BY <2>2, <3>2
      <3> QED BY <1>1, <3>2, <3>3
    <2> QED BY <2>1, <2>2
  <1>5. RepliesTold'
    <2> SUFFICES ASSUME NEW x \in replies' \ broken_off', <<x[1], x[2], "reply">> \notin told_author'
                 PROVE  \E t2 \in Tasks : Its(t2)' = x /\ visit'[t2].at = "tell_reply"
      BY DEF RepliesTold
    <2>1. CASE x = <<v.story, v.user>> /\ v.at = "tell_reply" BY <1>1, <2>1 DEF Its
    <2>2. CASE x \in replies /\ (x = Its(t) => visit[t].at # "tell_reply")
      <3>1. x \in replies \ broken_off /\ <<x[1], x[2], "reply">> \notin told_author BY <2>2
      <3>2. PICK t2 \in Tasks : Its(t2) = x /\ visit[t2].at = "tell_reply"
        BY <3>1 DEF StoryInv, MarksRight, RepliesTold
      <3>3. t2 # t BY <2>2, <3>2
      <3> QED BY <1>1, <3>2, <3>3
    <2> QED BY <2>1, <2>2
  <1> QED BY <1>2, <1>3, <1>4, <1>5 DEF StoryInv, MarksRight

\* The story and the user of a visit under way.
LEMMA UnderWay ==
  ASSUME StoryInv, NEW t \in Tasks, visit[t].at # "none"
  PROVE  /\ Its(t) \in Stories \X Users /\ Its(t)[1] = visit[t].story /\ Its(t)[2] = visit[t].user
         /\ visit[t].story \in Stories /\ visit[t].user \in Users /\ story[visit[t].story] # "none"
         /\ visit[t].op \in {"view", "react", "reply"}
         /\ Mine(t) => visit[t].at \in {"react", "look"}
  BY StoryFacts DEF VisitFits, Its, VisitStates

\* The visit goes on, or ends; another statement may come with it.
LEMMA Onward ==
  ASSUME StoryInv, NEW t \in Tasks, NEW at \in VisitPlaces, GoOn(t, at)
  PROVE  \E v \in VisitStates : /\ visit' = [visit EXCEPT ![t] = v] /\ v.at = at
                                /\ v.op = visit[t].op /\ v.user = visit[t].user /\ v.story = visit[t].story
  <1> DEFINE v == [visit[t] EXCEPT !.at = at]
  <1>1. visit' = [visit EXCEPT ![t] = v] BY DEF GoOn, Visit
  <1>2. /\ v \in VisitStates /\ v.at = at
        /\ v.op = visit[t].op /\ v.user = visit[t].user /\ v.story = visit[t].story
    BY StoryFacts DEF VisitStates
  <1> HIDE DEF v
  <1> QED BY <1>1, <1>2

\* A visit that ends fits; one that goes on fits as it did, if its user was permitted
\* where the next statement takes that for granted.
LEMMA Gone == ASSUME NEW t \in Tasks, visit'[t] = NoVisit PROVE VisitFits(t)'
  BY NoVisitIs DEF VisitFits

LEMMA Arrives ==
  ASSUME NEW t \in Tasks, NEW v \in VisitStates, visit'[t] = v, UNCHANGED <<author, audience>>, story' = story,
         v.at # "none", v.op # "none", v.story \in Stories, v.user \in Users, story[v.story] # "none",
         author[v.story] = v.user => v.at \in {"react", "look"},
         v.at \in {"view", "react", "look", "permit_again"} =>
           author[v.story] = v.user \/ <<v.story, v.user>> \in permitted' \/ audience[v.story] = "other",
         v.at \in {"reply", "tell_reply"} => <<v.story, v.user>> \in permitted'
  PROVE  VisitFits(t)'
  <1>1. Mine(t)' <=> author[v.story] = v.user BY DEF Mine
  <1>2. Its(t)' = <<v.story, v.user>> BY DEF Its
  <1> QED BY <1>1, <1>2 DEF VisitFits

\* What has been seen and answered rightly stays so while the stories do not change.
LEMMA RightStays ==
  ASSUME StoryInv, Permitting, UNCHANGED <<story, author, audience>>
  PROVE  /\ UNCHANGED <<views, reactions>> => SeenRightly'
         /\ UNCHANGED replies => AnsweredRightly'
  <1>1. permitted \subseteq permitted' BY DEF Permitting
  <1> QED BY <1>1 DEF StoryInv, MarksRight, SeenRightly, AnsweredRightly, Stored

LEMMA FindStoryKeeps ==
  ASSUME StoryInv, Permitting, NEW t \in Tasks, NEW op \in {"view", "react", "reply"},
         NEW u \in Users, NEW s \in Stories, FindStory(t, op, u, s)
  PROVE  StoryInv'
  <1>a. PICK at \in {"react", "permit"} : at = IF u = author[s] THEN "react" ELSE "permit" OBVIOUS
  <1>v. PICK v \in VisitStates : v = [op |-> op, at |-> at, user |-> u, story |-> s]
    BY DEF VisitStates, VisitPlaces
  <1>1. /\ visit' = [visit EXCEPT ![t] = v] /\ visit[t] = NoVisit /\ Stored(s)
        /\ UNCHANGED <<story, author, audience, friend, close, views, reactions, replies, told_author, broken_off>>
    BY <1>a, <1>v DEF FindStory, Visit, storyRows
  <1>0. StoryRows /\ visit \in [Tasks -> VisitStates] /\ visit'[t] = v BY <1>1, StoryFacts
  <1>2. /\ v.op = op /\ v.user = u /\ v.story = s
        /\ v.at = IF u = author[s] THEN "react" ELSE "permit"
    BY <1>a, <1>v
  <1>3. VisitFits(t)' BY <1>0, <1>1, <1>2, Arrives DEF Stored
  <1>4. SeenRightly' /\ AnsweredRightly' BY <1>1, RightStays
  <1>5. visit[t].at = "none" BY <1>1, NoVisitIs
  <1> QED BY <1>0, <1>1, <1>3, <1>4, <1>5, VisitKeeps DEF StoryRows

LEMMA PermitKeeps == ASSUME StoryInv, Permitting, NEW t \in Tasks, Permit(t) PROVE StoryInv'
  <1>1. /\ visit[t].at = "permit"
        /\ UNCHANGED <<story, author, audience, friend, close, views, reactions, replies, told_author, broken_off>>
    BY DEF Permit, storyRows
  <1>0. StoryRows /\ visit \in [Tasks -> VisitStates] BY StoryFacts
  <1>2. SeenRightly' /\ AnsweredRightly' BY <1>1, RightStays
  <1>3. CASE Leave(t)
    <2>1. visit' = [visit EXCEPT ![t] = NoVisit] BY <1>3 DEF Leave, Visit
    <2>2. VisitFits(t)' BY <1>0, <2>1, Gone
    <2> QED BY <1>0, <1>1, <1>2, <2>1, <2>2, NoVisitIs, VisitKeeps DEF StoryRows
  <1>4. CASE /\ GoOn(t, visit[t].op) /\ Passes(visit[t].story, visit[t].user)
             /\ visit[t].op = "reply" => Allowed(visit[t].story, visit[t].user)
    <2>0. visit[t].op \in VisitPlaces /\ visit[t].op # "none" BY <1>1, UnderWay DEF VisitPlaces
    <2>1. PICK v \in VisitStates : /\ visit' = [visit EXCEPT ![t] = v] /\ v.at = visit[t].op
                                   /\ v.op = visit[t].op /\ v.user = visit[t].user /\ v.story = visit[t].story
      BY <1>4, <2>0, Onward
    <2>2. /\ v.story \in Stories /\ v.user \in Users /\ story[v.story] # "none"
          /\ author[v.story] # v.user
      BY <1>1, <2>1, UnderWay DEF Mine
    <2>3. Allowed(v.story, v.user) => <<v.story, v.user>> \in permitted'
      <3>1. Allowed(v.story, v.user)' <=> Allowed(v.story, v.user) BY <1>1 DEF Allowed
      <3>2. <<v.story, v.user>> \in Stories \X Users /\ <<v.story, v.user>>[1] = v.story /\ <<v.story, v.user>>[2] = v.user
        BY <2>2
      <3> QED BY <3>1, <3>2 DEF Permitting
    <2>4. Passes(v.story, v.user) /\ (v.op = "reply" => Allowed(v.story, v.user)) BY <1>4, <2>1
    <2>5. Allowed(v.story, v.user) \/ audience[v.story] = "other" BY <2>4 DEF Passes
    <2>6. visit'[t] = v BY <1>0, <2>1
    <2>7. v.at \in {"view", "react", "reply"} /\ v.at = v.op BY <1>1, <2>1, UnderWay
    <2>8. VisitFits(t)'
      <3>1. v.at \in {"reply", "tell_reply"} => <<v.story, v.user>> \in permitted' BY <2>3, <2>4, <2>7
      <3> QED BY <1>1, <2>2, <2>3, <2>5, <2>6, <2>7, <3>1, Arrives
    <2> QED BY <1>0, <1>1, <1>2, <2>1, <2>8, VisitKeeps DEF StoryRows
  <1> QED BY <1>3, <1>4 DEF Permit

LEMMA InsertReactionKeeps == ASSUME StoryInv, Permitting, NEW t \in Tasks, InsertReaction(t) PROVE StoryInv'
  <1>1. /\ visit[t].at = "react"
        /\ UNCHANGED <<story, author, audience, friend, close, views, replies, told_author, broken_off>>
    BY DEF InsertReaction, storyRows
  <1>0. StoryRows /\ visit \in [Tasks -> VisitStates] /\ VisitFits(t) BY StoryFacts
  <1>u. /\ Its(t) \in Stories \X Users /\ Its(t)[1] = visit[t].story /\ Its(t)[2] = visit[t].user
        /\ visit[t].story \in Stories /\ visit[t].user \in Users /\ story[visit[t].story] # "none"
        /\ visit[t].op # "none" /\ Its(t) = <<visit[t].story, visit[t].user>>
        /\ permitted \subseteq permitted' /\ (Mine(t) <=> Its(t)[2] = author[Its(t)[1]])
    BY <1>1, UnderWay DEF Its, Permitting, Mine
  <1>2. CASE Stored(visit[t].story)
    <2>a. PICK at \in {"look", "view"} : at = IF Mine(t) THEN "look" ELSE "view" OBVIOUS
    <2>1. reactions' = reactions \cup {Its(t)} /\ GoOn(t, at) BY <1>2, <2>a DEF InsertReaction
    <2>2. PICK v \in VisitStates : /\ visit' = [visit EXCEPT ![t] = v] /\ v.at = at
                                   /\ v.op = visit[t].op /\ v.user = visit[t].user /\ v.story = visit[t].story
      BY <2>1, Onward DEF VisitPlaces
    <2>3. visit'[t] = v /\ Its(t) = <<v.story, v.user>> BY <1>0, <1>u, <2>2
    <2>4. Mine(t) \/ Its(t) \in permitted' \/ audience[visit[t].story] = "other" BY <1>0, <1>1, <1>u DEF VisitFits
    <2>5. VisitFits(t)' BY <1>1, <1>u, <2>a, <2>2, <2>3, <2>4, Arrives DEF Mine
    <2>6. AnsweredRightly' BY <1>1, RightStays
    <2>7. SeenRightly'
      <3>1. \A x \in views \cup reactions : Stored(x[1])' /\ (x \in permitted' \/ audience[x[1]] = "other"
                                              \/ (x[2] = author[x[1]] /\ x \notin views))
        BY <1>1, <1>u DEF StoryInv, MarksRight, SeenRightly, Stored
      <3>y. PICK y \in Stories \X Users : y = Its(t) BY <1>u
      <3>2. Stored(y[1])' BY <1>1, <1>2, <1>u, <3>y DEF Stored
      <3>3. y \in permitted' \/ audience[y[1]] = "other" \/ (y[2] = author[y[1]] /\ y \notin views)
        BY <1>u, <2>4, <3>1, <3>y
      <3> QED BY <1>1, <2>1, <3>1, <3>2, <3>3, <3>y DEF SeenRightly
    <2>8. \A x \in reactions' : x[2] = author[x[1]] \/ x \in reactions \/ (x = <<v.story, v.user>> /\ v.at = "view")
      BY <1>u, <2>a, <2>1, <2>2, <2>3
    <2> QED BY <1>0, <1>1, <1>u, <2>1, <2>2, <2>5, <2>6, <2>7, <2>8, VisitKeeps DEF StoryRows
  <1>3. CASE ~Stored(visit[t].story)
    <2>1. UNCHANGED reactions /\ visit' = [visit EXCEPT ![t] = NoVisit] BY <1>3 DEF InsertReaction, Leave, Visit
    <2>2. VisitFits(t)' BY <1>0, <2>1, Gone
    <2>3. SeenRightly' /\ AnsweredRightly' BY <1>1, <2>1, RightStays
    <2> QED BY <1>0, <1>1, <2>1, <2>2, <2>3, NoVisitIs, VisitKeeps DEF StoryRows
  <1> QED BY <1>2, <1>3

LEMMA RecordViewKeeps == ASSUME StoryInv, Permitting, NEW t \in Tasks, RecordView(t) PROVE StoryInv'
  <1>1. /\ visit[t].at = "view"
        /\ UNCHANGED <<story, author, audience, friend, close, reactions, replies, told_author>>
    BY DEF RecordView
  <1>0. StoryRows /\ visit \in [Tasks -> VisitStates] /\ VisitFits(t) BY StoryFacts
  <1>u. /\ Its(t) \in Stories \X Users /\ Its(t)[1] = visit[t].story /\ Its(t)[2] = visit[t].user
        /\ visit[t].story \in Stories /\ visit[t].user \in Users /\ story[visit[t].story] # "none"
        /\ visit[t].op # "none" /\ Its(t) = <<visit[t].story, visit[t].user>>
        /\ permitted \subseteq permitted' /\ (Mine(t) <=> Its(t)[2] = author[Its(t)[1]])
    BY <1>1, UnderWay DEF Its, Permitting, Mine
  <1>2. /\ views' \in {views, views \cup {Its(t)}} /\ broken_off' \in {broken_off, broken_off \cup {Its(t)}}
        /\ Its(t) \in views' => Its(t) \in views \/ Stored(visit[t].story)
        /\ Its(t) \in views' \cup broken_off'
    BY DEF RecordView
  <1>3. Its(t) \in permitted \/ audience[visit[t].story] = "other" BY <1>0, <1>1, UnderWay DEF VisitFits
  <1>4. AnsweredRightly' BY <1>1, RightStays
  <1>5. SeenRightly'
    <2>1. \A x \in views \cup reactions : Stored(x[1])' /\ (x \in permitted' \/ audience[x[1]] = "other"
                                            \/ (x[2] = author[x[1]] /\ x \notin views))
      BY <1>1, <1>u DEF StoryInv, MarksRight, SeenRightly, Stored
    <2>y. PICK y \in Stories \X Users : y = Its(t) BY <1>u
    <2>2. y \in permitted' \/ audience[y[1]] = "other" BY <1>u, <1>3, <2>y
    <2>3. y \in views' => y \in views \/ Stored(y[1])' BY <1>1, <1>2, <1>u, <2>y DEF Stored
    <2> QED BY <1>1, <1>2, <2>1, <2>2, <2>3, <2>y DEF SeenRightly
  <1>6. \A x \in reactions \ (views' \cup broken_off') : x # Its(t) BY <1>2
  <1>7. CASE visit[t].op = "view"
    <2>1. visit' = [visit EXCEPT ![t] = NoVisit] BY <1>7 DEF RecordView, Viewed, Leave, Visit
    <2>2. VisitFits(t)' BY <1>0, <2>1, Gone
    <2> QED BY <1>0, <1>1, <1>2, <1>u, <1>4, <1>5, <1>6, <2>1, <2>2, NoVisitIs, VisitKeeps DEF StoryRows
  <1>8. CASE visit[t].op # "view"
    <2>1. GoOn(t, "look") BY <1>8 DEF RecordView, Viewed
    <2>2. PICK v \in VisitStates : /\ visit' = [visit EXCEPT ![t] = v] /\ v.at = "look"
                                   /\ v.op = visit[t].op /\ v.user = visit[t].user /\ v.story = visit[t].story
      BY <2>1, Onward DEF VisitPlaces
    <2>3. visit'[t] = v BY <1>0, <2>2
    <2>4. VisitFits(t)' BY <1>1, <1>u, <1>3, <2>2, <2>3, Arrives
    <2> QED BY <1>0, <1>1, <1>2, <1>u, <1>4, <1>5, <1>6, <2>2, <2>4, VisitKeeps DEF StoryRows
  <1> QED BY <1>7, <1>8

LEMMA LookAgainKeeps == ASSUME StoryInv, Permitting, NEW t \in Tasks, LookAgain(t) PROVE StoryInv'
  <1>1. /\ visit[t].at = "look"
        /\ UNCHANGED <<story, author, audience, friend, close, views, reactions, replies, told_author, broken_off>>
    BY DEF LookAgain, storyRows
  <1>0. StoryRows /\ visit \in [Tasks -> VisitStates] /\ VisitFits(t) BY StoryFacts
  <1>u. /\ Its(t) \in Stories \X Users /\ Its(t)[1] = visit[t].story /\ Its(t)[2] = visit[t].user
        /\ visit[t].story \in Stories /\ visit[t].user \in Users /\ story[visit[t].story] # "none"
        /\ visit[t].op # "none" /\ Its(t) = <<visit[t].story, visit[t].user>>
        /\ permitted \subseteq permitted' /\ (Mine(t) <=> Its(t)[2] = author[Its(t)[1]])
    BY <1>1, UnderWay DEF Its, Permitting, Mine
  <1>2. SeenRightly' /\ AnsweredRightly' BY <1>1, RightStays
  <1>3. CASE ~Mine(t) /\ GoOn(t, "permit_again")
    <2>1. GoOn(t, "permit_again") BY <1>3
    <2>2. PICK v \in VisitStates : /\ visit' = [visit EXCEPT ![t] = v] /\ v.at = "permit_again"
                                   /\ v.op = visit[t].op /\ v.user = visit[t].user /\ v.story = visit[t].story
      BY <2>1, Onward DEF VisitPlaces
    <2>3. visit'[t] = v BY <1>0, <2>2
    <2>4. Its(t) \in permitted' \/ audience[visit[t].story] = "other" BY <1>0, <1>1, <1>3, <1>u DEF VisitFits
    <2>5. VisitFits(t)' BY <1>1, <1>u, <1>3, <2>2, <2>3, <2>4, Arrives DEF Mine
    <2> QED BY <1>0, <1>1, <1>2, <2>2, <2>5, VisitKeeps DEF StoryRows
  <1>4. CASE Leave(t)
    <2>1. visit' = [visit EXCEPT ![t] = NoVisit] BY <1>4 DEF Leave, Visit
    <2>2. VisitFits(t)' BY <1>0, <2>1, Gone
    <2> QED BY <1>0, <1>1, <1>2, <2>1, <2>2, NoVisitIs, VisitKeeps DEF StoryRows
  <1> QED BY <1>3, <1>4 DEF LookAgain

LEMMA TellAuthorKeeps == ASSUME StoryInv, Permitting, NEW t \in Tasks, TellAuthor(t) PROVE StoryInv'
  <1>1. /\ visit[t].at = "permit_again"
        /\ UNCHANGED <<story, author, audience, friend, close, views, reactions, replies, broken_off>>
    BY DEF TellAuthor, storyRows
  <1>0. StoryRows /\ visit \in [Tasks -> VisitStates] /\ VisitFits(t) BY StoryFacts
  <1>u. /\ Its(t) \in Stories \X Users /\ Its(t)[1] = visit[t].story /\ Its(t)[2] = visit[t].user
        /\ visit[t].story \in Stories /\ visit[t].user \in Users /\ story[visit[t].story] # "none"
        /\ visit[t].op # "none" /\ Its(t) = <<visit[t].story, visit[t].user>>
        /\ permitted \subseteq permitted' /\ (Mine(t) <=> Its(t)[2] = author[Its(t)[1]])
    BY <1>1, UnderWay DEF Its, Permitting, Mine
  <1>2. /\ told_author \subseteq told_author'
        /\ told_author' \subseteq told_author \cup {<<visit[t].story, visit[t].user, "reaction">>}
        /\ visit' = [visit EXCEPT ![t] = NoVisit]
    BY DEF TellAuthor, Leave, Visit
  <1>3. SeenRightly' /\ AnsweredRightly' BY <1>1, RightStays
  <1>4. VisitFits(t)' BY <1>0, <1>2, Gone
  <1>5. told_author' \subseteq Stories \X Users \X {"reaction", "reply"}
    <2>1. <<visit[t].story, visit[t].user, "reaction">> \in Stories \X Users \X {"reaction", "reply"} BY <1>u
    <2> QED BY <1>0, <1>2, <2>1 DEF StoryRows
  <1> QED BY <1>0, <1>1, <1>2, <1>u, <1>3, <1>4, <1>5, NoVisitIs, VisitKeeps DEF StoryRows

LEMMA SendReplyKeeps == ASSUME StoryInv, Permitting, NEW t \in Tasks, SendReply(t) PROVE StoryInv'
  <1>1. /\ visit[t].at = "reply"
        /\ UNCHANGED <<story, author, audience, friend, close, views, reactions, told_author, broken_off>>
    BY DEF SendReply, storyRows
  <1>0. StoryRows /\ visit \in [Tasks -> VisitStates] /\ VisitFits(t) BY StoryFacts
  <1>u. /\ Its(t) \in Stories \X Users /\ Its(t)[1] = visit[t].story /\ Its(t)[2] = visit[t].user
        /\ visit[t].story \in Stories /\ visit[t].user \in Users /\ story[visit[t].story] # "none"
        /\ visit[t].op # "none" /\ Its(t) = <<visit[t].story, visit[t].user>>
        /\ permitted \subseteq permitted' /\ (Mine(t) <=> Its(t)[2] = author[Its(t)[1]])
    BY <1>1, UnderWay DEF Its, Permitting, Mine
  <1>2. replies' = replies \cup {Its(t)} /\ GoOn(t, "tell_reply") BY DEF SendReply
  <1>3. PICK v \in VisitStates : /\ visit' = [visit EXCEPT ![t] = v] /\ v.at = "tell_reply"
                                 /\ v.op = visit[t].op /\ v.user = visit[t].user /\ v.story = visit[t].story
    BY <1>2, Onward DEF VisitPlaces
  <1>4. visit'[t] = v BY <1>0, <1>3
  <1>5. Its(t) \in permitted' /\ ~Mine(t) BY <1>0, <1>1, <1>u, UnderWay DEF VisitFits
  <1>6. VisitFits(t)' BY <1>1, <1>u, <1>3, <1>4, <1>5, Arrives DEF Mine
  <1>7. SeenRightly' BY <1>1, RightStays
  <1>8. AnsweredRightly' BY <1>1, <1>2, <1>5, <1>u DEF AnsweredRightly, StoryInv, MarksRight
  <1> QED BY <1>0, <1>1, <1>2, <1>u, <1>3, <1>6, <1>7, <1>8, VisitKeeps DEF StoryRows

LEMMA TellReplyKeeps == ASSUME StoryInv, Permitting, NEW t \in Tasks, TellReply(t) PROVE StoryInv'
  <1>1. /\ visit[t].at = "tell_reply"
        /\ UNCHANGED <<story, author, audience, friend, close, views, reactions, replies, broken_off>>
    BY DEF TellReply, storyRows
  <1>0. StoryRows /\ visit \in [Tasks -> VisitStates] /\ VisitFits(t) BY StoryFacts
  <1>u. /\ Its(t) \in Stories \X Users /\ Its(t)[1] = visit[t].story /\ Its(t)[2] = visit[t].user
        /\ visit[t].story \in Stories /\ visit[t].user \in Users /\ story[visit[t].story] # "none"
        /\ visit[t].op # "none" /\ Its(t) = <<visit[t].story, visit[t].user>>
        /\ permitted \subseteq permitted' /\ (Mine(t) <=> Its(t)[2] = author[Its(t)[1]])
    BY <1>1, UnderWay DEF Its, Permitting, Mine
  <1>2. /\ told_author' = told_author \cup {<<visit[t].story, visit[t].user, "reply">>}
        /\ visit' = [visit EXCEPT ![t] = NoVisit]
    BY DEF TellReply, Leave, Visit
  <1>3. SeenRightly' /\ AnsweredRightly' BY <1>1, RightStays
  <1>4. VisitFits(t)' BY <1>0, <1>2, Gone
  <1>5. told_author' \subseteq Stories \X Users \X {"reaction", "reply"}
    <2>1. <<visit[t].story, visit[t].user, "reply">> \in Stories \X Users \X {"reaction", "reply"} BY <1>u
    <2> QED BY <1>0, <1>2, <2>1 DEF StoryRows
  <1>6. \A x \in replies : <<x[1], x[2], "reply">> \notin told_author' => x # Its(t)
    BY <1>2, <1>u
  <1> QED BY <1>0, <1>1, <1>2, <1>u, <1>3, <1>4, <1>5, <1>6, NoVisitIs, VisitKeeps DEF StoryRows

LEMMA DropVisitKeeps == ASSUME StoryInv, Permitting, NEW t \in Tasks, DropVisit(t) PROVE StoryInv'
  <1>n. visit[t].at # "none" BY StoryFacts DEF DropVisit, VisitFits
  <1>1. /\ visit[t].at # "none"
        /\ UNCHANGED <<story, author, audience, friend, close, views, reactions, replies, told_author>>
    BY <1>n DEF DropVisit, storyRows
  <1>0. StoryRows /\ visit \in [Tasks -> VisitStates] /\ VisitFits(t) BY StoryFacts
  <1>u. /\ Its(t) \in Stories \X Users /\ Its(t)[1] = visit[t].story /\ Its(t)[2] = visit[t].user
        /\ visit[t].story \in Stories /\ visit[t].user \in Users /\ story[visit[t].story] # "none"
        /\ visit[t].op # "none" /\ Its(t) = <<visit[t].story, visit[t].user>>
        /\ permitted \subseteq permitted' /\ (Mine(t) <=> Its(t)[2] = author[Its(t)[1]])
    BY <1>1, UnderWay DEF Its, Permitting, Mine
  <1>2. /\ broken_off' = IF Mine(t) THEN broken_off ELSE broken_off \cup {Its(t)}
        /\ visit' = [visit EXCEPT ![t] = NoVisit]
    BY DEF DropVisit, Leave, Visit
  <1>3. SeenRightly' /\ AnsweredRightly' BY <1>1, RightStays
  <1>4. VisitFits(t)' BY <1>0, <1>2, Gone
  <1>5. \A x \in (reactions \cup replies) \ broken_off' : x # Its(t) \/ Mine(t) BY <1>2
  <1>6. Mine(t) => visit[t].at # "view" /\ visit[t].at # "tell_reply" BY <1>1, UnderWay
  <1> QED BY <1>0, <1>1, <1>2, <1>u, <1>3, <1>4, <1>5, <1>6, NoVisitIs, VisitKeeps DEF StoryRows

----------------------------------------------------------------------------
(* Every step keeps the invariant.                                         *)

LEMMA StoryInitHolds == StoryInit => StoryInv
  <1> SUFFICES ASSUME StoryInit PROVE StoryInv OBVIOUS
  <1>1. StoryTypeOK BY NoVisitIs DEF StoryInit, StoryTypeOK, VisitStates, VisitPlaces
  <1>2. \A t \in Tasks : VisitFits(t) BY NoVisitIs DEF StoryInit, VisitFits
  <1>3. MarksRight
    BY DEF StoryInit, MarksRight, SeenRightly, AnsweredRightly, ReactionsSeen, RepliesTold
  <1> QED BY <1>1, <1>2, <1>3 DEF StoryInv

LEMMA StoryStutterKeeps == ASSUME StoryInv, UNCHANGED storyVars PROVE StoryInv'
  <1>1. UNCHANGED <<story, author, audience, friend, close, views, reactions, replies, told_author, visit,
                    permitted, broken_off>>
    BY DEF storyVars, storyRows
  <1>2. StoryTypeOK' BY <1>1 DEF StoryInv, StoryTypeOK
  <1>3. \A t \in Tasks : VisitFits(t)' BY <1>1 DEF StoryInv, VisitFits, Mine, Its
  <1>4. SeenRightly' BY <1>1 DEF StoryInv, MarksRight, SeenRightly, Stored
  <1>5. AnsweredRightly' BY <1>1 DEF StoryInv, MarksRight, AnsweredRightly
  <1>6. ReactionsSeen' BY <1>1 DEF StoryInv, MarksRight, ReactionsSeen, Its
  <1>7. RepliesTold' BY <1>1 DEF StoryInv, MarksRight, RepliesTold, Its
  <1> QED BY <1>2, <1>3, <1>4, <1>5, <1>6, <1>7 DEF StoryInv, MarksRight

LEMMA StoryNextKeeps == ASSUME StoryInv, StoryNext PROVE StoryInv'
  <1>1. Permitting BY DEF StoryNext, Permitting
  <1>2. CASE StoryRequest
    <2>1. CASE \E s \in Stories, u \in Users, t \in Tasks, op \in {"view", "react", "reply"} : FindStory(t, op, u, s)
      BY <1>1, <2>1, FindStoryKeeps
    <2>2. CASE \E s \in Stories, u \in Users, who \in {"public", "friends", "close_friends", "other"} :
                 CreateStory(u, s, who) \/ RemoveReaction(s, u)
      BY <1>1, <2>2, CreateStoryKeeps, RemoveReactionKeeps
    <2>3. CASE \E s \in Stories : Expire(s) \/ DeleteStory(s)
      BY <1>1, <2>3, ExpireKeeps, DeleteStoryKeeps
    <2>4. CASE \E u, v \in Users : AddClose(u, v) \/ RemoveClose(u, v) \/ Befriend(u, v) \/ Unfriend(u, v)
      BY <1>1, <2>4, FriendsChangeKeeps
    <2> QED BY <1>2, <2>1, <2>2, <2>3, <2>4 DEF StoryRequest
  <1>3. CASE \E t \in Tasks : StoryStep(t)
    BY <1>1, <1>3, PermitKeeps, InsertReactionKeeps, RecordViewKeeps, LookAgainKeeps, TellAuthorKeeps,
       SendReplyKeeps, TellReplyKeeps, DropVisitKeeps DEF StoryStep
  <1> QED BY <1>2, <1>3 DEF StoryNext

LEMMA StoryInvMeans == StoryInv => StoryTypeOK /\ AudienceIsRight
  <1> SUFFICES ASSUME StoryInv PROVE AudienceIsRight BY DEF StoryInv
  <1>1. \A x \in Stories \X Users : x \in broken_off \/ (\E t \in Tasks : Its(t) = x) \/
          /\ x \in reactions /\ x[2] # author[x[1]] => x \in views
          /\ x \in replies => <<x[1], x[2], "reply">> \in told_author
    BY DEF StoryInv, MarksRight, ReactionsSeen, RepliesTold
  <1> QED BY <1>1 DEF AudienceIsRight, StoryInv, MarksRight, SeenRightly, AnsweredRightly

\* A request asks for the permission in one statement and writes in a later one; the
\* invariant says what a task that is past the question may rely on.
THEOREM StoryInvariance == StorySpec => []StoryInv
  <1>1. StoryInit => StoryInv BY StoryInitHolds
  <1>2. StoryInv /\ [StoryNext]_storyVars => StoryInv' BY StoryNextKeeps, StoryStutterKeeps
  <1> QED BY <1>1, <1>2, PTL DEF StorySpec

\* The rows of stories, what their requests keep and the history are well typed.
THEOREM StoryTypesHold == StorySpec => []StoryTypeOK
  BY StoryInvariance, StoryInvMeans, PTL

\* Nobody views, reacts to or answers a story whom its audience, at no time, let see it;
\* whoever reacted is among the viewers unless his view was lost, and answers are told
\* (services/story/src/lib.rs).
THEOREM AudienceHolds == StorySpec => []AudienceIsRight
  BY StoryInvariance, StoryInvMeans, PTL

----------------------------------------------------------------------------
(*************************************************************************)
(* LiveHost: EditsKept and CohostsAgree.  The copy of an update holds what*)
(* was meant of every field that it leaves out, and a guest whose requests*)
(* do not overlap has at most one task that is about to tell of him.     *)
(*************************************************************************)

DeskStates == [at : {"none", "write", "host", "room", "candidate"},
               user : Guests \cup {None}, status : CohostStates,
               named : SUBSET Fields, copy : [Fields -> Values] \cup {<<>>}]

\* The rows, one by one.
HostTypes ==
  /\ setting \in [Fields -> Values] /\ meant \in [Fields -> Values]
  /\ cohost \in [Guests -> CohostStates] /\ in_room \in [Guests -> CohostStates]
  /\ answer \in [Guests -> CohostStates]
  /\ asked \subseteq Guests /\ muddled \subseteq Guests /\ unsure \subseteq Fields

\* What a task is doing: nothing, an update, or something about a guest.
DeskFits(d) ==
  /\ d.at = "none" => d = Free
  /\ d.at = "write" => d.user = None /\ d.copy \in [Fields -> Values]
  /\ d.at \in {"host", "room", "candidate"} => d.user \in Guests

\* Updates that overlap are unsure of what they name; the copy of an update holds what
\* was meant of every field that it leaves out and nobody else is about to write.
SettingsFit ==
  /\ \A f \in Fields \ unsure : setting[f] = meant[f]
  /\ \A t \in Updating : \A f \in Fields \ (unsure \cup desk[t].named) : desk[t].copy[f] = meant[f]
  /\ \A t, t2 \in Updating : t # t2 => desk[t].named \subseteq unsure

\* The row of a guest when the last request about him is through.
Settled(u) ==
  /\ cohost[u] = "pending" => u \in asked
  /\ cohost[u] = "accepted" => in_room[u] = "accepted" /\ answer[u] = "accepted"
  /\ in_room[u] = "accepted" => cohost[u] \in {"accepted", "pending"}

\* The row of a guest about whom there is one, and whom it is still to be told.
Underway(u, d) ==
  /\ d.at = "host" => cohost[u] = "pending"
  /\ d.at = "room" => \/ d.status \in {"accepted", "rejected"} /\ cohost[u] = d.status
                      \/ d.status = "ended" /\ cohost[u] \in {"none", "ended"}
  /\ d.at = "candidate" => d.status \in {"accepted", "rejected"} /\ cohost[u] = d.status /\ in_room[u] = d.status

GuestFits(u) == u \notin muddled =>
  /\ \A t, t2 \in Tasks : desk[t].user = u /\ desk[t2].user = u => t = t2
  /\ \A t \in Tasks : desk[t].user = u => Underway(u, desk[t])
  /\ (\A t \in Tasks : desk[t].user # u) => Settled(u)

HostInv == LiveHostTypeOK /\ (\A t \in Tasks : DeskFits(desk[t])) /\ SettingsFit /\ \A u \in Guests : GuestFits(u)

LEMMA HostFacts ==
  ASSUME HostInv, NEW t \in Tasks
  PROVE  HostTypes /\ desk \in [Tasks -> DeskStates] /\ desk[t] \in DeskStates /\ DeskFits(desk[t])
  <1>1. HostTypes BY DEF HostInv, LiveHostTypeOK, HostTypes
  <1>2. desk \in [Tasks -> DeskStates] BY DEF HostInv, LiveHostTypeOK, DeskStates
  <1> QED BY <1>1, <1>2 DEF HostInv

LEMMA HostTypesNext == ASSUME HostTypes', desk' \in [Tasks -> DeskStates] PROVE LiveHostTypeOK'
  BY DEF LiveHostTypeOK, HostTypes, DeskStates

LEMMA FreeIs == /\ Free \in DeskStates /\ Free.at = "none" /\ Free.user = None /\ Free.status = "none"
                /\ Free.named = {} /\ Free.copy = <<>> /\ DeskFits(Free)
  BY DEF Free, DeskStates, CohostStates, DeskFits

\* A step of task t, which had d0 before it and has d after it.
LEMMA NewDesk ==
  ASSUME HostInv, NEW t \in Tasks, NEW d \in DeskStates, desk' = [desk EXCEPT ![t] = d], DeskFits(d)
  PROVE  /\ desk' \in [Tasks -> DeskStates] /\ desk'[t] = d
         /\ \A t2 \in Tasks \ {t} : desk'[t2] = desk[t2]
         /\ \A t2 \in Tasks : DeskFits(desk'[t2])
  <1>1. desk' \in [Tasks -> DeskStates] /\ desk'[t] = d /\ \A t2 \in Tasks \ {t} : desk'[t2] = desk[t2]
    BY HostFacts
  <1>2. \A t2 \in Tasks : DeskFits(desk'[t2]) BY <1>1 DEF HostInv
  <1> QED BY <1>1, <1>2

\* A step about a guest has nothing to do with the settings.
LEMMA SettingsStay ==
  ASSUME HostInv, NEW t \in Tasks, NEW d \in DeskStates, desk' = [desk EXCEPT ![t] = d], DeskFits(d),
         d.at # "write", UNCHANGED <<setting, meant, unsure>>
  PROVE  SettingsFit'
  <1>1. desk'[t] = d /\ \A t2 \in Tasks \ {t} : desk'[t2] = desk[t2] BY NewDesk
  <1>2. \A t2 \in Updating' : t2 \in Updating /\ desk'[t2] = desk[t2] BY <1>1 DEF Updating
  <1> QED BY <1>2 DEF HostInv, SettingsFit

\* What a step of t about guest u leaves alone of the others.
LEMMA OtherGuests ==
  ASSUME HostInv, NEW t \in Tasks, NEW d \in DeskStates, desk' = [desk EXCEPT ![t] = d], DeskFits(d),
         NEW u \in Guests, desk[t].user \in {u, None}, d.user \in {u, None},
         \A v \in Guests \ {u} : /\ cohost'[v] = cohost[v] /\ in_room'[v] = in_room[v] /\ answer'[v] = answer[v]
                                 /\ v \in muddled' <=> v \in muddled
                                 /\ v \in asked => v \in asked'
  PROVE  \A v \in Guests \ {u} : GuestFits(v)'
  <1> TAKE v \in Guests \ {u}
  <1>1. desk'[t] = d /\ \A t2 \in Tasks \ {t} : desk'[t2] = desk[t2] BY NewDesk
  <1>2. \A t2 \in Tasks : desk'[t2].user = v <=> desk[t2].user = v BY <1>1, HostAssumption
  <1>3. \A t2 \in Tasks : desk[t2].user = v => desk'[t2] = desk[t2] BY <1>1, HostAssumption
  <1>4. GuestFits(v) BY DEF HostInv
  <1> SUFFICES ASSUME v \notin muddled' PROVE GuestFits(v)' BY DEF GuestFits
  <1>5. \A t2 \in Tasks : desk'[t2].user = v => Underway(v, desk[t2])'
    <2> TAKE t2 \in Tasks
    <2> HAVE desk'[t2].user = v
    <2>1. desk'[t2] = desk[t2] /\ Underway(v, desk[t2]) BY <1>2, <1>3, <1>4 DEF GuestFits
    <2> QED BY <2>1 DEF Underway
  <1>6. (\A t2 \in Tasks : desk'[t2].user # v) => Settled(v)' BY <1>2, <1>4 DEF GuestFits, Settled
  <1> QED BY <1>2, <1>4, <1>5, <1>6 DEF GuestFits

LEMMA GuestStep ==
  ASSUME HostInv, NEW t \in Tasks, NEW d \in DeskStates, desk' = [desk EXCEPT ![t] = d], DeskFits(d),
         d.at # "write", UNCHANGED <<setting, meant, unsure>>,
         NEW u \in Guests, desk[t].user \in {u, None}, d.user \in {u, None},
         \A v \in Guests \ {u} : /\ cohost'[v] = cohost[v] /\ in_room'[v] = in_room[v] /\ answer'[v] = answer[v]
                                 /\ v \in muddled' <=> v \in muddled
                                 /\ v \in asked => v \in asked',
         HostTypes', GuestFits(u)'
  PROVE  HostInv'
  <1>1. desk' \in [Tasks -> DeskStates] /\ \A t2 \in Tasks : DeskFits(desk'[t2]) BY NewDesk
  <1>2. LiveHostTypeOK' BY <1>1, HostTypesNext
  <1>3. SettingsFit' BY SettingsStay
  <1>4. \A v \in Guests \ {u} : GuestFits(v)' BY OtherGuests
  <1> QED BY <1>1, <1>2, <1>3, <1>4 DEF HostInv

\* A request about u that meets no other one is the only one.
LEMMA Enters ==
  ASSUME HostInv, NEW t \in Tasks, NEW d \in DeskStates, desk[t] = Free, desk' = [desk EXCEPT ![t] = d],
         DeskFits(d), NEW u \in Guests, d.user = u, Muddle(u), Underway(u, d)'
  PROVE  GuestFits(u)'
  <1>1. desk'[t] = d /\ \A t2 \in Tasks \ {t} : desk'[t2] = desk[t2] BY NewDesk
  <1> SUFFICES ASSUME u \notin muddled' PROVE GuestFits(u)' BY DEF GuestFits
  <1>2. \A t2 \in Tasks : desk[t2].user # u BY DEF Muddle
  <1>3. \A t2 \in Tasks : desk'[t2].user = u <=> t2 = t BY <1>1, <1>2
  <1>4. \A t2 \in Tasks : desk'[t2].user = u => Underway(u, desk[t2])'
    BY <1>1, <1>3 DEF Underway
  <1> QED BY <1>3, <1>4 DEF GuestFits

LEMMA MuddleFacts ==
  ASSUME HostTypes, NEW u \in Guests, Muddle(u)
  PROVE  muddled' \subseteq Guests /\ \A v \in Guests \ {u} : v \in muddled' <=> v \in muddled
  BY DEF Muddle, HostTypes

LEMMA RequestCohostKeeps == ASSUME HostInv, NEW t \in Tasks, NEW u \in Guests, RequestCohost(t, u) PROVE HostInv'
  <1>d. PICK d \in DeskStates : d = [Free EXCEPT !.at = "host", !.user = u] BY FreeIs DEF DeskStates, CohostStates, Free
  <1>0. HostTypes /\ desk[t] = Free BY HostFacts DEF RequestCohost
  <1>1. /\ desk' = [desk EXCEPT ![t] = d] /\ Muddle(u)
        /\ cohost' = [cohost EXCEPT ![u] = "pending"]
        /\ UNCHANGED <<setting, asked, in_room, answer, meant, unsure>>
    BY <1>d DEF RequestCohost, Attend, hostTold
  <1>2. d.at = "host" /\ d.user = u /\ d.status = "none" BY <1>d DEF Free
  <1>3. DeskFits(d) BY <1>2 DEF DeskFits
  <1>4. /\ cohost'[u] = "pending"
        /\ \A v \in Guests \ {u} : cohost'[v] = cohost[v]
    BY <1>0, <1>1 DEF HostTypes
  <1>5. Underway(u, d)' BY <1>0, <1>2, <1>4 DEF Underway, HostTypes, CohostStates
  <1>6. GuestFits(u)' BY <1>0, <1>1, <1>2, <1>3, <1>5, Enters
  <1>7. muddled' \subseteq Guests /\ \A v \in Guests \ {u} : v \in muddled' <=> v \in muddled
    BY <1>0, <1>1, MuddleFacts
  <1>8. HostTypes' BY <1>0, <1>1, <1>7 DEF HostTypes, CohostStates
  <1> QED BY <1>0, <1>1, <1>2, <1>3, <1>4, <1>6, <1>7, <1>8, FreeIs, GuestStep

LEMMA RespondKeeps == ASSUME HostInv, NEW t \in Tasks, NEW u \in Guests,
                            NEW status \in {"accepted", "rejected"}, Respond(t, u, status) PROVE HostInv'
  <1>d. PICK d \in DeskStates : d = [Free EXCEPT !.at = "room", !.user = u, !.status = status] BY FreeIs DEF DeskStates, CohostStates, Free
  <1>0. HostTypes /\ desk[t] = Free BY HostFacts DEF Respond
  <1>1. /\ desk' = [desk EXCEPT ![t] = d] /\ Muddle(u)
        /\ cohost' = [cohost EXCEPT ![u] = status]
        /\ UNCHANGED <<setting, asked, in_room, answer, meant, unsure>>
    BY <1>d DEF Respond, Attend, hostTold
  <1>2. d.at = "room" /\ d.user = u /\ d.status = status BY <1>d DEF Free
  <1>3. DeskFits(d) BY <1>2 DEF DeskFits
  <1>4. /\ cohost'[u] = status
        /\ \A v \in Guests \ {u} : cohost'[v] = cohost[v]
    BY <1>0, <1>1 DEF HostTypes
  <1>5. Underway(u, d)' BY <1>0, <1>2, <1>4 DEF Underway, HostTypes, CohostStates
  <1>6. GuestFits(u)' BY <1>0, <1>1, <1>2, <1>3, <1>5, Enters
  <1>7. muddled' \subseteq Guests /\ \A v \in Guests \ {u} : v \in muddled' <=> v \in muddled
    BY <1>0, <1>1, MuddleFacts
  <1>8. HostTypes' BY <1>0, <1>1, <1>7 DEF HostTypes, CohostStates
  <1> QED BY <1>0, <1>1, <1>2, <1>3, <1>4, <1>6, <1>7, <1>8, FreeIs, GuestStep

LEMMA LeaveCohostKeeps == ASSUME HostInv, NEW t \in Tasks, NEW u \in Guests, LeaveCohost(t, u) PROVE HostInv'
  <1>d. PICK d \in DeskStates : d = [Free EXCEPT !.at = "room", !.user = u, !.status = "ended"] BY FreeIs DEF DeskStates, CohostStates, Free
  <1>0. HostTypes /\ desk[t] = Free BY HostFacts DEF LeaveCohost
  <1>1. /\ desk' = [desk EXCEPT ![t] = d] /\ Muddle(u)
        /\ cohost' = [cohost EXCEPT ![u] = IF @ = "none" THEN @ ELSE "ended"]
        /\ UNCHANGED <<setting, asked, in_room, answer, meant, unsure>>
    BY <1>d DEF LeaveCohost, Attend, hostTold
  <1>2. d.at = "room" /\ d.user = u /\ d.status = "ended" BY <1>d DEF Free
  <1>3. DeskFits(d) BY <1>2 DEF DeskFits
  <1>4. /\ cohost'[u] = IF cohost[u] = "none" THEN cohost[u] ELSE "ended"
        /\ \A v \in Guests \ {u} : cohost'[v] = cohost[v]
    BY <1>0, <1>1 DEF HostTypes
  <1>5. Underway(u, d)' BY <1>0, <1>2, <1>4 DEF Underway, HostTypes, CohostStates
  <1>6. GuestFits(u)' BY <1>0, <1>1, <1>2, <1>3, <1>5, Enters
  <1>7. muddled' \subseteq Guests /\ \A v \in Guests \ {u} : v \in muddled' <=> v \in muddled
    BY <1>0, <1>1, MuddleFacts
  <1>8. HostTypes' BY <1>0, <1>1, <1>7 DEF HostTypes, CohostStates
  <1> QED BY <1>0, <1>1, <1>2, <1>3, <1>4, <1>6, <1>7, <1>8, FreeIs, GuestStep

LEMMA TellHostKeeps == ASSUME HostInv, NEW t \in Tasks, TellHost(t) PROVE HostInv'
  <1>0. HostTypes /\ desk[t] \in DeskStates /\ DeskFits(desk[t]) /\ desk[t].at = "host" BY HostFacts DEF TellHost
  <1>u. PICK u \in Guests : u = desk[t].user BY <1>0 DEF DeskFits
  <1>1. /\ asked' = asked \cup {u} /\ desk' = [desk EXCEPT ![t] = Free]
        /\ UNCHANGED <<in_room, answer, setting, cohost, meant, unsure, muddled>>
    BY <1>u DEF TellHost, hostRows, Attend
  <1>2. desk'[t] = Free /\ \A t2 \in Tasks \ {t} : desk'[t2] = desk[t2] BY <1>1, FreeIs, NewDesk
  <1>3. GuestFits(u)'
    <2> SUFFICES ASSUME u \notin muddled PROVE GuestFits(u)' BY <1>1 DEF GuestFits
    <2>1. \A t2 \in Tasks : desk[t2].user = u => t2 = t BY <1>u DEF HostInv, GuestFits
    <2>2. cohost[u] = "pending" BY <1>0, <1>u DEF HostInv, GuestFits, Underway
    <2>3. \A t2 \in Tasks : desk'[t2].user # u BY <1>2, <2>1, FreeIs, HostAssumption
    <2>4. Settled(u)' BY <1>1, <2>2 DEF Settled
    <2> QED BY <2>3, <2>4 DEF GuestFits
  <1>4. HostTypes' BY <1>0, <1>1 DEF HostTypes
  <1> QED BY <1>1, <1>3, <1>4, <1>u, FreeIs, GuestStep

LEMMA TellCandidateKeeps == ASSUME HostInv, NEW t \in Tasks, TellCandidate(t) PROVE HostInv'
  <1>0. HostTypes /\ desk[t] \in DeskStates /\ DeskFits(desk[t]) /\ desk[t].at = "candidate" BY HostFacts DEF TellCandidate
  <1>u. PICK u \in Guests : u = desk[t].user BY <1>0 DEF DeskFits
  <1>1. /\ answer' = [answer EXCEPT ![u] = desk[t].status] /\ desk' = [desk EXCEPT ![t] = Free]
        /\ UNCHANGED <<asked, in_room, setting, cohost, meant, unsure, muddled>>
    BY <1>u DEF TellCandidate, hostRows, Attend
  <1>2. desk'[t] = Free /\ \A t2 \in Tasks \ {t} : desk'[t2] = desk[t2] BY <1>1, FreeIs, NewDesk
  <1>3. answer'[u] = desk[t].status /\ \A v \in Guests \ {u} : answer'[v] = answer[v] BY <1>0, <1>1 DEF HostTypes
  <1>4. GuestFits(u)'
    <2> SUFFICES ASSUME u \notin muddled PROVE GuestFits(u)' BY <1>1 DEF GuestFits
    <2>1. \A t2 \in Tasks : desk[t2].user = u => t2 = t BY <1>u DEF HostInv, GuestFits
    <2>2. /\ desk[t].status \in {"accepted", "rejected"}
          /\ cohost[u] = desk[t].status /\ in_room[u] = desk[t].status
      BY <1>0, <1>u DEF HostInv, GuestFits, Underway
    <2>3. \A t2 \in Tasks : desk'[t2].user # u BY <1>2, <2>1, FreeIs, HostAssumption
    <2>4. Settled(u)' BY <1>1, <1>3, <2>2 DEF Settled
    <2> QED BY <2>3, <2>4 DEF GuestFits
  <1>5. HostTypes' BY <1>0, <1>1 DEF HostTypes, DeskStates
  <1> QED BY <1>1, <1>3, <1>4, <1>5, <1>u, FreeIs, GuestStep

LEMMA TellRoomKeeps == ASSUME HostInv, NEW t \in Tasks, TellRoom(t) PROVE HostInv'
  <1>0. HostTypes /\ desk[t] \in DeskStates /\ DeskFits(desk[t]) /\ desk[t].at = "room" BY HostFacts DEF TellRoom
  <1>u. PICK u \in Guests : u = desk[t].user BY <1>0 DEF DeskFits
  <1>1. /\ in_room' = [in_room EXCEPT ![u] = desk[t].status]
        /\ UNCHANGED <<asked, answer, setting, cohost, meant, unsure, muddled>>
    BY <1>u DEF TellRoom, hostRows
  <1>2. in_room'[u] = desk[t].status /\ \A v \in Guests \ {u} : in_room'[v] = in_room[v] BY <1>0, <1>1 DEF HostTypes
  <1>3. HostTypes' BY <1>0, <1>1 DEF HostTypes, DeskStates
  <1>4. u \notin muddled => (\A t2 \in Tasks : desk[t2].user = u => t2 = t) /\ Underway(u, desk[t])
    BY <1>u DEF HostInv, GuestFits
  <1>5. CASE desk[t].status = "ended"
    <2>1. desk' = [desk EXCEPT ![t] = Free] BY <1>5 DEF TellRoom, Attend
    <2>2. desk'[t] = Free /\ \A t2 \in Tasks \ {t} : desk'[t2] = desk[t2] BY <2>1, FreeIs, NewDesk
    <2>3. GuestFits(u)'
      <3> SUFFICES ASSUME u \notin muddled PROVE GuestFits(u)' BY <1>1 DEF GuestFits
      <3>1. \A t2 \in Tasks : desk'[t2].user # u BY <1>4, <2>2, FreeIs, HostAssumption
      <3>2. Settled(u)' BY <1>0, <1>1, <1>2, <1>4, <1>5 DEF Settled, Underway
      <3> QED BY <3>1, <3>2 DEF GuestFits
    <2> QED BY <1>1, <1>2, <1>3, <1>u, <2>1, <2>3, FreeIs, GuestStep
  <1>6. CASE desk[t].status # "ended"
    <2>p. PICK d \in DeskStates : d = [desk[t] EXCEPT !.at = "candidate"] BY <1>0 DEF DeskStates
    <2>d. d.at = "candidate" /\ d.user = u /\ d.status = desk[t].status BY <1>0, <1>u, <2>p DEF DeskStates
    <2>1. desk' = [desk EXCEPT ![t] = d] BY <1>6, <2>p DEF TellRoom, Attend
    <2>2. DeskFits(d) BY <2>d DEF DeskFits
    <2>3. desk'[t] = d /\ \A t2 \in Tasks \ {t} : desk'[t2] = desk[t2] BY <2>1, <2>2, NewDesk
    <2>4. GuestFits(u)'
      <3> SUFFICES ASSUME u \notin muddled PROVE GuestFits(u)' BY <1>1 DEF GuestFits
      <3>1. \A t2 \in Tasks : desk'[t2].user = u <=> t2 = t BY <1>4, <2>3, <2>d
      <3>2. Underway(u, d)' BY <1>0, <1>1, <1>2, <1>4, <1>6, <2>d DEF Underway
      <3>3. \A t2 \in Tasks : desk'[t2].user = u => Underway(u, desk[t2])' BY <2>3, <3>1, <3>2 DEF Underway
      <3> QED BY <3>1, <3>3 DEF GuestFits
    <2> QED BY <1>1, <1>2, <1>3, <1>u, <2>1, <2>2, <2>4, <2>d, GuestStep
  <1> QED BY <1>5, <1>6

----------------------------------------------------------------------------
(* Updates of the settings, and what is dropped.                           *)

\* What is not about a guest leaves all of them as they are.
LEMMA GuestsStay ==
  ASSUME HostInv, NEW t \in Tasks, NEW d \in DeskStates, desk' = [desk EXCEPT ![t] = d], DeskFits(d),
         desk[t].user = None, d.user = None, UNCHANGED <<cohost, asked, in_room, answer, muddled>>
  PROVE  \A u \in Guests : GuestFits(u)'
  <1>1. desk'[t] = d /\ \A t2 \in Tasks \ {t} : desk'[t2] = desk[t2] BY NewDesk
  <1> TAKE u \in Guests
  <1>2. \A t2 \in Tasks : desk'[t2].user = u <=> desk[t2].user = u BY <1>1, HostAssumption
  <1>3. \A t2 \in Tasks : desk[t2].user = u => desk'[t2] = desk[t2] BY <1>1, HostAssumption
  <1>4. GuestFits(u) BY DEF HostInv
  <1>5. u \notin muddled => \A t2 \in Tasks : desk'[t2].user = u => Underway(u, desk[t2])'
    <2> SUFFICES ASSUME u \notin muddled, NEW t2 \in Tasks, desk'[t2].user = u PROVE Underway(u, desk[t2])' OBVIOUS
    <2>1. desk'[t2] = desk[t2] /\ Underway(u, desk[t2]) BY <1>2, <1>3, <1>4 DEF GuestFits
    <2> QED BY <2>1 DEF Underway
  <1>6. Settled(u) => Settled(u)' BY DEF Settled
  <1> QED BY <1>2, <1>4, <1>5, <1>6 DEF GuestFits

LEMMA ReadSettingsKeeps ==
  ASSUME HostInv, NEW t \in Tasks, NEW named \in SUBSET Fields, NEW x \in Values, ReadSettings(t, named, x)
  PROVE  HostInv'
  <1>0. HostTypes /\ desk[t] = Free BY HostFacts DEF ReadSettings
  <1>c. PICK c \in [Fields -> Values] : c = [f \in Fields |-> IF f \in named THEN x ELSE setting[f]]
    BY <1>0 DEF HostTypes
  <1>d. PICK d \in DeskStates : d = [Free EXCEPT !.at = "write", !.named = named, !.copy = c]
    BY FreeIs DEF DeskStates, Free, CohostStates
  <1>1. /\ desk' = [desk EXCEPT ![t] = d]
        /\ unsure' = IF Updating = {} THEN unsure
                     ELSE unsure \cup named \cup UNION {desk[t2].named : t2 \in Updating}
        /\ UNCHANGED <<setting, cohost, asked, in_room, answer, meant, muddled>>
    BY <1>c, <1>d DEF ReadSettings, Attend, hostRows, hostTold
  <1>2. d.at = "write" /\ d.user = None /\ d.named = named /\ d.copy = c BY <1>d DEF Free
  <1>3. DeskFits(d) BY <1>2 DEF DeskFits
  <1>4. /\ desk' \in [Tasks -> DeskStates] /\ desk'[t] = d
        /\ \A t2 \in Tasks \ {t} : desk'[t2] = desk[t2]
        /\ \A t2 \in Tasks : DeskFits(desk'[t2])
    BY <1>1, <1>3, NewDesk
  <1>5. t \notin Updating /\ Updating' = Updating \cup {t} BY <1>0, <1>2, <1>4, FreeIs DEF Updating
  <1>6. Updating \subseteq Tasks /\ \A t2 \in Updating : desk[t2].named \subseteq Fields
    BY HostFacts DEF Updating, DeskStates
  <1>7. unsure \subseteq unsure' /\ unsure' \subseteq Fields BY <1>0, <1>1, <1>6 DEF HostTypes
  <1>8. SettingsFit'
    <2>1. \A f \in Fields \ unsure' : setting'[f] = meant'[f] BY <1>1, <1>7 DEF HostInv, SettingsFit
    <2>2. \A t2 \in Updating' : \A f \in Fields \ (unsure' \cup desk'[t2].named) : desk'[t2].copy[f] = meant'[f]
      <3> TAKE t2 \in Updating'
      <3> TAKE f \in Fields \ (unsure' \cup desk'[t2].named)
      <3>1. CASE t2 = t
        <4>1. f \notin named /\ f \notin unsure BY <1>2, <1>4, <1>7, <3>1
        <4>2. setting[f] = meant[f] BY <4>1 DEF HostInv, SettingsFit
        <4> QED BY <1>1, <1>2, <1>4, <1>c, <3>1, <4>1, <4>2
      <3>2. CASE t2 # t BY <1>1, <1>4, <1>5, <1>6, <1>7, <3>2 DEF HostInv, SettingsFit
      <3> QED BY <3>1, <3>2
    <2>3. \A t2, t3 \in Updating' : t2 # t3 => desk'[t2].named \subseteq unsure'
      <3> SUFFICES ASSUME NEW t2 \in Updating', NEW t3 \in Updating', t2 # t3
                   PROVE  desk'[t2].named \subseteq unsure'
        OBVIOUS
      <3>1. Updating # {} BY <1>5
      <3>2. unsure' = unsure \cup named \cup UNION {desk[t4].named : t4 \in Updating} BY <1>1, <3>1
      <3>3. CASE t2 = t BY <1>2, <1>4, <3>2, <3>3
      <3>4. CASE t2 # t BY <1>4, <1>5, <1>6, <3>2, <3>4
      <3> QED BY <3>3, <3>4
    <2> QED BY <2>1, <2>2, <2>3 DEF SettingsFit
  <1>9. \A u \in Guests : GuestFits(u)' BY <1>0, <1>1, <1>2, <1>3, FreeIs, GuestsStay
  <1>10. LiveHostTypeOK'
    <2>1. HostTypes' BY <1>0, <1>1, <1>7 DEF HostTypes
    <2> QED BY <1>4, <2>1, HostTypesNext
  <1> QED BY <1>4, <1>8, <1>9, <1>10 DEF HostInv

LEMMA WriteSettingsKeeps == ASSUME HostInv, NEW t \in Tasks, WriteSettings(t) PROVE HostInv'
  <1>0. HostTypes /\ desk[t] \in DeskStates /\ DeskFits(desk[t]) /\ desk[t].at = "write"
    BY HostFacts DEF WriteSettings, Write
  <1>c. desk[t].copy \in [Fields -> Values] /\ desk[t].user = None /\ desk[t].named \subseteq Fields
    BY <1>0 DEF DeskFits, DeskStates
  <1>1. /\ desk' = [desk EXCEPT ![t] = Free] /\ setting' = desk[t].copy
        /\ meant' = [f \in Fields |-> IF f \in desk[t].named THEN desk[t].copy[f] ELSE meant[f]]
        /\ unsure' = IF Updating = {t} THEN unsure \ desk[t].named ELSE unsure
        /\ UNCHANGED <<cohost, asked, in_room, answer, muddled>>
    BY DEF WriteSettings, Write, Attend, hostTold
  <1>2. /\ desk' \in [Tasks -> DeskStates] /\ desk'[t] = Free
        /\ \A t2 \in Tasks \ {t} : desk'[t2] = desk[t2]
        /\ \A t2 \in Tasks : DeskFits(desk'[t2])
    BY <1>1, FreeIs, NewDesk
  <1>3. t \in Updating /\ Updating' = Updating \ {t} BY <1>0, <1>2, FreeIs DEF Updating
  <1>4. SettingsFit'
    <2>1. \A f \in Fields \ unsure' : setting'[f] = meant'[f]
      <3> TAKE f \in Fields \ unsure'
      <3>1. CASE f \in desk[t].named BY <1>1, <3>1
      <3>2. CASE f \notin desk[t].named
        <4>1. f \notin unsure BY <1>1, <3>2
        <4>2. desk[t].copy[f] = meant[f] BY <1>3, <3>2, <4>1 DEF HostInv, SettingsFit
        <4> QED BY <1>1, <3>2, <4>2
      <3> QED BY <3>1, <3>2
    <2>2. CASE Updating = {t}
      <3>1. Updating' = {} BY <1>3, <2>2
      <3> QED BY <2>1, <3>1 DEF SettingsFit
    <2>3. CASE Updating # {t}
      <3>1. unsure' = unsure BY <1>1, <2>3
      <3>2. desk[t].named \subseteq unsure
        <4>1. PICK t2 \in Updating : t2 # t BY <1>3, <2>3
        <4> QED BY <1>3, <4>1 DEF HostInv, SettingsFit
      <3>3. \A f \in Fields \ unsure : meant'[f] = meant[f] BY <1>1, <3>2
      <3>4. \A t2 \in Updating' : t2 \in Updating /\ desk'[t2] = desk[t2] BY <1>2, <1>3 DEF Updating
      <3>5. \A t2 \in Updating' : \A f \in Fields \ (unsure' \cup desk'[t2].named) : desk'[t2].copy[f] = meant'[f]
        BY <3>1, <3>3, <3>4 DEF HostInv, SettingsFit
      <3>6. \A t2, t3 \in Updating' : t2 # t3 => desk'[t2].named \subseteq unsure'
        BY <3>1, <3>4 DEF HostInv, SettingsFit
      <3> QED BY <2>1, <3>5, <3>6 DEF SettingsFit
    <2> QED BY <2>2, <2>3
  <1>5. \A u \in Guests : GuestFits(u)' BY <1>1, <1>c, FreeIs, GuestsStay
  <1>6. LiveHostTypeOK'
    <2>1. meant' \in [Fields -> Values] BY <1>0, <1>1, <1>c DEF HostTypes
    <2>2. HostTypes' BY <1>0, <1>1, <1>c, <2>1 DEF HostTypes
    <2> QED BY <1>2, <2>2, HostTypesNext
  <1> QED BY <1>2, <1>4, <1>5, <1>6 DEF HostInv

LEMMA DropDeskKeeps == ASSUME HostInv, NEW t \in Tasks, DropDesk(t) PROVE HostInv'
  <1>0. HostTypes /\ desk[t] \in DeskStates /\ DeskFits(desk[t]) BY HostFacts
  <1>1. /\ desk' = [desk EXCEPT ![t] = Free]
        /\ muddled' = IF desk[t].user = None THEN muddled ELSE muddled \cup {desk[t].user}
        /\ UNCHANGED <<setting, cohost, asked, in_room, answer, meant, unsure>>
    BY DEF DropDesk, Attend, hostRows, hostTold
  <1>2. CASE desk[t].user = None
    <2>1. /\ desk' \in [Tasks -> DeskStates] /\ \A t2 \in Tasks : DeskFits(desk'[t2])
      BY <1>1, FreeIs, NewDesk
    <2>2. HostTypes' BY <1>0, <1>1, <1>2 DEF HostTypes
    <2>3. \A u \in Guests : GuestFits(u)' BY <1>1, <1>2, FreeIs, GuestsStay
    <2>4. SettingsFit' BY <1>1, FreeIs, SettingsStay
    <2> QED BY <2>1, <2>2, <2>3, <2>4, HostTypesNext DEF HostInv
  <1>3. CASE desk[t].user # None
    <2>u. PICK u \in Guests : u = desk[t].user BY <1>0, <1>3 DEF DeskStates
    <2>1. muddled' = muddled \cup {u} BY <1>1, <1>3, <2>u
    <2>2. GuestFits(u)' BY <2>1 DEF GuestFits
    <2>3. HostTypes' BY <1>0, <1>1, <2>1 DEF HostTypes
    <2> QED BY <1>1, <2>1, <2>2, <2>3, <2>u, FreeIs, GuestStep
  <1> QED BY <1>2, <1>3

----------------------------------------------------------------------------
(* Every step keeps the invariant.                                         *)

LEMMA HostInitHolds == LiveHostInit => HostInv
  <1> SUFFICES ASSUME LiveHostInit PROVE HostInv OBVIOUS
  <1>1. HostTypes
    <2>1. (CHOOSE x \in Values : TRUE) \in Values BY HostAssumption
    <2> QED BY <2>1 DEF LiveHostInit, HostTypes, CohostStates
  <1>2. desk \in [Tasks -> DeskStates] /\ \A t \in Tasks : desk[t] = Free BY FreeIs DEF LiveHostInit
  <1>3. LiveHostTypeOK BY <1>1, <1>2 DEF LiveHostTypeOK, HostTypes, DeskStates
  <1>4. SettingsFit BY <1>2, FreeIs DEF LiveHostInit, SettingsFit, Updating
  <1>5. \A u \in Guests : GuestFits(u)
    <2>1. \A u \in Guests, t \in Tasks : desk[t].user # u BY <1>2, FreeIs, HostAssumption
    <2>2. \A u \in Guests : Settled(u) BY DEF LiveHostInit, Settled
    <2> QED BY <2>1, <2>2 DEF GuestFits
  <1> QED BY <1>2, <1>3, <1>4, <1>5, FreeIs DEF HostInv

LEMMA HostStutterKeeps == ASSUME HostInv, UNCHANGED hostVars PROVE HostInv'
  <1>1. UNCHANGED <<setting, cohost, asked, in_room, answer, desk, meant, unsure, muddled>>
    BY DEF hostVars, hostRows, hostTold
  <1>2. LiveHostTypeOK' BY <1>1 DEF HostInv, LiveHostTypeOK
  <1>3. \A t \in Tasks : DeskFits(desk'[t]) BY <1>1 DEF HostInv
  <1>4. SettingsFit' BY <1>1 DEF HostInv, SettingsFit, Updating
  <1>5. \A u \in Guests : GuestFits(u)' BY <1>1 DEF HostInv, GuestFits, Underway, Settled
  <1> QED BY <1>2, <1>3, <1>4, <1>5 DEF HostInv

LEMMA HostNextKeeps == ASSUME HostInv, LiveHostNext PROVE HostInv'
  BY ReadSettingsKeeps, WriteSettingsKeeps, RequestCohostKeeps, LeaveCohostKeeps, RespondKeeps,
     TellHostKeeps, TellRoomKeeps, TellCandidateKeeps, DropDeskKeeps DEF LiveHostNext

LEMMA HostInvMeans == HostInv => LiveHostTypeOK /\ EditsKept /\ CohostsAgree
  <1>1. HostInv => EditsKept BY DEF HostInv, SettingsFit, EditsKept
  <1>2. HostInv => CohostsAgree BY DEF HostInv, GuestFits, Settled, CohostsAgree
  <1> QED BY <1>1, <1>2 DEF HostInv

\* An update writes back all that it read, and the room and the candidate are told one
\* after the other: the invariant says what each of these statements may rely on.
THEOREM HostInvariance == LiveHostSpec => []HostInv
  <1>1. LiveHostInit => HostInv BY HostInitHolds
  <1>2. HostInv /\ [LiveHostNext]_hostVars => HostInv' BY HostNextKeeps, HostStutterKeeps
  <1> QED BY <1>1, <1>2, PTL DEF LiveHostSpec

\* The settings, the rows of the co-hosts and what their requests keep are well typed.
THEOREM HostTypesHold == LiveHostSpec => []LiveHostTypeOK
  BY HostInvariance, HostInvMeans, PTL

\* update_stream writes all four columns, and yet no edit of a field is undone by an
\* update that did not name it, unless the two overlapped.
THEOREM EditsAreKept == LiveHostSpec => []EditsKept
  BY HostInvariance, HostInvMeans, PTL

\* The host, the room and the candidate know of a co-host what his row says, once the
\* requests about him are through and no two of them overlapped.
THEOREM CohostsDoAgree == LiveHostSpec => []CohostsAgree
  BY HostInvariance, HostInvMeans, PTL

----------------------------------------------------------------------------
(***************************************************************************)
(* The four side by side.                                                  *)
(***************************************************************************)

PeopleInv == AuthInv /\ FriendInv /\ StoryInv /\ HostInv

LEMMA PeopleStepKeeps == ASSUME PeopleInv, [Next]_vars PROVE PeopleInv'
  <1>1. CASE UNCHANGED vars
    <2>1. UNCHANGED authVars /\ UNCHANGED friendVars /\ UNCHANGED storyVars /\ UNCHANGED hostVars
      BY <1>1 DEF vars
    <2> QED BY <2>1, AuthStepKeeps, FriendStepKeeps, StoryStutterKeeps, HostStutterKeeps DEF PeopleInv
  <1>2. CASE AuthNext /\ UNCHANGED <<friendVars, storyVars, hostVars>>
    BY <1>2, AuthStepKeeps, FriendStepKeeps, StoryStutterKeeps, HostStutterKeeps DEF PeopleInv
  <1>3. CASE FriendNext /\ UNCHANGED <<authVars, storyVars, hostVars>>
    BY <1>3, AuthStepKeeps, FriendStepKeeps, StoryStutterKeeps, HostStutterKeeps DEF PeopleInv
  <1>4. CASE StoryNext /\ UNCHANGED <<authVars, friendVars, hostVars>>
    BY <1>4, AuthStepKeeps, FriendStepKeeps, StoryNextKeeps, HostStutterKeeps DEF PeopleInv
  <1>5. CASE LiveHostNext /\ UNCHANGED <<authVars, friendVars, storyVars>>
    BY <1>5, AuthStepKeeps, FriendStepKeeps, StoryStutterKeeps, HostNextKeeps DEF PeopleInv
  <1> QED BY <1>1, <1>2, <1>3, <1>4, <1>5 DEF Next, Only

\* The invariants of the four hold beside one another, whichever of them has requests.
THEOREM PeopleInvariance == Spec => []PeopleInv
  <1>1. Init => PeopleInv
    BY AuthInitHolds, FriendInitHolds, StoryInitHolds, HostInitHolds DEF Init, PeopleInv
  <1>2. PeopleInv /\ [Next]_vars => PeopleInv' BY PeopleStepKeeps
  <1> QED BY <1>1, <1>2, PTL DEF Spec

\* Tokens, friendships, stories and the host's rows are well typed, and so is what the
\* requests on them keep.
THEOREM PeopleTypesHold == Spec => []PeopleTypeOK
  <1>1. PeopleInv => PeopleTypeOK
    BY DEF PeopleInv, PeopleTypeOK, AuthInv, FriendInv, StoryInv, HostInv
  <1> QED BY <1>1, PeopleInvariance, PTL
==============================================================================
