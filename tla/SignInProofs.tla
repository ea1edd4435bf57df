--------------------------- MODULE SignInProofs ----------------------------
(***************************************************************************)
(* Theorems about the operator's sign-in, for any number of client         *)
(* threads, tokens, sign-ins and crashes.                                  *)
(*                                                                         *)
(* The argument: whoever works on the token file holds m_ (LockInv), so    *)
(* between Zoom's rotation and the save nobody else reads or writes it,    *)
(* and what a join loaded is still what the file holds (TokenInv). A       *)
(* pending nonce is always the newest start's and unspent (NonceInv).      *)
(***************************************************************************)
EXTENDS SignIn, TLAPS

\* The places of an operation of ZoomOAuth that has taken m_.
MainHolds == {"refresh", "save", "write", "jwt", "zak"}
ClientHolds == {"redeem", "save", "write"}

LockInv ==
  /\ main \in MainHolds => holder = MainThread
  /\ \A c \in Clients : client[c] \in ClientHolds => holder = c

\* A join's refresh token is the file's, or newer and good.
TokenInv ==
  /\ main \in {"refresh", "jwt", "zak"} /\ ~lost => Stored /\ fileToken = mainToken
  /\ main \in {"save", "write"} /\ ~lost /\ mainToken # 0 => mainToken \in live
  /\ StoredIsLive

NonceInv ==
  /\ pending # 0 => pending = starts /\ pending \notin spent
  /\ spent \subseteq 1 .. starts

IInv == TypeOK /\ LockInv /\ TokenInv /\ NonceInv

USE SignInAssumption, ThreadAssumption DEF MainHolds, ClientHolds, Tokens, Starts, MainAt, ClientAt

LEMMA Initially == Init => IInv
<1> SUFFICES ASSUME Init PROVE IInv
  OBVIOUS
<1>1. DataOK
  BY DEF Init, DataOK, Nobody, MainThread
<1>2. FlagsOK
  BY Zenon DEF Init, FlagsOK, Stored
<1>3. LockInv /\ NonceInv
  BY DEF Init, LockInv, NonceInv
<1>4. TokenInv
  BY DEF Init, TokenInv, StoredIsLive, Stored
<1> QED
  BY <1>1, <1>2, <1>3, <1>4 DEF IInv, TypeOK

----------------------------------------------------------------------------
(* Types. *)

LEMMA NewestIsIssued ==
  ASSUME NEW n \in Nat, NEW L \in SUBSET (1 .. n)
  PROVE  L \cup {n + 1} \subseteq 1 .. (n + 1)
OBVIOUS

LEMMA DataKept ==
  ASSUME DataOK, [Next]_vars
  PROVE  DataOK'
<1> USE DEF DataOK, MainGoes, ClientGoes, fileVars, mainVars, clientVars, zoomVars, Nobody,
            MainThread
<1>1. CASE BeginSignIn
  BY <1>1 DEF BeginSignIn, Nonce
<1>2. CASE \E c \in Clients : SignOut(c)
  BY <1>2 DEF SignOut, PendingAfterSignOut
<1>3. CASE \E c \in Clients, s \in Starts : Callback(c, s)
  BY <1>3 DEF Callback, PendingAfterMatch
<1>4. ASSUME NEW c \in Clients, Redeem(c)
      PROVE  DataOK'
  <2>1. CASE ClientGivesUp(c) /\ UNCHANGED zoomVars
    BY <1>4, <2>1 DEF Redeem, ClientGivesUp
  <2>2. CASE client' = [client EXCEPT ![c] = "save"]
    <3>1. clientToken' \in [Clients -> 0 .. MaxTokens] /\ issued' \in 0 .. MaxTokens
      BY <1>4, <2>2 DEF Redeem, Issues, ClientGivesUp
    <3>2. \/ issued' = issued /\ live' = live
          \/ issued' = issued + 1 /\ live' = live \cup {issued + 1}
      BY <1>4 DEF Redeem, Issues
    <3>3. live' \subseteq 1 .. issued'
      <4>1. CASE UNCHANGED zoomVars
        BY <4>1
      <4>2. CASE issued' = issued + 1 /\ live' = live \cup {issued + 1}
        <5>1. issued \in Nat /\ live \in SUBSET (1 .. issued)
          OBVIOUS
        <5> QED
          BY <4>2, <5>1, NewestIsIssued
      <4> QED
        BY <3>2, <4>1, <4>2
    <3> QED
      BY <1>4, <2>2, <3>1, <3>3 DEF Redeem, ClientGivesUp
  <2> QED
    BY <1>4, <2>1, <2>2 DEF Redeem
<1>5. ASSUME NEW c \in Clients, ClientSaves(c) \/ ClientWrites(c) \/ ClientStores(c)
      PROVE  DataOK'
  <2>1. CASE ClientSaves(c)
    BY <2>1 DEF ClientSaves, ClientGivesUp
  <2>2. CASE ClientWrites(c)
    BY <2>2 DEF ClientWrites
  <2>3. CASE ClientStores(c)
    BY <2>3 DEF ClientStores
  <2> QED
    BY <1>5, <2>1, <2>2, <2>3
<1>6. CASE Join \/ SessionEnds
  BY <1>6 DEF Join, SessionEnds
<1>7. CASE Load
  BY <1>7 DEF Load, MainGivesUp
<1>8. CASE Check \/ Drop
  BY <1>8 DEF Check, Drop
<1>9. CASE Refresh
  <2>1. CASE UNCHANGED zoomVars
    <3>1. file' \in {"none", "torn", "pair"} /\ fileToken' \in 0 .. MaxTokens
      BY <1>9 DEF Refresh, RefreshRefused, RefreshRotates, RefreshKeeps, ClearsTokens
    <3>2. main' \in MainAt /\ holder' \in Clients \cup {Nobody, MainThread}
      BY <1>9 DEF Refresh, RefreshRefused, RefreshRotates, RefreshKeeps, MainGivesUp
    <3>3. mainToken' \in 0 .. MaxTokens
      BY <1>9, <2>1 DEF Refresh, RefreshRefused, RefreshRotates, RefreshKeeps, Issues,
         TokenAfterRefresh
    <3> QED
      BY <1>9, <2>1, <3>1, <3>2, <3>3 DEF Refresh
  <2>2. CASE RefreshRotates
    <3>1. issued' \in 0 .. MaxTokens /\ live' \subseteq 1 .. issued'
      BY <2>2 DEF RefreshRotates, Issues
    <3>2. mainToken' \in 0 .. MaxTokens /\ UNCHANGED fileVars
      BY <2>2 DEF RefreshRotates, Issues, TokenAfterRefresh
    <3>3. main' \in MainAt /\ holder' \in Clients \cup {Nobody, MainThread}
      BY <2>2 DEF RefreshRotates, MainGivesUp
    <3> QED
      BY <1>9, <3>1, <3>2, <3>3 DEF Refresh
  <2> QED
    BY <1>9, <2>1, <2>2 DEF Refresh, RefreshRefused, RefreshKeeps
<1>10. CASE MainSaves \/ MainWrites
  <2>1. CASE MainSaves
    BY <2>1 DEF MainSaves
  <2>2. CASE MainWrites
    BY <2>2 DEF MainWrites
  <2> QED
    BY <1>10, <2>1, <2>2
<1>11. CASE AskJwt \/ AskZak
  BY <1>11 DEF AskJwt, AskZak, MainGivesUp
<1>12. CASE Crash
  BY <1>12 DEF Crash
<1>13. CASE Revoke \/ UNCHANGED vars
  BY <1>13 DEF Revoke, vars
<1> QED
  BY <1>1, <1>2, <1>3, <1>4, <1>5, <1>6, <1>7, <1>8, <1>9, <1>10, <1>11, <1>12, <1>13
     DEF Next, Main, ClientSteps

LEMMA FlagsKept ==
  ASSUME FlagsOK, [Next]_vars
  PROVE  FlagsOK'
<1> USE DEF FlagsOK, mainVars
<1>1. CASE BeginSignIn \/ Join \/ SessionEnds \/ Check \/ Drop \/ Revoke \/ UNCHANGED vars
  BY <1>1, Zenon DEF BeginSignIn, Join, SessionEnds, Check, Drop, Revoke, vars
<1>2. CASE \E c \in Clients : SignOut(c) \/ \E s \in Starts : Callback(c, s)
  BY <1>2, Zenon DEF SignOut, Callback
<1>3. CASE \E c \in Clients : ClientSteps(c)
  BY <1>3, Zenon DEF ClientSteps, Redeem, ClientSaves, ClientWrites, ClientStores
<1>4. CASE Load \/ Refresh
  BY <1>4, Zenon DEF Load, Refresh, RefreshRefused, RefreshRotates, RefreshKeeps
<1>5. CASE MainSaves \/ MainWrites
  BY <1>5, Zenon DEF MainSaves, MainWrites
<1>6. CASE AskJwt \/ AskZak
  BY <1>6, Zenon DEF AskJwt, AskZak
<1>7. CASE Crash
  BY <1>7, Zenon DEF Crash, Stored
<1> QED
  BY <1>1, <1>2, <1>3, <1>4, <1>5, <1>6, <1>7 DEF Next, Main

----------------------------------------------------------------------------
(* Who holds m_. *)

LEMMA LockKept ==
  ASSUME DataOK, LockInv, [Next]_vars
  PROVE  LockInv'
<1> USE DEF DataOK, LockInv, MainGoes, ClientGoes, mainVars, clientVars, Nobody, MainThread
<1>1. CASE BeginSignIn \/ Revoke \/ UNCHANGED vars
  BY <1>1 DEF BeginSignIn, Revoke, vars
<1>2. CASE \E c \in Clients : SignOut(c)
  BY <1>2 DEF SignOut
<1>3. CASE \E c \in Clients, s \in Starts : Callback(c, s)
  BY <1>3 DEF Callback
<1>4. CASE \E c \in Clients : Redeem(c)
  BY <1>4 DEF Redeem, ClientGivesUp
<1>5. CASE \E c \in Clients : ClientSaves(c) \/ ClientWrites(c) \/ ClientStores(c)
  BY <1>5 DEF ClientSaves, ClientWrites, ClientStores, ClientGivesUp
<1>6. CASE Join \/ SessionEnds \/ Load \/ Check \/ Drop
  BY <1>6 DEF Join, SessionEnds, Load, Check, Drop, MainGivesUp
<1>7. CASE Refresh
  BY <1>7 DEF Refresh, RefreshRefused, RefreshRotates, RefreshKeeps, MainGivesUp
<1>8. CASE MainSaves \/ MainWrites \/ AskJwt \/ AskZak
  BY <1>8 DEF MainSaves, MainWrites, AskJwt, AskZak, MainGivesUp
<1>9. CASE Crash
  BY <1>9 DEF Crash
<1> QED
  BY <1>1, <1>2, <1>3, <1>4, <1>5, <1>6, <1>7, <1>8, <1>9 DEF Next, Main, ClientSteps

----------------------------------------------------------------------------
(* The token at rest and the one a join holds. *)

\* Whoever may touch the file does not meet a join in its critical section.
LEMMA TokenKept ==
  ASSUME DataOK, LockInv, TokenInv, [Next]_vars
  PROVE  TokenInv'
<1> USE DEF DataOK, TokenInv, StoredIsLive, Stored, MainGoes, fileVars, mainVars, zoomVars
<1>1. CASE BeginSignIn \/ Revoke \/ UNCHANGED vars
  BY <1>1 DEF BeginSignIn, Revoke, vars
<1>2. CASE \E c \in Clients : SignOut(c)
  BY <1>2 DEF SignOut, LockInv, Nobody, MainThread
<1>3. CASE \E c \in Clients, s \in Starts : Callback(c, s)
  BY <1>3 DEF Callback
<1>4. CASE \E c \in Clients : Redeem(c)
  BY <1>4 DEF Redeem, Issues
<1>5. CASE \E c \in Clients : ClientSaves(c)
  BY <1>5 DEF ClientSaves, LockInv
<1>6. CASE \E c \in Clients : ClientWrites(c)
  BY <1>6 DEF ClientWrites, LockInv
<1>7. CASE \E c \in Clients : ClientStores(c)
  BY <1>7 DEF ClientStores
<1>8. CASE Join \/ SessionEnds \/ Load \/ Check \/ Drop
  BY <1>8 DEF Join, SessionEnds, Load, Check, Drop, MainGivesUp
<1>9. CASE Refresh
  BY <1>9 DEF Refresh, RefreshRefused, RefreshRotates, RefreshKeeps, ClearsTokens,
              TokenAfterRefresh, Issues, MainGivesUp
<1>10. CASE MainSaves \/ MainWrites
  <2>1. CASE MainSaves
    BY <2>1 DEF MainSaves
  <2>2. CASE MainWrites
    BY <2>2 DEF MainWrites
  <2> QED
    BY <1>10, <2>1, <2>2
<1>11. CASE AskJwt \/ AskZak
  BY <1>11 DEF AskJwt, AskZak, MainGivesUp
<1>12. CASE Crash
  BY <1>12 DEF Crash, Unwritten
<1> QED
  BY <1>1, <1>2, <1>3, <1>4, <1>5, <1>6, <1>7, <1>8, <1>9, <1>10, <1>11, <1>12
     DEF Next, Main, ClientSteps

----------------------------------------------------------------------------
(* The nonce. *)

LEMMA NonceKept ==
  ASSUME DataOK, NonceInv, [Next]_vars
  PROVE  NonceInv'
<1> USE DEF DataOK, NonceInv
<1>1. CASE BeginSignIn
  BY <1>1 DEF BeginSignIn, Nonce
<1>2. CASE \E c \in Clients : SignOut(c)
  BY <1>2 DEF SignOut, PendingAfterSignOut
<1>3. CASE \E c \in Clients, s \in Starts : Callback(c, s)
  BY <1>3 DEF Callback, PendingAfterMatch
<1>4. CASE Crash
  BY <1>4 DEF Crash
<1>5. CASE UNCHANGED <<pending, starts, spent>>
  BY <1>5
<1>6. CASE \/ \E c \in Clients : ClientSteps(c)
           \/ Join \/ SessionEnds \/ Main \/ Revoke \/ UNCHANGED vars
  BY <1>5, <1>6 DEF ClientSteps, Redeem, ClientSaves, ClientWrites, ClientStores, Join,
     SessionEnds, Main, Load, Refresh, MainSaves, MainWrites, AskJwt, AskZak, Check, Drop,
     Revoke, vars
<1> QED
  BY <1>1, <1>2, <1>3, <1>4, <1>6 DEF Next

----------------------------------------------------------------------------
(* Theorems. *)

\* The inductive invariant of the sign-in: types, who holds m_, whose token is
\* in the file, which nonce is pending.
THEOREM Invariance == Spec => []IInv
<1>1. IInv /\ [Next]_vars => IInv'
  BY DataKept, FlagsKept, LockKept, TokenKept, NonceKept DEF IInv, TypeOK
<1> QED
  BY <1>1, Initially, PTL DEF Spec

\* Type correctness of ZoomOAuth, its callers and its file.
THEOREM TypeCorrect == Spec => []TypeOK
<1>1. IInv => TypeOK
  BY DEF IInv
<1> QED
  BY <1>1, Invariance, PTL

\* The refresh token at rest is one Zoom would take, whatever refresh, save,
\* callback, sign-out or crash came before, unless a rotation was lost.
THEOREM StoreIsLive == Spec => []StoredIsLive
<1>1. IInv => StoredIsLive
  BY DEF IInv, TokenInv
<1> QED
  BY <1>1, Invariance, PTL

\* ClearTokens in RefreshLocked: only a sign-in that is dead is deleted. The
\* token Zoom refused is the one in the file, and the one in the file is live.
THEOREM SignInIsKept == Spec => KeepsSignIn
<1>1. ASSUME IInv, [Next]_vars, main = "refresh", Stored, file' = "none"
      PROVE  lost
  <2> USE <1>1 DEF IInv, TypeOK, DataOK, Stored
  <2>1. holder = MainThread
    BY DEF LockInv
  <2>2. CASE Refresh
    BY <2>2 DEF TokenInv, StoredIsLive, Refresh, RefreshRefused, RefreshRotates, RefreshKeeps,
       ClearsTokens, fileVars
  <2>3. CASE \E c \in Clients : SignOut(c)
    BY <2>1, <2>3 DEF SignOut, Nobody, MainThread
  <2>4. CASE \E c \in Clients : ClientSteps(c)
    BY <2>4 DEF ClientSteps, Redeem, ClientSaves, ClientWrites, ClientStores, fileVars
  <2>5. CASE \/ BeginSignIn \/ \E c \in Clients, s \in Starts : Callback(c, s)
             \/ Join \/ SessionEnds \/ Crash \/ Revoke \/ UNCHANGED vars
    BY <2>5 DEF BeginSignIn, Callback, Join, SessionEnds, Crash, Revoke, vars, fileVars
  <2>6. CASE Main /\ ~Refresh
    BY <2>6 DEF Main, Load, MainSaves, MainWrites, AskJwt, AskZak, Check, Drop
  <2> QED
    BY <2>2, <2>3, <2>4, <2>5, <2>6 DEF Next
<1>2. IInv /\ [Next]_vars => [main = "refresh" /\ Stored /\ file' = "none" => lost]_vars
  BY <1>1
<1> QED
  BY <1>2, Invariance, PTL DEF Spec, KeepsSignIn

\* HandleCallback: no start is redeemed twice, nor after a newer one or a
\* sign-out replaced it.
THEOREM NonceWorksOnce == Spec => OneUsePerStart
<1>1. ASSUME IInv, [Next]_vars, NEW c \in Clients, client[c] = "idle", client'[c] = "redeem"
      PROVE  pending = starts /\ pending \notin spent
  <2> USE <1>1 DEF IInv, TypeOK, DataOK, NonceInv
  <2>1. CASE \E d \in Clients, s \in Starts : Callback(d, s)
    BY <2>1 DEF Callback
  <2>2. CASE \E d \in Clients : SignOut(d) \/ ClientSteps(d)
    BY <2>2 DEF SignOut, ClientSteps, Redeem, ClientSaves, ClientWrites, ClientStores,
       ClientGivesUp, ClientGoes
  <2>3. CASE Crash
    BY <2>3 DEF Crash
  <2>4. CASE \/ BeginSignIn \/ Join \/ SessionEnds \/ Main \/ Revoke \/ UNCHANGED vars
    BY <2>4 DEF BeginSignIn, Join, SessionEnds, Main, Load, Refresh, MainSaves, MainWrites,
       AskJwt, AskZak, Check, Drop, Revoke, vars, clientVars
  <2> QED
    BY <2>1, <2>2, <2>3, <2>4 DEF Next
<1>2. IInv /\ [Next]_vars =>
        [\A c \in Clients :
           client[c] = "idle" /\ client'[c] = "redeem" => pending = starts /\ pending \notin spent]_vars
  BY <1>1
<1> QED
  BY <1>2, Invariance, PTL DEF Spec, OneUsePerStart
=============================================================================
