------------------------------- MODULE SignIn -------------------------------
(***************************************************************************)
(* The operator's Zoom sign-in: ZoomOAuth (src/app/zoom_oauth.cpp), the    *)
(* panel's signin and signout verbs and the browser's callback, and the    *)
(* credentials a join asks for (src/app/main.cpp).                         *)
(*                                                                         *)
(* Every public operation of ZoomOAuth holds m_ to its end, over the HTTPS *)
(* requests it makes. The flag signed_in, which the join card reads, is    *)
(* stored by its caller after m_ is released.                              *)
(*                                                                         *)
(* Zoom rotates the refresh token on every refresh and revokes the one it  *)
(* replaces. The model numbers refresh tokens as they are issued; 0 stands *)
(* for none, since an answer may carry only an access token. The access    *)
(* token's expiry and Zoom's verdict on it are free choices.               *)
(*                                                                         *)
(* Abstracted: the token file's encryption, JSON, the SDK token and the    *)
(* ZAK themselves, the wording of the errors, --anon runs, which never     *)
(* come here.                                                              *)
(***************************************************************************)
EXTENDS Naturals

CONSTANTS
  Clients,     \* the control server's client threads
  MaxTokens,   \* bound: refresh tokens Zoom issues
  MaxStarts,   \* bound: sign-ins begun
  MaxCrashes   \* bound: crashes, or quits, of the app

ASSUME SignInAssumption ==
  MaxTokens \in Nat \ {0} /\ MaxStarts \in Nat /\ MaxCrashes \in Nat

Tokens == 1 .. MaxTokens
Starts == 1 .. MaxStarts
Nobody == "nobody"
MainThread == "main"

ASSUME ThreadAssumption == Nobody \notin Clients /\ MainThread \notin Clients

VARIABLES
  file,       \* the token file: none, torn (truncated, unwritten), or pair
  fileToken,  \* the refresh token in it
  pending,    \* pending_state_: the start it waits for, 0 when empty
  holder,     \* who holds m_
  signedIn,   \* signed_in
  main,       \* where main is
  mainToken,  \* t.refresh, in EnsureJoinCredentials
  retried,    \* the SDK token was refused once already
  client,     \* what each client thread is at
  clientToken,\* t.refresh, in HandleCallback
  issued,     \* Zoom: refresh tokens issued so far
  live,       \* Zoom: the ones it would accept
  starts,     \* sign-ins begun
  crashes,
  spent,      \* history: starts redeemed, replaced or signed out of
  lost        \* history: a rotation whose token never reached the file

fileVars == <<file, fileToken>>
mainVars == <<main, mainToken, retried>>
clientVars == <<client, clientToken>>
zoomVars == <<issued, live>>
vars == <<fileVars, pending, holder, signedIn, mainVars, clientVars, zoomVars, starts,
          crashes, spent, lost>>

MainAt == {"card", "load", "refresh", "save", "write", "jwt", "zak", "check", "drop", "session"}
ClientAt == {"idle", "redeem", "save", "write", "on", "off"}

\* LoadTokens: a file that is missing, torn or unreadable is no sign-in.
Stored == file = "pair"

\* RandomBase64Url(32): a nonce nobody has used, here the number of its start.
Nonce == starts + 1

\* HttpsRequest: no answer, an answer with an error status, or a body, which may
\* lack the field that is looked for.
Outcomes == {"unreachable", "error", "body"}

Init ==
  /\ \/ file = "none" /\ fileToken = 0 /\ issued = 0 /\ live = {}
     \/ file = "pair" /\ fileToken = 1 /\ issued = 1 /\ live = {1}
  /\ pending = 0 /\ holder = Nobody
  /\ signedIn = Stored
  /\ main = "card" /\ mainToken = 0 /\ retried = FALSE
  /\ client = [c \in Clients |-> "idle"] /\ clientToken = [c \in Clients |-> 0]
  /\ starts = 0 /\ crashes = 0 /\ spent = {} /\ lost = FALSE

MainGoes(p) == main' = p
ClientGoes(c, p) == client' = [client EXCEPT ![c] = p]

----------------------------------------------------------------------------
(* The control server's threads. *)

\* BeginSignIn: a new nonce; a sign-in begun earlier can no longer land.
BeginSignIn ==
  /\ holder = Nobody /\ starts < MaxStarts
  /\ starts' = Nonce
  /\ pending' = Nonce
  /\ spent' = spent \cup (1 .. starts)
  /\ UNCHANGED <<fileVars, holder, signedIn, mainVars, clientVars, zoomVars, crashes, lost>>

PendingAfterSignOut == 0

\* The signout verb: SignOut, then the flag.
SignOut(c) ==
  /\ client[c] = "idle" /\ holder = Nobody
  /\ pending' = PendingAfterSignOut
  /\ file' = "none" /\ fileToken' = 0
  /\ spent' = spent \cup (1 .. starts)
  /\ lost' = FALSE
  /\ ClientGoes(c, "off")
  /\ UNCHANGED <<holder, signedIn, mainVars, clientToken, zoomVars, starts, crashes>>

PendingAfterMatch_Kept(s) == s  \* mutant: a callback can be replayed
PendingAfterMatch(s) == 0

\* HandleCallback up to the redeem, for a callback naming start s. One with an
\* error, another state or no broker token changes nothing.
Callback(c, s) ==
  /\ client[c] = "idle" /\ holder = Nobody
  /\ pending # 0 /\ s = pending
  /\ pending' = PendingAfterMatch(s)
  /\ spent' = spent \cup {s}
  /\ holder' = c
  /\ ClientGoes(c, "redeem")
  /\ UNCHANGED <<fileVars, signedIn, mainVars, clientToken, zoomVars, starts, crashes, lost>>

\* Zoom issues a refresh token.
Issues == issued < MaxTokens /\ issued' = issued + 1

ClientGivesUp(c) == ClientGoes(c, "idle") /\ holder' = Nobody /\ UNCHANGED clientToken

\* The redeem: refused or unreachable, or a token pair, which may lack a
\* refresh token.
Redeem(c) ==
  /\ client[c] = "redeem"
  /\ \E answer \in Outcomes :
     \/ ClientGivesUp(c) /\ UNCHANGED zoomVars
     \/ /\ answer = "body" /\ ClientGoes(c, "save")
        /\ \/ Issues /\ live' = live \cup {issued + 1}
              /\ clientToken' = [clientToken EXCEPT ![c] = issued + 1]
           \/ clientToken' = [clientToken EXCEPT ![c] = 0] /\ UNCHANGED zoomVars
        /\ UNCHANGED holder
  /\ UNCHANGED <<fileVars, pending, signedIn, mainVars, starts, crashes, spent, lost>>

\* SaveTokens truncates the file, then writes it; either may fail. A callback
\* whose save fails is a failed sign-in, and the old file may be gone with it.
ClientSaves(c) ==
  /\ client[c] = "save"
  /\ \/ file' = "torn" /\ fileToken' = 0
        /\ ClientGoes(c, "write") /\ UNCHANGED <<holder, clientToken>>
     \/ ClientGivesUp(c) /\ UNCHANGED fileVars
  /\ UNCHANGED <<pending, signedIn, mainVars, zoomVars, starts, crashes, spent, lost>>

ClientWrites(c) ==
  /\ client[c] = "write"
  /\ holder' = Nobody
  /\ UNCHANGED clientToken
  /\ \/ file' = "pair" /\ fileToken' = clientToken[c]
        /\ lost' = (clientToken[c] \notin live \cup {0})
        /\ ClientGoes(c, "on")
     \/ lost' = TRUE /\ ClientGoes(c, "idle") /\ UNCHANGED fileVars
  /\ UNCHANGED <<pending, signedIn, mainVars, zoomVars, starts, crashes, spent>>

\* signed_in.store, after m_ was released.
ClientStores(c) ==
  /\ client[c] \in {"on", "off"}
  /\ signedIn' = (client[c] = "on")
  /\ ClientGoes(c, "idle")
  /\ UNCHANGED <<fileVars, pending, holder, mainVars, clientToken, zoomVars, starts,
                 crashes, spent, lost>>

----------------------------------------------------------------------------
(* The main thread: a join and its credentials. *)

\* A pasted link; the join card shows only while signed_in.
Join ==
  /\ main = "card" /\ signedIn
  /\ MainGoes("load")
  /\ UNCHANGED <<fileVars, pending, holder, signedIn, mainToken, retried, clientVars,
                 zoomVars, starts, crashes, spent, lost>>

\* A session is over, whatever it was.
SessionEnds ==
  /\ main = "session"
  /\ MainGoes("card")
  /\ UNCHANGED <<fileVars, pending, holder, signedIn, mainToken, retried, clientVars,
                 zoomVars, starts, crashes, spent, lost>>

\* EnsureJoinCredentials returned false: m_ is free, the flag is looked at.
MainGivesUp == MainGoes("check") /\ holder' = Nobody

\* Under m_: the file is loaded; an expired access token is refreshed first.
Load ==
  /\ main = "load" /\ holder = Nobody
  /\ retried' = FALSE
  /\ mainToken' = IF Stored THEN fileToken ELSE 0
  /\ IF Stored
     THEN holder' = MainThread /\ (MainGoes("refresh") \/ MainGoes("jwt"))
     ELSE MainGoes("check") /\ UNCHANGED holder
  /\ UNCHANGED <<fileVars, pending, signedIn, clientVars, zoomVars, starts, crashes, spent, lost>>

\* What an answered refresh leaves in t: the new token, if it carried one.
TokenAfterRefresh_Old(old, new) == old  \* mutant: the rotated token is dropped
TokenAfterRefresh(old, new) == IF new = 0 THEN old ELSE new

\* ClearTokens belongs to invalid_grant alone: a retry can never recover it.
ClearsTokens_OnAnyFailure(invalidGrant) == TRUE  \* mutant: on any refusal
ClearsTokens(invalidGrant) == invalidGrant

RefreshRefused(invalidGrant) ==
  /\ IF ClearsTokens(invalidGrant)
     THEN file' = "none" /\ fileToken' = 0
     ELSE UNCHANGED fileVars
  /\ MainGivesUp
  /\ UNCHANGED <<mainToken, zoomVars, lost>>

\* Zoom rotates. The answer may be lost on the way back, or lack the access
\* token: then RefreshLocked returns before it saves.
RefreshRotates ==
  /\ mainToken \in live /\ Issues
  /\ live' = (live \ {mainToken}) \cup {issued + 1}
  /\ UNCHANGED fileVars
  /\ \/ /\ mainToken' = TokenAfterRefresh(mainToken, issued + 1)
        /\ MainGoes("save") /\ UNCHANGED <<holder, lost>>
     \/ lost' = TRUE /\ MainGivesUp /\ UNCHANGED mainToken

\* An answer without a new refresh token: the old one stays good.
RefreshKeeps ==
  /\ mainToken \in live
  /\ mainToken' = TokenAfterRefresh(mainToken, 0)
  /\ MainGoes("save")
  /\ UNCHANGED <<fileVars, holder, zoomVars, lost>>

\* RefreshLocked up to the save.
Refresh ==
  /\ main = "refresh"
  /\ \/ RefreshRefused(FALSE)   \* no refresh token, unreachable, or an error
     \/ mainToken # 0 /\ mainToken \notin live /\ RefreshRefused(TRUE)
     \/ RefreshRotates
     \/ RefreshKeeps
  /\ UNCHANGED <<pending, signedIn, retried, clientVars, starts, crashes, spent>>

\* SaveTokens again, its result ignored: the join goes on with what is in t.
MainSaves ==
  /\ main = "save"
  /\ \/ file' = "torn" /\ fileToken' = 0 /\ MainGoes("write") /\ UNCHANGED lost
     \/ lost' = TRUE /\ MainGoes("jwt") /\ UNCHANGED fileVars
  /\ UNCHANGED <<pending, holder, signedIn, mainToken, retried, clientVars, zoomVars, starts,
                 crashes, spent>>

MainWrites ==
  /\ main = "write"
  /\ MainGoes("jwt")
  /\ \/ file' = "pair" /\ fileToken' = mainToken /\ UNCHANGED lost
     \/ lost' = TRUE /\ UNCHANGED fileVars
  /\ UNCHANGED <<pending, holder, signedIn, mainToken, retried, clientVars, zoomVars, starts,
                 crashes, spent>>

\* The SDK token: a first refusal is worth one refresh and one more try.
AskJwt ==
  /\ main = "jwt"
  /\ \E answer \in Outcomes :
     \/ answer = "body" /\ MainGoes("zak") /\ UNCHANGED <<holder, retried>>
     \/ answer = "error" /\ ~retried /\ retried' = TRUE /\ MainGoes("refresh") /\ UNCHANGED holder
     \/ (answer = "error" => retried) /\ MainGivesUp /\ UNCHANGED retried
  /\ UNCHANGED <<fileVars, pending, signedIn, mainToken, clientVars, zoomVars, starts,
                 crashes, spent, lost>>

AskZak ==
  /\ main = "zak"
  /\ \E answer \in Outcomes :
     \/ answer = "body" /\ MainGoes("session") /\ holder' = Nobody
     \/ MainGivesUp
  /\ UNCHANGED <<fileVars, pending, signedIn, mainToken, retried, clientVars, zoomVars,
                 starts, crashes, spent, lost>>

\* After a failed attempt main looks at the store, under m_, ...
DropsFlag == ~Stored

Check ==
  /\ main = "check" /\ holder = Nobody
  /\ MainGoes(IF DropsFlag THEN "drop" ELSE "card")
  /\ UNCHANGED <<fileVars, pending, holder, signedIn, mainToken, retried, clientVars,
                 zoomVars, starts, crashes, spent, lost>>

\* ... and without m_ drops the flag: the panel is back at the sign-in card.
Drop ==
  /\ main = "drop"
  /\ signedIn' = FALSE
  /\ MainGoes("card")
  /\ UNCHANGED <<fileVars, pending, holder, mainToken, retried, clientVars, zoomVars, starts,
                 crashes, spent, lost>>

----------------------------------------------------------------------------
(* Crashes and Zoom. *)

\* A token that was rotated, or truncated away, and not written yet.
Unwritten ==
  \/ main \in {"save", "write"}
  \/ \E c \in Clients : client[c] = "write"

\* The process dies and is started again: the store decides the flag.
Crash ==
  /\ crashes < MaxCrashes
  /\ crashes' = crashes + 1
  /\ pending' = 0 /\ holder' = Nobody
  /\ signedIn' = Stored
  /\ main' = "card" /\ mainToken' = 0 /\ retried' = FALSE
  /\ client' = [c \in Clients |-> "idle"] /\ clientToken' = [c \in Clients |-> 0]
  /\ spent' = spent \cup (1 .. starts)
  /\ lost' = (lost \/ Unwritten)
  /\ UNCHANGED <<fileVars, zoomVars, starts>>

\* The operator, or an administrator, revokes the app at Zoom (external).
Revoke ==
  /\ live # {}
  /\ live' = {} /\ lost' = TRUE
  /\ UNCHANGED <<fileVars, pending, holder, signedIn, mainVars, clientVars, issued, starts,
                 crashes, spent>>

----------------------------------------------------------------------------
Main == Load \/ Refresh \/ MainSaves \/ MainWrites \/ AskJwt \/ AskZak \/ Check \/ Drop
ClientSteps(c) == Redeem(c) \/ ClientSaves(c) \/ ClientWrites(c) \/ ClientStores(c)

Next ==
  \/ BeginSignIn
  \/ \E c \in Clients : SignOut(c) \/ ClientSteps(c) \/ \E s \in Starts : Callback(c, s)
  \/ Join \/ SessionEnds \/ Main
  \/ Crash \/ Revoke

Spec == Init /\ [][Next]_vars

\* Every HTTPS request has WinHTTP's timeouts, so whoever holds m_ goes on. The
\* operator's own steps (joining, signing in and out) are not fair.
FairSpec == Spec /\ WF_vars(Main) /\ \A c \in Clients : WF_vars(ClientSteps(c))

----------------------------------------------------------------------------
(* Properties. *)

DataOK ==
  /\ file \in {"none", "torn", "pair"} /\ fileToken \in 0 .. MaxTokens
  /\ pending \in 0 .. MaxStarts /\ starts \in 0 .. MaxStarts /\ spent \subseteq Starts
  /\ holder \in Clients \cup {Nobody, MainThread}
  /\ main \in MainAt /\ mainToken \in 0 .. MaxTokens
  /\ client \in [Clients -> ClientAt] /\ clientToken \in [Clients -> 0 .. MaxTokens]
  /\ issued \in 0 .. MaxTokens /\ live \subseteq 1 .. issued
  /\ crashes \in 0 .. MaxCrashes

FlagsOK == signedIn \in BOOLEAN /\ retried \in BOOLEAN /\ lost \in BOOLEAN

TypeOK == DataOK /\ FlagsOK

\* The refresh token at rest is one Zoom would still take, or the app is about
\* to replace it, unless an answer, a save or the process was lost between
\* Zoom's rotation and the file, or Zoom revoked it: "Zoom rotates refresh
\* tokens and revokes superseded generations".
StoredIsLive ==
  Stored /\ fileToken # 0 /\ ~lost /\ main # "save" => fileToken \in live

\* The operator's sign-in is deleted behind their back only when it is dead: a
\* broker out of reach, an error or a refused SDK token does not cost it.
KeepsSignIn == [][main = "refresh" /\ Stored /\ file' = "none" => lost]_vars

\* One sign-in for each start, and only the newest one: a callback that is
\* replayed, that belongs to a start since replaced, or that comes after a
\* sign-out, is refused.
OneUsePerStart ==
  [][\A c \in Clients :
       client[c] = "idle" /\ client'[c] = "redeem" => pending = starts /\ pending \notin spent]_vars

\* "signed_in mirrors the token store": with no operation under way, and no
\* token lost, the flag says what the store holds. TLC refutes it: the join's look at
\* the store and its write of the flag are two steps.
FlagMirrorsStore ==
  /\ main \in {"card", "session"} /\ \A c \in Clients : client[c] = "idle"
  /\ ~lost
  => (signedIn <=> Stored)
=============================================================================
