---------------------------- MODULE ClientLogin ----------------------------
(* The saved login of the command line client (mjolnir_api/src/auth.rs) and   *)
(* the calls that use it (mjolnir_client/src/connect.rs, open_pty_ws).        *)
(* Every mj process, and every GUI that embeds the crate, shares one          *)
(* token.json.  The issuer may rotate the refresh token at each use, so a     *)
(* refresh that presents one already used is refused: read, refresh and       *)
(* replace are one critical section under a lock file.                        *)
EXTENDS Naturals, FiniteSets

CONSTANTS
    Users,        \* the processes
    NoToken,      \* no token.json / no credential in hand
    MaxSession,   \* bound on how many credentials the issuer hands out
    LoginMenus    \* per behaviour: what each process does, and the faults left

ASSUME NoTokenIsNone == NoToken \notin Users \cup Nat

ASSUME MaxSessionPositive == MaxSession \in Nat \ {0}

\* A saved login is the issuer's first credential.
ASSUME LoginMenusTyped ==
    LoginMenus \subseteq [jobs : [Users -> {"connect", "login", "switch", "logout", "none"}],
                          saved : {NoToken, 1}, faults : Nat, sleeps : Nat, rotates : BOOLEAN]

VARIABLES
    tokenFile,    \* token.json: a credential, or NoToken
    lockedBy,     \* who holds token.lock; nobody is NoToken
    issuer,       \* [next, live]: the next credential, the refresh tokens it honours
    stale,        \* the access tokens whose expiry has passed
    user,         \* user[u]: [pc, cred, goal]
    broken,       \* an answer was lost between the issuer and token.json
    signedOut,    \* the last completed login or logout was a logout
    loginMenu

loginVars == <<tokenFile, lockedBy, issuer, stale, user, broken, signedOut, loginMenu>>

\* A credential is one number: the access token and the refresh token an
\* issuer handed out together.
Credentials == 1 .. MaxSession

GoesTo(u, pc) == user' = [user EXCEPT ![u].pc = pc]

\* The guard of lock_token goes out of scope on every return.
Leave(u, pc) == /\ lockedBy' = NoToken
                /\ GoesTo(u, pc)

\* load_saved_token turns every error into no token: login then opens the
\* browser, a first handshake goes out without one, a forced renewal ends.
NoSession(u) ==
    user' = [user EXCEPT ![u].cred = NoToken,
                         ![u].pc = CASE loginMenu.jobs[u] = "login" -> "browser"
                                     [] user[u].goal = "force" -> "failed"
                                     [] OTHER -> "use"]

FaultLeft == /\ loginMenu.faults > 0
             /\ loginMenu' = [loginMenu EXCEPT !.faults = @ - 1]

----------------------------------------------------------------------------
(* What a process runs.                                                       *)

\* mj connect (resolve_token then the handshake), mj login, mj logout.  login
\* first looks at the file without the lock: without one, or with another
\* issuer's ("switch"), it goes straight to the browser.
Begin(u) ==
    /\ user[u].pc = "start"
    /\ GoesTo(u, CASE loginMenu.jobs[u] = "connect" -> "lock"
                   [] loginMenu.jobs[u] = "login" /\ tokenFile # NoToken -> "lock"
                   [] loginMenu.jobs[u] = "login" /\ tokenFile = NoToken -> "browser"
                   [] loginMenu.jobs[u] = "switch" -> "browser"
                   [] loginMenu.jobs[u] = "logout" -> "lock"
                   [] OTHER -> "done")
    /\ UNCHANGED <<tokenFile, lockedBy, issuer, stale, broken, signedOut, loginMenu>>

\* load_token_at and logout wait for the lock file.
lock_token(u) ==
    /\ user[u].pc \in {"lock", "lock_save"}
    /\ lockedBy = NoToken
    /\ lockedBy' = u
    /\ GoesTo(u, CASE user[u].pc = "lock_save" -> "save"
                   [] user[u].pc = "lock" /\ loginMenu.jobs[u] = "logout" -> "remove"
                   [] OTHER -> "read")
    /\ UNCHANGED <<tokenFile, issuer, stale, broken, signedOut, loginMenu>>

\* What load_token_at found: nothing, a token still good, or one to renew.
\* A forced renewal (the handshake's 401) ignores the expiry.
is_expired(cred) == cred \in stale

\* Mutant: the lock is given back before the refresh.
LoadTokenUnlocked(u) ==
    /\ user[u].pc = "read"
    /\ lockedBy' = NoToken
    /\ \/ tokenFile = NoToken /\ NoSession(u)
       \/ /\ tokenFile # NoToken /\ ~is_expired(tokenFile) /\ user[u].goal # "force"
          /\ user' = [user EXCEPT ![u].cred = tokenFile,
                        ![u].pc = IF loginMenu.jobs[u] = "login" THEN "done" ELSE "use"]
       \/ /\ tokenFile # NoToken /\ (is_expired(tokenFile) \/ user[u].goal = "force")
          /\ user' = [user EXCEPT ![u].cred = tokenFile, ![u].pc = "refresh"]
    /\ UNCHANGED <<tokenFile, issuer, stale, broken, signedOut, loginMenu>>

load_token_at(u) ==
    /\ user[u].pc = "read"
    /\ \/ /\ tokenFile = NoToken
          /\ lockedBy' = NoToken
          /\ NoSession(u)
       \/ /\ tokenFile # NoToken
          /\ ~is_expired(tokenFile)
          /\ user[u].goal # "force"
          /\ lockedBy' = NoToken
          /\ user' = [user EXCEPT ![u].cred = tokenFile,
                        ![u].pc = IF loginMenu.jobs[u] = "login" THEN "done" ELSE "use"]
       \/ /\ tokenFile # NoToken
          /\ is_expired(tokenFile) \/ user[u].goal = "force"
          /\ user' = [user EXCEPT ![u].cred = tokenFile, ![u].pc = "refresh"]
          /\ UNCHANGED lockedBy
    /\ UNCHANGED <<tokenFile, issuer, stale, broken, signedOut, loginMenu>>

\* The issuer honours the refresh token it last handed out for the session.
\* One that rotates hands out a new one and forgets the old; one that does
\* not answers without a refresh token and into_stored keeps the previous.
\* Either way the access token is new: the pair is a new credential.
Rotates(cred) ==
    /\ cred \in issuer.live
    /\ issuer.next <= MaxSession
    /\ issuer' = [next |-> issuer.next + 1,
                  live |-> (issuer.live \ (IF loginMenu.rotates THEN {cred} ELSE {}))
                              \cup {issuer.next}]

refresh_token(u) ==
    /\ user[u].pc = "refresh"
    /\ Rotates(user[u].cred)
    /\ user' = [user EXCEPT ![u].cred = issuer.next, ![u].pc = "store"]
    /\ UNCHANGED <<tokenFile, lockedBy, stale, broken, signedOut, loginMenu>>

\* invalid_grant: the saved file is kept and the command has no token.
RefreshRefused(u) ==
    /\ user[u].pc = "refresh"
    /\ user[u].cred \notin issuer.live
    /\ lockedBy' = NoToken
    /\ NoSession(u)
    /\ UNCHANGED <<tokenFile, issuer, stale, broken, signedOut, loginMenu>>

\* The login service cannot be reached, or its answer never arrives: then
\* the rotation has happened and only the issuer knows the new token.
RefreshLost(u) ==
    /\ user[u].pc = "refresh"
    /\ FaultLeft
    /\ \/ UNCHANGED <<issuer, broken>>
       \/ /\ Rotates(user[u].cred)
          /\ broken' = TRUE
    /\ lockedBy' = NoToken
    /\ NoSession(u)
    /\ UNCHANGED <<tokenFile, stale, signedOut>>

\* The temporary file is written, synced and renamed over token.json.
save_to(u) ==
    /\ user[u].pc \in {"store", "save"}
    /\ tokenFile' = user[u].cred
    /\ signedOut' = IF user[u].pc = "save" THEN FALSE ELSE signedOut
    /\ broken' = IF user[u].pc = "save" THEN FALSE ELSE broken
    /\ Leave(u, IF loginMenu.jobs[u] = "connect" THEN "use" ELSE "done")
    /\ UNCHANGED <<issuer, stale, loginMenu>>

\* The disk refuses: the temporary file is removed and the old one stays, after
\* the issuer has already rotated; or the directory cannot be synced, after the
\* new one is in place.
SaveFails(u) ==
    /\ user[u].pc \in {"store", "save"}
    /\ FaultLeft
    /\ \/ /\ broken' = (broken \/ user[u].pc = "store")
          /\ UNCHANGED <<tokenFile, signedOut>>
       \/ /\ tokenFile' = user[u].cred
          /\ signedOut' = IF user[u].pc = "save" THEN FALSE ELSE signedOut
          /\ broken' = IF user[u].pc = "save" THEN FALSE ELSE broken
    /\ lockedBy' = NoToken
    /\ IF user[u].pc = "store" THEN NoSession(u) ELSE GoesTo(u, "failed")
    /\ UNCHANGED <<issuer, stale>>

\* The browser or the device grant: a new session at the issuer, then
\* StoredToken::save takes the lock.
login(u) ==
    /\ user[u].pc = "browser"
    /\ \/ /\ issuer.next <= MaxSession
          /\ issuer' = [next |-> issuer.next + 1, live |-> issuer.live \cup {issuer.next}]
          /\ user' = [user EXCEPT ![u].cred = issuer.next, ![u].pc = "lock_save"]
       \/ /\ GoesTo(u, "failed")
          /\ UNCHANGED issuer
    /\ UNCHANGED <<tokenFile, lockedBy, stale, broken, signedOut, loginMenu>>

logout(u) ==
    /\ user[u].pc = "remove"
    /\ tokenFile' = NoToken
    /\ signedOut' = TRUE
    /\ Leave(u, "done")
    /\ UNCHANGED <<issuer, stale, broken, loginMenu>>

\* connect_with_token.  The API takes a token that has not expired; a 401
\* forces one renewal, and a second 401 is the end.
Accepted(cred) == cred # NoToken /\ cred \notin stale

open_pty_ws(u) ==
    /\ user[u].pc = "use"
    /\ user[u].goal # "force"
    /\ \/ /\ Accepted(user[u].cred)
          /\ GoesTo(u, "done")
       \/ /\ ~Accepted(user[u].cred)
          /\ user[u].goal = "first"
          /\ user' = [user EXCEPT ![u].pc = "lock", ![u].goal = "force"]
       \/ /\ ~Accepted(user[u].cred)
          /\ user[u].goal = "again"
          /\ GoesTo(u, "failed")
    /\ UNCHANGED <<tokenFile, lockedBy, issuer, stale, broken, signedOut, loginMenu>>

\* After the forced renewal the token is resolved again from the file, which
\* another process may have replaced or removed by then.
resolve_token(u) ==
    /\ user[u].pc = "use"
    /\ user[u].goal = "force"
    /\ user' = [user EXCEPT ![u].pc = "lock", ![u].goal = "again"]
    /\ UNCHANGED <<tokenFile, lockedBy, issuer, stale, broken, signedOut, loginMenu>>

----------------------------------------------------------------------------
(* Time and death.                                                            *)

\* The laptop slept: every access token handed out so far has expired.
Expire ==
    /\ loginMenu.sleeps > 0
    /\ stale' = 1 .. (issuer.next - 1)
    /\ loginMenu' = [loginMenu EXCEPT !.sleeps = @ - 1]
    /\ UNCHANGED <<tokenFile, lockedBy, issuer, user, broken, signedOut>>

\* Ctrl-C: the operating system drops the lock.  Between the issuer's answer
\* and the rename the rotated token dies with the process.
Killed(u) ==
    /\ user[u].pc \notin {"start", "done", "failed"}
    /\ FaultLeft
    /\ broken' = (broken \/ user[u].pc = "store")
    /\ lockedBy' = IF lockedBy = u THEN NoToken ELSE lockedBy
    /\ GoesTo(u, "failed")
    /\ UNCHANGED <<tokenFile, issuer, stale, signedOut>>

LoginInit ==
    /\ loginMenu \in LoginMenus
    /\ tokenFile = loginMenu.saved
    /\ lockedBy = NoToken
    /\ issuer = IF tokenFile = NoToken THEN [next |-> 1, live |-> {}]
                ELSE [next |-> 2, live |-> {1}]
    /\ stale = {}
    /\ user = [u \in Users |-> [pc |-> "start", cred |-> NoToken, goal |-> "first"]]
    /\ broken = FALSE
    /\ signedOut = (tokenFile = NoToken)

LoginNext ==
    \/ Expire
    \/ \E u \in Users :
          \/ Begin(u) \/ lock_token(u) \/ load_token_at(u) \/ refresh_token(u)
          \/ RefreshRefused(u) \/ RefreshLost(u) \/ save_to(u) \/ SaveFails(u)
          \/ login(u) \/ logout(u) \/ open_pty_ws(u) \/ resolve_token(u) \/ Killed(u)

LoginSpec == LoginInit /\ [][LoginNext]_loginVars

----------------------------------------------------------------------------

\* The refresh token in token.json is one the issuer still honours whenever
\* nobody is between the issuer's answer and the rename, unless an answer was
\* lost on the way; and a logout is not undone by a renewal that was running
\* (load_token_at: "Serialize read/refresh/write across CLI processes").
SavedLoginWorks ==
    /\ tokenFile \in Credentials \cup {NoToken} /\ lockedBy \in Users \cup {NoToken}
    /\ signedOut => tokenFile = NoToken
    /\ \/ tokenFile = NoToken
       \/ tokenFile \in issuer.live
       \/ broken
       \/ \E u \in Users : user[u].pc = "store" /\ lockedBy = u
============================================================================
