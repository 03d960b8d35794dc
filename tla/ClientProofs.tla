---------------------------- MODULE ClientProofs ----------------------------
(* The mj client, for any number of processes, attempts, faults and retries:   *)
(* direct identity login (a challenge buys one credential, and only a bound    *)
(* one), the saved login under concurrent renewals, the local terminal, and    *)
(* the custom domains of sites with the index that serves them.                *)
EXTENDS DirectChallenge, ClientLogin, ClientTerminal, SiteAliases, TLAPS

(* ---- direct identity login ---- *)

ChallengeOf(a) == Submitted(a).challenge

ChallengeTypes ==
    /\ WellFormed(chMenu)
    /\ issued \in [Challenges -> {"open", "expired", "used"}]
    /\ attempt \in [Attempts -> {"submitted", "identity", "bind", "channel", "policy", "issued", "refused"}]
    /\ credentials \subseteq Attempts

\* What the checks an attempt has passed have shown.
ChecksInv ==
    \A a \in Attempts :
       /\ attempt[a] \in {"bind", "channel", "policy"} => Bound(a)
       /\ attempt[a] \in {"channel", "policy"} => Binding(a)
       /\ attempt[a] = "policy" => Submitted(a).allowed

CredentialsInv ==
    \A a \in credentials :
       /\ Bound(a) /\ Binding(a) /\ Submitted(a).allowed
       /\ issued[ChallengeOf(a)] = "used"

SpentInv ==
    /\ \A c \in Challenges : issued[c] = "used" => \E a \in credentials : ChallengeOf(a) = c
    /\ \A a, b \in credentials : ChallengeOf(a) = ChallengeOf(b) => a = b

ChallengeInv == ChallengeTypes /\ ChecksInv /\ CredentialsInv /\ SpentInv

----------------------------------------------------------------------------

\* The initial states: nothing is spent, nothing is issued.
LEMMA InitChallengeInv == ChallengeInit => ChallengeInv
  BY Zenon, MenusWellFormed DEF ChallengeInit, ChallengeInv, ChallengeTypes, ChecksInv, CredentialsInv, SpentInv

\* A step that only changes the budgets keeps every submission.
LEMMA ChallengeBudgetsOnly ==
  ASSUME WellFormed(chMenu), NEW n,
         \/ chMenu' = chMenu
         \/ chMenu' = [chMenu EXCEPT !.faults = n]
         \/ chMenu' = [chMenu EXCEPT !.retries = n]
  PROVE  WellFormed(chMenu') /\ chMenu'.submits = chMenu.submits
<1>1. chMenu'.submits = chMenu.submits
  BY Zenon DEF WellFormed
<1>2. chMenu' = [submits |-> chMenu'.submits, faults |-> chMenu'.faults, retries |-> chMenu'.retries]
  BY Zenon DEF WellFormed
<1> QED
  BY Zenon, <1>1, <1>2 DEF WellFormed

\* Every step keeps the invariant.
LEMMA NextChallengeInv == ChallengeInv /\ [ChallengeNext]_challengeVars => ChallengeInv'
<1> SUFFICES ASSUME ChallengeInv, [ChallengeNext]_challengeVars PROVE ChallengeInv'
  BY Zenon
<1> USE DEF ChallengeInv
<1>0. WellFormed(chMenu') /\ chMenu'.submits = chMenu.submits
  <2>1. \E n : \/ chMenu' = chMenu
               \/ chMenu' = [chMenu EXCEPT !.faults = n]
               \/ chMenu' = [chMenu EXCEPT !.retries = n]
    BY Zenon DEF ChallengeNext, challengeVars, verify_and_issue, Identity, Bind, Channel, Policy, commit,
           CommitFails, Retry, Expires, EndpointRestart
  <2> QED
    BY Zenon, <2>1, ChallengeBudgetsOnly DEF ChallengeTypes
<1>S. \A a : Submitted(a)' = Submitted(a)
  BY Zenon, <1>0 DEF Submitted
<1>B. \A a : (Bound(a))' = Bound(a) /\ (Binding(a))' = Binding(a) /\ (ChallengeOf(a))' = ChallengeOf(a)
  BY Zenon, <1>S DEF Bound, Binding, ChallengeOf
<1>1. ASSUME NEW a \in Attempts, Identity(a) \/ Bind(a) \/ Channel(a) \/ Policy(a) \/ CommitFails(a) \/ Retry(a)
      PROVE  ChallengeInv'
  <2>1. UNCHANGED <<issued, credentials>>
    BY Zenon, <1>1 DEF Identity, Bind, Channel, Policy, CommitFails, Retry
  <2>2. ChallengeTypes'
    BY Zenon, <1>0, <1>1, <2>1 DEF ChallengeTypes, Identity, Bind, Channel, Policy, CommitFails, Retry, Reaches
  <2>3. ChecksInv'
    BY <1>1, <1>S, <1>B DEF ChallengeTypes, ChecksInv, Identity, Bind, Channel, Policy, CommitFails, Retry, Reaches
  <2>4. CredentialsInv' /\ SpentInv'
    BY Zenon, <2>1, <1>S, <1>B DEF CredentialsInv, SpentInv
  <2> QED
    BY Zenon, <2>2, <2>3, <2>4
<1>2. ASSUME NEW a \in Attempts, commit(a)
      PROVE  ChallengeInv'
  <2>1. ChallengeOf(a) \in Challenges
    BY Zenon DEF ChallengeTypes, WellFormed, ChallengeOf, Submitted
  <2>2. CASE issued[ChallengeOf(a)] = "open" /\ issued' = [issued EXCEPT ![ChallengeOf(a)] = "used"]
             /\ credentials' = credentials \cup {a} /\ Reaches(a, "issued")
    <3>1. ChallengeTypes'
      BY Zenon, <1>0, <2>1, <2>2 DEF ChallengeTypes, Reaches
    <3>2. ChecksInv'
      BY Zenon, <1>S, <1>B, <2>2 DEF ChallengeTypes, ChecksInv, Reaches
    <3>3. CredentialsInv'
      <4>1. Bound(a) /\ Binding(a) /\ Submitted(a).allowed
        BY Zenon, <1>2 DEF ChecksInv, commit
      <4>2. \A b \in credentials' : issued'[ChallengeOf(b)] = "used"
        BY <2>1, <2>2 DEF ChallengeTypes, CredentialsInv
      <4> QED
        BY Zenon, <4>1, <4>2, <1>S, <1>B, <2>2 DEF CredentialsInv
    <3>4. SpentInv'
      <4>1. \A b \in credentials : ChallengeOf(b) # ChallengeOf(a)
        BY Zenon, <2>2 DEF CredentialsInv
      <4> QED
        BY Zenon, <4>1, <1>B, <2>1, <2>2 DEF SpentInv, ChallengeTypes
    <3> QED
      BY Zenon, <3>1, <3>2, <3>3, <3>4
  <2>3. CASE Reaches(a, "refused") /\ UNCHANGED <<issued, credentials>>
    <3>1. ChallengeTypes'
      BY Zenon, <1>0, <2>3 DEF ChallengeTypes, Reaches
    <3>2. ChecksInv'
      BY Zenon, <1>S, <1>B, <2>3 DEF ChallengeTypes, ChecksInv, Reaches
    <3>3. CredentialsInv' /\ SpentInv'
      BY Zenon, <1>S, <1>B, <2>3 DEF CredentialsInv, SpentInv
    <3> QED
      BY Zenon, <3>1, <3>2, <3>3
  <2> QED
    BY Zenon, <1>2, <2>2, <2>3 DEF commit, check_issued, ChallengeOf
<1>3. ASSUME NEW c \in Challenges, Expires(c)
      PROVE  ChallengeInv'
  <2>1. ChallengeTypes' /\ ChecksInv'
    BY Zenon, <1>0, <1>3, <1>S, <1>B DEF ChallengeTypes, ChecksInv, Expires
  <2>2. \A d \in Challenges : issued'[d] = "used" <=> issued[d] = "used"
    BY Zenon, <1>3 DEF Expires, ChallengeTypes
  <2>3. \A a \in credentials : ChallengeOf(a) \in Challenges
    BY Zenon DEF ChallengeTypes, WellFormed, ChallengeOf, Submitted
  <2>4. CredentialsInv' /\ SpentInv'
    BY Zenon, <1>3, <1>S, <1>B, <2>2, <2>3 DEF CredentialsInv, SpentInv, Expires
  <2> QED
    BY Zenon, <2>1, <2>4
<1>4. ASSUME EndpointRestart
      PROVE  ChallengeInv'
  <2>1. ChallengeTypes' /\ ChecksInv'
    BY Zenon, <1>0, <1>4, <1>S, <1>B DEF ChallengeTypes, ChecksInv, EndpointRestart
  <2>2. CredentialsInv' /\ SpentInv'
    BY Zenon, <1>4, <1>S, <1>B DEF CredentialsInv, SpentInv, EndpointRestart
  <2> QED
    BY Zenon, <2>1, <2>2
<1>5. CASE UNCHANGED challengeVars
  BY Zenon, <1>0, <1>5, <1>S, <1>B DEF ChallengeTypes, ChecksInv, CredentialsInv, SpentInv, challengeVars
<1> QED
  BY Zenon, <1>1, <1>2, <1>3, <1>4, <1>5 DEF ChallengeNext, verify_and_issue

----------------------------------------------------------------------------

\* The invariant implies the property.
LEMMA ChallengeInvImplies == ChallengeInv => SpentOnceAndBound
<1> SUFFICES ASSUME ChallengeInv PROVE SpentOnceAndBound
  BY Zenon
<1>1. /\ \A c \in Challenges : issued[c] = "used" <=> \E a \in credentials : Submitted(a).challenge = c
      /\ \A a, b \in credentials : Submitted(a).challenge = Submitted(b).challenge => a = b
  BY Zenon DEF ChallengeInv, CredentialsInv, SpentInv, ChallengeOf
<1>2. ASSUME NEW a \in credentials
      PROVE  /\ Submitted(a).bind = [by |-> Submitted(a).holder, keyFits |-> TRUE,
                                     challenge |-> Submitted(a).challenge, conn |-> Submitted(a).conn]
             /\ Submitted(a).edge = PinnedEdge
             /\ Submitted(a).allowed
  <2>1. Bound(a) /\ Binding(a) /\ Submitted(a).allowed
    BY Zenon DEF ChallengeInv, CredentialsInv
  <2>2. LET b == Submitted(a).bind
        IN  /\ b.keyFits \in BOOLEAN
            /\ b = [by |-> b.by, keyFits |-> b.keyFits, challenge |-> b.challenge, conn |-> b.conn]
    BY Zenon DEF ChallengeInv, ChallengeTypes, WellFormed, Submitted
  <2>3. Submitted(a).bind.keyFits = TRUE
    BY Zenon, <2>1, <2>2 DEF Bound
  <2> QED
    BY Zenon, <2>1, <2>2, <2>3 DEF Bound, Binding
<1> QED
  BY Zenon, <1>1, <1>2 DEF SpentOnceAndBound

\* In every behaviour a challenge is spent by exactly one credential, and every
\* credential is bound by its identity's own key to the connection it came on,
\* for any number of racing attempts, retries, faults and restarts.
THEOREM SpentOnceAndBoundHolds == ChallengeSpec => []SpentOnceAndBound
<1>1. ChallengeSpec => []ChallengeInv
  BY InitChallengeInv, NextChallengeInv, PTL DEF ChallengeSpec
<1> QED
  BY <1>1, ChallengeInvImplies, PTL

----------------------------------------------------------------------------
(* ---- the saved login ---- *)

\* Everyone's place in the code, and the credential in hand.
LoginStages == {"start", "lock", "browser", "read", "refresh", "store", "use", "lock_save", "save", "remove",
           "done", "failed"}
Holders == [pc : LoginStages, cred : Nat \cup {NoToken}, goal : {"first", "force", "again"}]
LoginMenuTypes == [jobs : [Users -> {"connect", "login", "switch", "logout", "none"}],
                   saved : {NoToken, 1}, faults : Nat, sleeps : Nat, rotates : BOOLEAN]

LoginTypes ==
    /\ loginMenu \in LoginMenuTypes
    /\ user \in [Users -> Holders]
    /\ issuer \in [next : 1..(MaxSession + 1), live : SUBSET Nat]
    /\ \A c \in issuer.live : 1 <= c /\ c < issuer.next
    /\ tokenFile = NoToken \/ (tokenFile \in Nat /\ 1 <= tokenFile /\ tokenFile < issuer.next)
    /\ lockedBy \in Users \cup {NoToken}
    /\ broken \in BOOLEAN /\ signedOut \in BOOLEAN

\* Whoever is in the critical section holds the lock file.
InSection(u) == user[u].pc \in {"read", "refresh", "store", "save", "remove"}
LockInv == \A u \in Users : InSection(u) => lockedBy = u

\* A credential the issuer has handed out and nobody has saved yet: it is live,
\* it is not the one on disk, and it is in one process's hand.
Unsaved(u) == user[u].pc \in {"store", "lock_save", "save"}
UnsavedInv ==
    /\ \A u \in Users : Unsaved(u) => user[u].cred \in issuer.live /\ user[u].cred # tokenFile
    /\ \A u, v \in Users : Unsaved(u) /\ Unsaved(v) /\ u # v => user[u].cred # user[v].cred

\* A renewal presents what is on disk.
RenewalInv ==
    \A u \in Users : /\ user[u].pc \in {"refresh", "store"} => tokenFile # NoToken
                     /\ user[u].pc = "refresh" => user[u].cred = tokenFile

LoginInv == LoginTypes /\ LockInv /\ UnsavedInv /\ RenewalInv /\ SavedLoginWorks

\* A fault or a night's sleep is spent, the jobs stay.
LEMMA LoginMenuStays ==
  ASSUME loginMenu \in LoginMenuTypes,
         \/ loginMenu' = loginMenu
         \/ FaultLeft
         \/ loginMenu.sleeps > 0 /\ loginMenu' = [loginMenu EXCEPT !.sleeps = @ - 1]
  PROVE  loginMenu' \in LoginMenuTypes
  BY DEF LoginMenuTypes, FaultLeft

\* One process moves, the others stay where they are.
UserMoves(u) == user' \in [Users -> Holders] /\ \A v \in Users \ {u} : user'[v] = user[v]

\* It moves outside the critical section, or leaves it, with nothing unsaved in
\* hand before or after, and leaves the files and the issuer alone.
LEMMA MovesOutside ==
  ASSUME LoginInv, NEW u \in Users, UserMoves(u),
         ~InSection(u)', ~Unsaved(u)', user[u].pc # "store",
         UNCHANGED <<tokenFile, issuer, signedOut, broken>>,
         lockedBy' = lockedBy \/ (lockedBy = u /\ lockedBy' = NoToken),
         loginMenu' \in LoginMenuTypes
  PROVE  LoginInv'
<1>1. LoginTypes'
  BY Zenon DEF LoginInv, LoginTypes, UserMoves
<1>2. \A v \in Users : v = u \/ user'[v] = user[v]
  BY Zenon DEF UserMoves
<1>3. LockInv'
  BY Zenon, <1>2 DEF LoginInv, LockInv, InSection
<1>4. UnsavedInv'
  BY Zenon, <1>2 DEF LoginInv, UnsavedInv, Unsaved
<1>5. RenewalInv'
  BY Zenon, <1>2 DEF LoginInv, RenewalInv, InSection
<1>6. SavedLoginWorks'
  BY Zenon, <1>2, NoTokenIsNone DEF LoginInv, SavedLoginWorks, InSection
<1> QED
  BY Zenon, <1>1, <1>3, <1>4, <1>5, <1>6 DEF LoginInv

\* The assignments to a process's entry.
LEMMA GoesToMoves ==
  ASSUME user \in [Users -> Holders], NEW u \in Users, NEW pc \in LoginStages, GoesTo(u, pc)
  PROVE  UserMoves(u) /\ user'[u].pc = pc /\ user'[u].cred = user[u].cred /\ user'[u].goal = user[u].goal
  BY Zenon DEF GoesTo, UserMoves, Holders

\* A credential is taken in hand.
LEMMA TakesMoves ==
  ASSUME user \in [Users -> Holders], NEW u \in Users, NEW pc \in LoginStages, NEW cred \in Nat \cup {NoToken},
         user' = [user EXCEPT ![u].cred = cred, ![u].pc = pc]
  PROVE  UserMoves(u) /\ user'[u].pc = pc /\ user'[u].cred = cred
  BY Zenon DEF UserMoves, Holders

\* The token is to be resolved again.
LEMMA AimsMoves ==
  ASSUME user \in [Users -> Holders], NEW u \in Users, NEW goal \in {"first", "force", "again"},
         user' = [user EXCEPT ![u].pc = "lock", ![u].goal = goal]
  PROVE  UserMoves(u) /\ user'[u].pc = "lock"
<1> DEFINE was == user[u]
<1>1. was \in Holders
  BY Zenon
<1>2. user' = [user EXCEPT ![u] = [was EXCEPT !.pc = "lock", !.goal = goal]]
  BY Zenon
<1> HIDE DEF was
<1>3. [was EXCEPT !.pc = "lock", !.goal = goal] \in Holders /\ [was EXCEPT !.pc = "lock", !.goal = goal].pc = "lock"
  BY <1>1, Zenon DEF Holders, LoginStages
<1> DEFINE new == [was EXCEPT !.pc = "lock", !.goal = goal]
<1>4. user' = [user EXCEPT ![u] = new] /\ new \in Holders /\ new.pc = "lock"
  BY Zenon, <1>2, <1>3
<1> HIDE DEF new
<1> QED
  BY <1>4, Zenon DEF UserMoves

\* A process that ends up without a session goes on without the lock.
LEMMA NoSessionMoves ==
  ASSUME user \in [Users -> Holders], NEW u \in Users, NoSession(u)
  PROVE  UserMoves(u) /\ user'[u].pc \in {"browser", "failed", "use"}
<1> DEFINE pc == CASE loginMenu.jobs[u] = "login" -> "browser"
                   [] user[u].goal = "force" -> "failed"
                   [] OTHER -> "use"
<1>1. pc \in {"browser", "failed", "use"}
  BY Zenon
<1>2. user' = [user EXCEPT ![u].cred = NoToken, ![u].pc = pc]
  BY Zenon DEF NoSession
<1> HIDE DEF pc
<1>3. pc \in LoginStages
  BY Zenon, <1>1 DEF LoginStages
<1> QED
  BY Zenon, <1>1, <1>2, <1>3, TakesMoves

\* What is saved was handed out once and is live.
LEMMA Saving ==
  ASSUME LoginInv, NEW u \in Users, UserMoves(u), user[u].pc \in {"store", "save"},
         ~InSection(u)', ~Unsaved(u)',
         tokenFile' = user[u].cred, lockedBy' = NoToken, issuer' = issuer,
         signedOut' = IF user[u].pc = "save" THEN FALSE ELSE signedOut,
         broken' = IF user[u].pc = "save" THEN FALSE ELSE broken,
         loginMenu' \in LoginMenuTypes
  PROVE  LoginInv'
<1>1. \A v \in Users : v # u => user'[v] = user[v] /\ ~InSection(v) /\ ~InSection(v)'
  BY Zenon DEF LoginInv, LockInv, InSection, UserMoves
<1>2. tokenFile' \in issuer.live /\ tokenFile' # NoToken /\ tokenFile' \in Nat /\ 1 <= tokenFile' /\ tokenFile' < issuer.next
  BY Zenon, NoTokenIsNone DEF LoginInv, LoginTypes, UnsavedInv, Unsaved
<1>3. LoginTypes'
  BY <1>2, Zenon DEF LoginInv, LoginTypes, UserMoves
<1>4. LockInv'
  BY Zenon, <1>1 DEF LockInv
<1>5. UnsavedInv'
  BY <1>1 DEF LoginInv, UnsavedInv, Unsaved
<1>6. RenewalInv'
  BY Zenon, <1>1 DEF RenewalInv, InSection
<1>7. tokenFile' \in Credentials
  BY <1>2, MaxSessionPositive DEF LoginInv, LoginTypes, Credentials
<1>8. ~signedOut'
  BY Zenon DEF LoginInv, RenewalInv, SavedLoginWorks
<1>9. SavedLoginWorks'
  BY Zenon, <1>2, <1>7, <1>8 DEF SavedLoginWorks
<1> QED
  BY Zenon, <1>3, <1>4, <1>5, <1>6, <1>9 DEF LoginInv

\* A renewal at the issuer: only the presented token may be forgotten, and it is
\* the one on disk.
LEMMA RotatingKeeps ==
  ASSUME LoginInv, NEW u \in Users, user[u].pc = "refresh", Rotates(user[u].cred)
  PROVE  /\ issuer' \in [next : 1..(MaxSession + 1), live : SUBSET Nat]
         /\ issuer.next \in Nat /\ issuer'.next = issuer.next + 1 /\ issuer.next \in issuer'.live
         /\ \A c \in issuer'.live : 1 <= c /\ c < issuer'.next
         /\ \A c \in issuer.live : c # tokenFile => c \in issuer'.live
<1>1. user[u].cred = tokenFile
  BY Zenon DEF LoginInv, RenewalInv
<1>2. /\ issuer.next \in Nat /\ 1 <= issuer.next /\ issuer.next <= MaxSession
      /\ issuer.live \subseteq Nat /\ \A c \in issuer.live : 1 <= c /\ c < issuer.next
  BY MaxSessionPositive DEF LoginInv, LoginTypes, Rotates
<1>3. issuer'.next = issuer.next + 1 /\ issuer.next \in issuer'.live /\ issuer'.live \subseteq issuer.live \cup {issuer.next}
  BY Zenon DEF Rotates
<1>4. issuer' = [next |-> issuer'.next, live |-> issuer'.live]
  BY Zenon DEF Rotates
<1>5. \A c \in issuer.live : c # tokenFile => c \in issuer'.live
  BY Zenon, <1>1 DEF Rotates
<1>6. issuer'.next \in 1..(MaxSession + 1) /\ issuer'.live \in SUBSET Nat
  BY <1>2, <1>3, MaxSessionPositive
<1>7. issuer' \in [next : 1..(MaxSession + 1), live : SUBSET Nat]
  BY Zenon, <1>4, <1>6
<1>8. \A c \in issuer'.live : 1 <= c /\ c < issuer'.next
  BY <1>2, <1>3
<1> QED
  BY Zenon, <1>2, <1>3, <1>5, <1>7, <1>8

\* Every step of every process keeps the saved login working.
LEMMA NextLoginInv == LoginInv /\ [LoginNext]_loginVars => LoginInv'
<1> SUFFICES ASSUME LoginInv, [LoginNext]_loginVars PROVE LoginInv'
  BY Zenon
<1>0. /\ user \in [Users -> Holders] /\ loginMenu \in LoginMenuTypes
      /\ FaultLeft \/ loginMenu' = loginMenu => loginMenu' \in LoginMenuTypes
  BY Zenon, LoginMenuStays DEF LoginInv, LoginTypes
<1>1. CASE UNCHANGED loginVars
  BY Zenon, <1>1 DEF loginVars, LoginInv, LoginTypes, LockInv, InSection, UnsavedInv, Unsaved, RenewalInv, SavedLoginWorks
<1>2. CASE Expire
  <2>1. UNCHANGED <<tokenFile, lockedBy, issuer, user, broken, signedOut>> /\ loginMenu' \in LoginMenuTypes
    BY Zenon, <1>0, <1>2, LoginMenuStays DEF Expire
  <2> QED
    BY Zenon, <2>1 DEF LoginInv, LoginTypes, LockInv, InSection, UnsavedInv, Unsaved, RenewalInv, SavedLoginWorks
<1>3. ASSUME NEW u \in Users, Begin(u) PROVE LoginInv'
  <2>1. PICK pc \in {"lock", "browser", "done"} : GoesTo(u, pc)
    BY Zenon, <1>3 DEF Begin
  <2>2. UserMoves(u) /\ user'[u].pc = pc
    BY Zenon, <1>0, <2>1, GoesToMoves DEF LoginStages
  <2>3. UNCHANGED <<tokenFile, lockedBy, issuer, broken, signedOut, loginMenu>> /\ user[u].pc = "start"
    BY Zenon, <1>3 DEF Begin
  <2> QED
    BY Zenon, <1>0, <2>2, <2>3, MovesOutside DEF InSection, Unsaved
<1>4. ASSUME NEW u \in Users, lock_token(u) PROVE LoginInv'
  <2>1. /\ user[u].pc \in {"lock", "lock_save"} /\ lockedBy = NoToken /\ lockedBy' = u
        /\ UNCHANGED <<tokenFile, issuer, broken, signedOut, loginMenu>>
    BY Zenon, <1>4 DEF lock_token
  <2>2. PICK pc \in {"save", "remove", "read"} : GoesTo(u, pc) /\ (pc = "save" <=> user[u].pc = "lock_save")
    <3>1. CASE user[u].pc = "lock_save"
      <4>1. GoesTo(u, "save")
        BY Zenon, <1>4, <3>1 DEF lock_token
      <4> QED
        BY Zenon, <3>1, <4>1
    <3>2. CASE user[u].pc = "lock"
      <4>1. GoesTo(u, "remove") \/ GoesTo(u, "read")
        BY Zenon, <1>4, <3>2 DEF lock_token
      <4> QED
        BY Zenon, <3>2, <4>1
    <3> QED
      BY Zenon, <2>1, <3>1, <3>2
  <2>3. UserMoves(u) /\ user'[u].pc = pc /\ user'[u].cred = user[u].cred
    BY Zenon, <1>0, <2>2, GoesToMoves DEF LoginStages
  <2>4. \A v \in Users : v # u => user'[v] = user[v] /\ ~InSection(v)
    BY Zenon, <2>1, <2>3, NoTokenIsNone DEF UserMoves, LoginInv, LockInv
  <2>5. LoginTypes'
    BY Zenon, <2>1, <2>3 DEF LoginInv, LoginTypes, UserMoves
  <2>6. LockInv'
    BY Zenon, <2>1, <2>4 DEF LockInv, InSection
  <2>7. UnsavedInv'
    BY <2>1, <2>2, <2>3, <2>4 DEF LoginInv, UnsavedInv, Unsaved
  <2>8. RenewalInv'
    BY Zenon, <2>2, <2>3, <2>4 DEF RenewalInv, InSection
  <2>9. SavedLoginWorks'
    BY Zenon, <2>1, <2>4, NoTokenIsNone DEF LoginInv, SavedLoginWorks, InSection
  <2> QED
    BY Zenon, <2>5, <2>6, <2>7, <2>8, <2>9 DEF LoginInv
<1>5. ASSUME NEW u \in Users, load_token_at(u) PROVE LoginInv'
  <2>1. user[u].pc = "read" /\ UNCHANGED <<tokenFile, issuer, broken, signedOut, loginMenu>> /\ lockedBy = u
    BY Zenon, <1>5 DEF load_token_at, LoginInv, LockInv, InSection
  <2>2. CASE NoSession(u) /\ lockedBy' = NoToken
    BY Zenon, <1>0, <2>1, <2>2, NoSessionMoves, MovesOutside DEF InSection, Unsaved
  <2>3. CASE /\ lockedBy' = NoToken
             /\ user' = [user EXCEPT ![u].cred = tokenFile,
                           ![u].pc = IF loginMenu.jobs[u] = "login" THEN "done" ELSE "use"]
    <3>1. PICK pc \in {"done", "use"} : user' = [user EXCEPT ![u].cred = tokenFile, ![u].pc = pc]
      BY Zenon, <2>3
    <3>2. UserMoves(u) /\ user'[u].pc = pc
      BY <1>0, <3>1, TakesMoves, Zenon DEF LoginStages, LoginInv, LoginTypes
    <3> QED
      BY Zenon, <1>0, <2>1, <2>3, <3>2, MovesOutside DEF InSection, Unsaved
  <2>4. CASE /\ tokenFile # NoToken /\ lockedBy' = lockedBy
             /\ user' = [user EXCEPT ![u].cred = tokenFile, ![u].pc = "refresh"]
    <3>1. UserMoves(u) /\ user'[u].pc = "refresh" /\ user'[u].cred = tokenFile
      BY <1>0, <2>4, TakesMoves, Zenon DEF LoginStages, LoginInv, LoginTypes
    <3>2. \A v \in Users : v # u => user'[v] = user[v] /\ ~InSection(v)
      BY Zenon, <2>1, <3>1 DEF UserMoves, LoginInv, LockInv
    <3>3. LoginTypes'
      BY Zenon, <2>1, <2>4, <3>1 DEF LoginInv, LoginTypes, UserMoves
    <3>4. LockInv'
      BY Zenon, <2>1, <2>4, <3>2 DEF LockInv, InSection
    <3>5. UnsavedInv'
      BY <2>1, <3>1, <3>2 DEF LoginInv, UnsavedInv, Unsaved
    <3>6. RenewalInv'
      BY <2>1, <2>4, <3>1, <3>2, Zenon DEF RenewalInv, InSection
    <3>7. SavedLoginWorks'
      BY Zenon, <2>1, <2>4, <3>1, <3>2 DEF LoginInv, SavedLoginWorks, InSection
    <3> QED
      BY Zenon, <3>3, <3>4, <3>5, <3>6, <3>7 DEF LoginInv
  <2> QED
    BY Zenon, <1>5, <2>2, <2>3, <2>4 DEF load_token_at
<1>6. ASSUME NEW u \in Users, refresh_token(u) PROVE LoginInv'
  <2>1. /\ user[u].pc = "refresh" /\ Rotates(user[u].cred) /\ lockedBy = u
        /\ user' = [user EXCEPT ![u].cred = issuer.next, ![u].pc = "store"]
        /\ UNCHANGED <<tokenFile, lockedBy, broken, signedOut, loginMenu>>
    BY Zenon, <1>6 DEF refresh_token, LoginInv, LockInv, InSection
  <2>2. /\ issuer' \in [next : 1..(MaxSession + 1), live : SUBSET Nat]
        /\ issuer.next \in Nat /\ issuer'.next = issuer.next + 1 /\ issuer.next \in issuer'.live
        /\ \A c \in issuer'.live : 1 <= c /\ c < issuer'.next
        /\ \A c \in issuer.live : c # tokenFile => c \in issuer'.live
    BY Zenon, <2>1, RotatingKeeps
  <2>3. UserMoves(u) /\ user'[u].pc = "store" /\ user'[u].cred = issuer.next
    BY <1>0, <2>1, <2>2, TakesMoves, Zenon DEF LoginStages
  <2>4. \A v \in Users : v # u => user'[v] = user[v] /\ ~InSection(v)
    BY Zenon, <2>1, <2>3 DEF UserMoves, LoginInv, LockInv
  <2>5. /\ tokenFile = NoToken \/ (tokenFile \in Nat /\ 1 <= tokenFile /\ tokenFile < issuer.next)
        /\ \A c \in issuer.live : c < issuer.next /\ c \in Nat
        /\ tokenFile # NoToken
    BY Zenon, <2>1 DEF LoginInv, LoginTypes, RenewalInv
  <2>6. LoginTypes'
    BY <2>1, <2>2, <2>3, <2>5 DEF LoginInv, LoginTypes, UserMoves
  <2>7. LockInv'
    BY Zenon, <2>1, <2>4 DEF LockInv, InSection
  <2>8. UnsavedInv'
    <3>1. \A v \in Users : v # u /\ Unsaved(v)' => user'[v].cred \in issuer.live /\ user'[v].cred # tokenFile
      BY Zenon, <2>4 DEF LoginInv, UnsavedInv, Unsaved
    <3>2. \A v \in Users : v # u /\ Unsaved(v)' => user'[v].cred \in issuer'.live /\ user'[v].cred # issuer.next
      BY <2>2, <2>5, <3>1
    <3>3. user'[u].cred \in issuer'.live /\ user'[u].cred # tokenFile
      BY <2>2, <2>3, <2>5
    <3>4. \A v, w \in Users : v # u /\ w # u /\ v # w /\ Unsaved(v)' /\ Unsaved(w)' => user'[v].cred # user'[w].cred
      BY Zenon, <2>4 DEF LoginInv, UnsavedInv, Unsaved
    <3> QED
      BY <2>1, <2>3, <3>1, <3>2, <3>3, <3>4, Zenon DEF UnsavedInv
  <2>9. RenewalInv'
    BY <2>1, <2>3, <2>4, <2>5, Zenon DEF RenewalInv, InSection
  <2>10. SavedLoginWorks'
    BY <2>1, <2>3, Zenon DEF LoginInv, SavedLoginWorks
  <2> QED
    BY Zenon, <2>6, <2>7, <2>8, <2>9, <2>10 DEF LoginInv
<1>7. ASSUME NEW u \in Users, RefreshRefused(u) PROVE LoginInv'
  <2>1. /\ user[u].pc = "refresh" /\ NoSession(u) /\ lockedBy = u /\ lockedBy' = NoToken
        /\ UNCHANGED <<tokenFile, issuer, broken, signedOut, loginMenu>>
    BY Zenon, <1>7 DEF RefreshRefused, LoginInv, LockInv, InSection
  <2> QED
    BY Zenon, <1>0, <2>1, NoSessionMoves, MovesOutside DEF InSection, Unsaved
<1>8. ASSUME NEW u \in Users, RefreshLost(u) PROVE LoginInv'
  <2>1. /\ user[u].pc = "refresh" /\ NoSession(u) /\ lockedBy = u /\ lockedBy' = NoToken
        /\ UNCHANGED <<tokenFile, signedOut>> /\ FaultLeft
    BY Zenon, <1>8 DEF RefreshLost, LoginInv, LockInv, InSection
  <2>2. CASE UNCHANGED <<issuer, broken>>
    BY Zenon, <1>0, <2>1, <2>2, NoSessionMoves, MovesOutside DEF InSection, Unsaved
  <2>3. CASE Rotates(user[u].cred) /\ broken' = TRUE
    <3>1. /\ issuer' \in [next : 1..(MaxSession + 1), live : SUBSET Nat]
          /\ issuer.next \in Nat /\ issuer'.next = issuer.next + 1
          /\ \A c \in issuer'.live : 1 <= c /\ c < issuer'.next
          /\ \A c \in issuer.live : c # tokenFile => c \in issuer'.live
      BY Zenon, <2>1, <2>3, RotatingKeeps
    <3>2. UserMoves(u) /\ user'[u].pc \in {"browser", "failed", "use"}
      BY Zenon, <1>0, <2>1, NoSessionMoves
    <3>3. \A v \in Users : v # u => user'[v] = user[v] /\ ~InSection(v)
      BY Zenon, <2>1, <3>2 DEF UserMoves, LoginInv, LockInv
    <3>4. LoginTypes'
      BY <1>0, <2>1, <2>3, <3>1, <3>2 DEF LoginInv, LoginTypes, UserMoves
    <3>5. LockInv'
      BY Zenon, <3>2, <3>3 DEF LockInv, InSection
    <3>6. UnsavedInv'
      BY <2>1, <3>1, <3>2, <3>3 DEF LoginInv, UnsavedInv, Unsaved
    <3>7. RenewalInv'
      BY Zenon, <3>2, <3>3 DEF RenewalInv, InSection
    <3>8. SavedLoginWorks'
      BY Zenon, <2>1, <2>3 DEF LoginInv, SavedLoginWorks
    <3> QED
      BY Zenon, <3>4, <3>5, <3>6, <3>7, <3>8 DEF LoginInv
  <2> QED
    BY <1>8, <2>2, <2>3, Zenon DEF RefreshLost
<1>9. ASSUME NEW u \in Users, save_to(u) PROVE LoginInv'
  <2>1. PICK pc \in {"use", "done"} : GoesTo(u, pc)
    BY Zenon, <1>9 DEF save_to, Leave
  <2>2. UserMoves(u) /\ user'[u].pc = pc
    BY Zenon, <1>0, <2>1, GoesToMoves DEF LoginStages
  <2> QED
    BY <1>0, <1>9, <2>2, Saving, Zenon DEF save_to, Leave, InSection, Unsaved
<1>10. ASSUME NEW u \in Users, SaveFails(u) PROVE LoginInv'
  <2>1. /\ user[u].pc \in {"store", "save"} /\ FaultLeft /\ lockedBy = u /\ lockedBy' = NoToken /\ issuer' = issuer
    BY Zenon, <1>10 DEF SaveFails, LoginInv, LockInv, InSection
  <2>2. UserMoves(u) /\ user'[u].pc \in {"browser", "failed", "use"}
    BY Zenon, <1>0, <1>10, GoesToMoves, NoSessionMoves DEF SaveFails, LoginStages
  <2>3. CASE broken' = (broken \/ user[u].pc = "store") /\ UNCHANGED <<tokenFile, signedOut>>
    <3>1. CASE user[u].pc = "save"
      <4>1. broken' = broken
        BY Zenon, <2>3, <3>1 DEF LoginInv, LoginTypes
      <4> QED
        BY Zenon, <1>0, <2>1, <2>2, <2>3, <3>1, <4>1, MovesOutside DEF InSection, Unsaved
    <3>2. CASE user[u].pc = "store"
      <4>1. \A v \in Users : v # u => user'[v] = user[v] /\ ~InSection(v)
        BY Zenon, <2>1, <2>2 DEF UserMoves, LoginInv, LockInv
      <4>2. LoginTypes'
        BY Zenon, <1>0, <2>1, <2>2, <2>3, <3>2 DEF LoginInv, LoginTypes, UserMoves
      <4>3. LockInv' /\ RenewalInv'
        BY Zenon, <2>2, <4>1 DEF LockInv, RenewalInv, InSection
      <4>4. UnsavedInv'
        <5>1. ~Unsaved(u)' /\ \A v \in Users : Unsaved(v)' => Unsaved(v) /\ user'[v] = user[v]
          BY Zenon, <2>1, <2>2, <4>1 DEF Unsaved
        <5> QED
          BY Zenon, <2>1, <2>3, <5>1 DEF LoginInv, UnsavedInv
      <4>5. SavedLoginWorks'
        BY <2>1, <2>3, <3>2, Zenon DEF LoginInv, SavedLoginWorks
      <4> QED
        BY Zenon, <4>2, <4>3, <4>4, <4>5 DEF LoginInv
    <3> QED
      BY Zenon, <2>1, <3>1, <3>2
  <2>4. CASE /\ tokenFile' = user[u].cred
             /\ signedOut' = IF user[u].pc = "save" THEN FALSE ELSE signedOut
             /\ broken' = IF user[u].pc = "save" THEN FALSE ELSE broken
    BY <1>0, <2>1, <2>2, <2>4, Saving, Zenon DEF InSection, Unsaved
  <2> QED
    BY <1>10, <2>3, <2>4, Zenon DEF SaveFails
<1>11. ASSUME NEW u \in Users, login(u) PROVE LoginInv'
  <2>1. user[u].pc = "browser" /\ UNCHANGED <<tokenFile, lockedBy, broken, signedOut, loginMenu>>
    BY Zenon, <1>11 DEF login
  <2>2. CASE GoesTo(u, "failed") /\ UNCHANGED issuer
    <3>1. UserMoves(u) /\ user'[u].pc = "failed"
      BY Zenon, <1>0, <2>2, GoesToMoves DEF LoginStages
    <3> QED
      BY Zenon, <1>0, <2>1, <2>2, <3>1, MovesOutside DEF InSection, Unsaved
  <2>3. CASE /\ issuer.next <= MaxSession
             /\ issuer' = [next |-> issuer.next + 1, live |-> issuer.live \cup {issuer.next}]
             /\ user' = [user EXCEPT ![u].cred = issuer.next, ![u].pc = "lock_save"]
    <3>1. /\ issuer.next \in Nat /\ 1 <= issuer.next /\ issuer.live \subseteq Nat
          /\ \A c \in issuer.live : 1 <= c /\ c < issuer.next
          /\ tokenFile = NoToken \/ (tokenFile \in Nat /\ 1 <= tokenFile /\ tokenFile < issuer.next)
      BY MaxSessionPositive, SMTT(30) DEF LoginInv, LoginTypes
    <3>2. UserMoves(u) /\ user'[u].pc = "lock_save" /\ user'[u].cred = issuer.next
      BY <1>0, <2>3, <3>1, TakesMoves, Zenon DEF LoginStages
    <3>3. issuer'.next = issuer.next + 1 /\ issuer'.live = issuer.live \cup {issuer.next}
      BY Zenon, <2>3
    <3>4. issuer' \in [next : 1..(MaxSession + 1), live : SUBSET Nat]
      BY <2>3, <3>1, MaxSessionPositive
    <3>5. LoginTypes'
      BY <2>1, <3>1, <3>2, <3>3, <3>4 DEF LoginInv, LoginTypes, UserMoves
    <3>6. \A v \in Users : v # u => user'[v] = user[v]
      BY Zenon, <3>2 DEF UserMoves
    <3>7. LockInv'
      BY <2>1, <3>2, <3>6, SMTT(30) DEF LoginInv, LockInv, InSection
    <3>8. UnsavedInv'
      <4>1. \A v \in Users : v # u /\ Unsaved(v)' => user'[v].cred \in issuer.live /\ user'[v].cred # tokenFile
        BY Zenon, <3>6 DEF LoginInv, UnsavedInv, Unsaved
      <4>2. \A v \in Users : v # u /\ Unsaved(v)' => user'[v].cred \in issuer'.live /\ user'[v].cred # issuer.next
        BY <3>1, <3>3, <4>1
      <4>3. user'[u].cred \in issuer'.live /\ user'[u].cred # tokenFile
        BY <3>1, <3>2, <3>3, NoTokenIsNone
      <4>4. \A v, w \in Users : v # u /\ w # u /\ v # w /\ Unsaved(v)' /\ Unsaved(w)' => user'[v].cred # user'[w].cred
        BY Zenon, <3>6 DEF LoginInv, UnsavedInv, Unsaved
      <4> QED
        BY Zenon, <2>1, <3>2, <4>1, <4>2, <4>3, <4>4 DEF UnsavedInv
    <3>9. RenewalInv'
      BY Zenon, <2>1, <3>2, <3>6 DEF LoginInv, RenewalInv
    <3>10. SavedLoginWorks'
      BY Zenon, <2>1, <3>3, <3>6 DEF LoginInv, SavedLoginWorks
    <3> QED
      BY Zenon, <3>5, <3>7, <3>8, <3>9, <3>10 DEF LoginInv
  <2> QED
    BY Zenon, <1>11, <2>2, <2>3 DEF login
<1>12. ASSUME NEW u \in Users, logout(u) PROVE LoginInv'
  <2>1. /\ user[u].pc = "remove" /\ tokenFile' = NoToken /\ signedOut' = TRUE /\ lockedBy = u /\ lockedBy' = NoToken
        /\ GoesTo(u, "done") /\ UNCHANGED <<issuer, broken, loginMenu>>
    BY Zenon, <1>12 DEF logout, Leave, LoginInv, LockInv, InSection
  <2>2. UserMoves(u) /\ user'[u].pc = "done"
    BY Zenon, <1>0, <2>1, GoesToMoves DEF LoginStages
  <2>3. \A v \in Users : v # u => user'[v] = user[v] /\ ~InSection(v)
    BY Zenon, <2>1, <2>2 DEF UserMoves, LoginInv, LockInv
  <2>4. LoginTypes'
    BY Zenon, <2>1, <2>2 DEF LoginInv, LoginTypes, UserMoves
  <2>5. LockInv' /\ RenewalInv'
    BY Zenon, <2>2, <2>3 DEF LockInv, RenewalInv, InSection
  <2>6. issuer.live \subseteq Nat
    BY Zenon DEF LoginInv, LoginTypes
  <2>7. UnsavedInv'
    BY <2>1, <2>2, <2>3, <2>6, NoTokenIsNone DEF LoginInv, UnsavedInv, Unsaved
  <2>8. SavedLoginWorks'
    BY Zenon, <2>1 DEF SavedLoginWorks
  <2> QED
    BY Zenon, <2>4, <2>5, <2>7, <2>8 DEF LoginInv
<1>13. ASSUME NEW u \in Users, open_pty_ws(u) PROVE LoginInv'
  <2>1. UserMoves(u) /\ user'[u].pc \in {"done", "lock", "failed"}
    BY <1>0, <1>13, GoesToMoves, AimsMoves, SMTT(30) DEF open_pty_ws, LoginStages
  <2> QED
    BY Zenon, <1>0, <1>13, <2>1, MovesOutside DEF open_pty_ws, InSection, Unsaved
<1>14. ASSUME NEW u \in Users, resolve_token(u) PROVE LoginInv'
  BY <1>0, <1>14, AimsMoves, MovesOutside, Zenon DEF resolve_token, InSection, Unsaved
<1>15. ASSUME NEW u \in Users, Killed(u) PROVE LoginInv'
  <2>1. /\ FaultLeft /\ broken' = (broken \/ user[u].pc = "store") /\ GoesTo(u, "failed")
        /\ lockedBy' = (IF lockedBy = u THEN NoToken ELSE lockedBy) /\ UNCHANGED <<tokenFile, issuer, signedOut>>
    BY Zenon, <1>15 DEF Killed
  <2>2. UserMoves(u) /\ user'[u].pc = "failed"
    BY Zenon, <1>0, <2>1, GoesToMoves DEF LoginStages
  <2>3. CASE user[u].pc # "store"
    <3>1. broken' = broken
      BY Zenon, <2>1, <2>3 DEF LoginInv, LoginTypes
    <3> QED
      BY Zenon, <1>0, <2>1, <2>2, <2>3, <3>1, MovesOutside DEF InSection, Unsaved
  <2>4. CASE user[u].pc = "store"
    <3>1. \A v \in Users : v # u => user'[v] = user[v] /\ ~InSection(v)
      BY Zenon, <2>2, <2>4 DEF UserMoves, LoginInv, LockInv, InSection
    <3>2. LoginTypes'
      BY Zenon, <1>0, <2>1, <2>2, <2>4 DEF LoginInv, LoginTypes, UserMoves
    <3>3. LockInv' /\ RenewalInv'
      BY Zenon, <2>2, <3>1 DEF LockInv, RenewalInv, InSection
    <3>4. UnsavedInv'
      BY <2>1, <2>2, <3>1, SMTT(30) DEF LoginInv, UnsavedInv, Unsaved
    <3>5. SavedLoginWorks'
      BY <2>1, <2>4, Zenon DEF LoginInv, SavedLoginWorks
    <3> QED
      BY Zenon, <3>2, <3>3, <3>4, <3>5 DEF LoginInv
  <2> QED
    BY Zenon, <2>3, <2>4
<1> QED
  BY Zenon, <1>1, <1>2, <1>3, <1>4, <1>5, <1>6, <1>7, <1>8, <1>9, <1>10, <1>11, <1>12, <1>13, <1>14, <1>15 DEF LoginNext

\* Initially the saved login, if there is one, is live.
LEMMA InitLoginInv == LoginInit => LoginInv
<1> SUFFICES ASSUME LoginInit PROVE LoginInv
  BY Zenon
<1>1. loginMenu \in LoginMenuTypes /\ (tokenFile = NoToken \/ tokenFile = 1)
  BY Zenon, LoginMenusTyped DEF LoginInit, LoginMenuTypes
<1>2. user \in [Users -> Holders] /\ \A u \in Users : user[u].pc = "start"
  BY Zenon DEF LoginInit, Holders, LoginStages
<1>3. /\ issuer \in [next : 1..(MaxSession + 1), live : SUBSET Nat]
      /\ \A c \in issuer.live : 1 <= c /\ c < issuer.next
      /\ tokenFile # NoToken => issuer.next = 2 /\ issuer.live = {1}
  BY MaxSessionPositive DEF LoginInit
<1>4. LoginTypes
  BY <1>1, <1>2, <1>3, Zenon DEF LoginInit, LoginTypes
<1>5. LockInv /\ UnsavedInv /\ RenewalInv
  BY Zenon, <1>2 DEF LockInv, InSection, UnsavedInv, Unsaved, RenewalInv
<1>6. SavedLoginWorks
  <2>1. tokenFile \in Credentials \cup {NoToken}
    BY <1>1, MaxSessionPositive DEF Credentials
  <2>2. tokenFile = NoToken \/ tokenFile \in issuer.live
    BY Zenon, <1>1, <1>3
  <2>3. lockedBy = NoToken /\ signedOut = (tokenFile = NoToken)
    BY Zenon DEF LoginInit
  <2> QED
    BY <2>1, <2>2, <2>3, Zenon DEF SavedLoginWorks
<1> QED
  BY Zenon, <1>4, <1>5, <1>6 DEF LoginInv

\* Whatever the processes that share token.json do at the same time, and whichever
\* are killed, meet a full disk or lose the issuer's answer: the saved login is
\* one the issuer honours unless an answer was lost, and a logout is not undone
\* (load_token_at's critical section).
THEOREM SavedLoginKeepsWorking == LoginSpec => []SavedLoginWorks
<1>1. LoginInv => SavedLoginWorks
  BY Zenon DEF LoginInv
<1> QED
  BY <1>1, InitLoginInv, NextLoginInv, PTL DEF LoginSpec

----------------------------------------------------------------------------
(* ---- the local terminal ---- *)

\* The terminal by the stage of the command: what set_raw_mode has changed so
\* far, and that what was pushed is what restore_terminal pops.
TermMenuTypes == [command : {"connect", "shell"}, shared : BOOLEAN, hasTty : BOOLEAN,
                  noReconnect : BOOLEAN, drops : Nat, faults : Nat]

TermStages == {"first", "attr", "flags", "nonblock", "arm", "loop", "retry", "wait", "reopen", "restore",
               "guard", "exited"}

TermRuns == [pc : TermStages, attempts : Nat, code : {0, 1}]

TermTypes ==
    /\ termMenu \in TermMenuTypes
    /\ tty \in [raw : BOOLEAN, nonblock : BOOLEAN, replaced : BOOLEAN, frames : Nat]
    /\ run \in TermRuns
    /\ pushed \in BOOLEAN /\ halfRaw \in BOOLEAN

TermStageInv ==
    /\ tty.frames = IF pushed THEN 2 ELSE 1
    /\ run.pc \in {"first", "attr", "flags", "nonblock", "arm"} => ~pushed
    /\ run.pc \in {"first", "attr"} => ~tty.raw
    /\ run.pc \in {"first", "attr", "flags", "nonblock"} => ~tty.nonblock
    /\ run.pc \in {"nonblock", "arm", "loop", "retry", "wait", "reopen"} =>
          tty.replaced = (termMenu.shared /\ termMenu.hasTty)
    /\ run.pc = "exited" /\ ~halfRaw => ~tty.raw /\ ~tty.nonblock /\ ~pushed

TermInv == TermTypes /\ TermStageInv

\* A fault or a drop is spent; the command and the descriptors stay.
LEMMA TermMenuStays ==
  ASSUME termMenu \in TermMenuTypes,
         \/ termMenu' = termMenu
         \/ TermFault
         \/ termMenu.drops > 0 /\ termMenu' = [termMenu EXCEPT !.drops = @ - 1]
  PROVE  termMenu' \in TermMenuTypes /\ termMenu'.shared = termMenu.shared /\ termMenu'.hasTty = termMenu.hasTty
         /\ termMenu'.command = termMenu.command
  BY DEF TermMenuTypes, TermFault

\* The assignments to the command's own state.
LEMMA RunMoves ==
  ASSUME run \in TermRuns, NEW pc \in TermStages, NEW code \in {0, 1},
         \/ RunTo(pc)
         \/ run' = [run EXCEPT !.pc = pc, !.code = code]
         \/ run' = [run EXCEPT !.pc = pc, !.attempts = @ + 1]
         \/ run' = [run EXCEPT !.pc = pc, !.attempts = 0]
  PROVE  run' \in TermRuns /\ run'.pc = pc
<1>1. CASE RunTo(pc)
  BY Zenon, <1>1 DEF TermRuns, RunTo
<1>2. CASE run' = [run EXCEPT !.pc = pc, !.code = code]
  BY <1>2, Zenon DEF TermRuns
<1>3. CASE run' = [run EXCEPT !.pc = pc, !.attempts = @ + 1]
  <2> DEFINE n == run.attempts + 1
  <2>1. n \in Nat
    BY DEF TermRuns
  <2>2. run' = [run EXCEPT !.pc = pc, !.attempts = n]
    BY Zenon, <1>3
  <2> HIDE DEF n
  <2> QED
    BY <2>1, <2>2, Zenon DEF TermRuns
<1>4. CASE run' = [run EXCEPT !.pc = pc, !.attempts = 0]
  BY <1>4, Zenon DEF TermRuns
<1> QED
  BY Zenon, <1>1, <1>2, <1>3, <1>4

\* The terminal is not touched.
LEMMA Untouching ==
  ASSUME TermInv, UNCHANGED <<tty, pushed>>, halfRaw' = halfRaw \/ halfRaw' = TRUE,
         \/ termMenu' = termMenu
         \/ TermFault
         \/ termMenu.drops > 0 /\ termMenu' = [termMenu EXCEPT !.drops = @ - 1],
         NEW pc \in {"attr", "loop", "retry", "wait", "reopen", "restore", "guard", "exited"},
         NEW code \in {0, 1},
         \/ RunTo(pc)
         \/ run' = [run EXCEPT !.pc = pc, !.code = code]
         \/ run' = [run EXCEPT !.pc = pc, !.attempts = @ + 1]
         \/ run' = [run EXCEPT !.pc = pc, !.attempts = 0],
         pc = "attr" => run.pc = "first",
         pc = "loop" => run.pc \in {"loop", "retry", "wait", "reopen"} \/ (run.pc = "arm" /\ ~pushed),
         pc \in {"retry", "wait", "reopen"} => run.pc \in {"loop", "retry", "wait", "reopen"},
         pc = "exited" => halfRaw' \/ run.pc \in {"first", "attr"}
  PROVE  TermInv'
<1>1. termMenu' \in TermMenuTypes
  BY Zenon, TermMenuStays DEF TermInv, TermTypes
<1>2. run' \in TermRuns /\ run'.pc = pc
  <2>1. run \in TermRuns /\ pc \in TermStages
    BY Zenon DEF TermInv, TermTypes, TermStages
  <2> QED
    BY Zenon, <2>1, RunMoves
<1>3. termMenu'.shared = termMenu.shared /\ termMenu'.hasTty = termMenu.hasTty
  BY Zenon, TermMenuStays DEF TermInv, TermTypes
<1>4. TermStageInv'
  BY Zenon, <1>2, <1>3 DEF TermInv, TermStageInv
<1>5. TermTypes'
  BY <1>1, <1>2, Zenon DEF TermInv, TermTypes
<1> QED
  BY Zenon, <1>4, <1>5 DEF TermInv

\* Every step keeps the terminal as the stage of the command says.
LEMMA NextTermInv == TermInv /\ [TermNext]_termVars => TermInv'
<1> SUFFICES ASSUME TermInv, [TermNext]_termVars PROVE TermInv'
  BY Zenon
<1>0. run \in TermRuns /\ tty \in [raw : BOOLEAN, nonblock : BOOLEAN, replaced : BOOLEAN, frames : Nat]
  BY Zenon DEF TermInv, TermTypes
<1>1. CASE FirstConnect
  BY Zenon, <1>1, Untouching DEF FirstConnect, Exits
<1>2. CASE set_raw_mode
  <2>1. CASE run.pc = "attr" /\ tty' = [tty EXCEPT !.raw = TRUE] /\ RunTo("flags") /\ UNCHANGED <<pushed, halfRaw, termMenu>>
    <3>1. run' \in TermRuns /\ run'.pc = "flags"
      BY Zenon, <1>0, <2>1, RunMoves DEF TermStages
    <3>2. tty' \in [raw : BOOLEAN, nonblock : BOOLEAN, replaced : BOOLEAN, frames : Nat]
          /\ tty'.nonblock = tty.nonblock /\ tty'.frames = tty.frames
      BY Zenon, <1>0, <2>1
    <3> QED
      BY Zenon, <2>1, <3>1, <3>2 DEF TermInv, TermTypes, TermStageInv
  <2>2. CASE run.pc = "attr" /\ TermFault /\ Exits(1) /\ UNCHANGED <<tty, pushed, halfRaw>>
    BY Zenon, <2>2, Untouching DEF Exits
  <2>3. CASE TermFault /\ Exits(1) /\ halfRaw' = TRUE /\ UNCHANGED <<tty, pushed>>
    BY Zenon, <2>3, Untouching DEF Exits
  <2> QED
    BY <1>2, <2>1, <2>2, <2>3, Zenon DEF set_raw_mode
<1>3. CASE open_controlling_tty
  <2>1. run' \in TermRuns /\ run'.pc = "nonblock" /\ run.pc = "flags" /\ UNCHANGED <<pushed, halfRaw, termMenu>>
    BY Zenon, <1>0, <1>3, RunMoves DEF open_controlling_tty, TermStages
  <2>2. /\ tty' \in [raw : BOOLEAN, nonblock : BOOLEAN, replaced : BOOLEAN, frames : Nat]
        /\ tty'.nonblock = tty.nonblock /\ tty'.frames = tty.frames
        /\ tty'.replaced = (termMenu.shared /\ termMenu.hasTty)
    BY Zenon, <1>0, <1>3 DEF open_controlling_tty, TermInv, TermTypes, TermMenuTypes
  <2> QED
    BY Zenon, <2>1, <2>2 DEF TermInv, TermTypes, TermStageInv
<1>4. CASE set_reader_nonblocking
  <2>1. run' \in TermRuns /\ run'.pc = "arm" /\ run.pc = "nonblock" /\ UNCHANGED <<pushed, halfRaw, termMenu>>
    BY Zenon, <1>0, <1>4, RunMoves DEF set_reader_nonblocking, TermStages
  <2>2. /\ tty' \in [raw : BOOLEAN, nonblock : BOOLEAN, replaced : BOOLEAN, frames : Nat]
        /\ tty'.frames = tty.frames /\ tty'.replaced = tty.replaced
    BY <1>0, <1>4, Zenon DEF set_reader_nonblocking
  <2> QED
    BY Zenon, <2>1, <2>2 DEF TermInv, TermTypes, TermStageInv
<1>5. CASE arm_local_keyboard
  <2>1. run.pc = "arm" /\ RunTo("loop") /\ halfRaw' = halfRaw /\ ~pushed /\ tty.frames = 1
    BY Zenon, <1>5 DEF arm_local_keyboard, TermInv, TermStageInv
  <2>2. CASE tty' = [tty EXCEPT !.frames = @ + 1] /\ pushed' = TRUE /\ UNCHANGED termMenu
    <3>1. run' \in TermRuns /\ run'.pc = "loop"
      BY Zenon, <1>0, <2>1, RunMoves DEF TermStages
    <3>2. /\ tty' \in [raw : BOOLEAN, nonblock : BOOLEAN, replaced : BOOLEAN, frames : Nat]
          /\ tty'.frames = 2 /\ tty'.replaced = tty.replaced
      BY <1>0, <2>1, <2>2
    <3> QED
      BY Zenon, <2>1, <2>2, <3>1, <3>2 DEF TermInv, TermTypes, TermStageInv
  <2>3. CASE TermFault /\ UNCHANGED <<tty, pushed>>
    BY Zenon, <2>1, <2>3, Untouching
  <2> QED
    BY <1>5, <2>2, <2>3, Zenon DEF arm_local_keyboard
<1>6. CASE run_pty_loop
  BY Zenon, <1>6, Untouching DEF run_pty_loop
<1>7. CASE run_shell_loop
  BY <1>7, Untouching, Zenon DEF run_shell_loop
<1>8. CASE reconnect_or_give_up
  BY Zenon, <1>8, Untouching DEF reconnect_or_give_up
<1>9. CASE wait_reconnect
  BY Zenon, <1>9, Untouching DEF wait_reconnect
<1>10. CASE Reopen
  BY Zenon, <1>10, Untouching DEF Reopen
<1>11. CASE restore_terminal
  <2>1. run.pc \in {"restore", "guard"} /\ pushed' = FALSE /\ UNCHANGED <<halfRaw, termMenu>>
        /\ (RunTo("exited") \/ RunTo("guard"))
    BY Zenon, <1>11 DEF restore_terminal
  <2>2. run' \in TermRuns /\ run'.pc \in {"exited", "guard"}
    BY Zenon, <1>0, <2>1, RunMoves DEF TermStages
  <2>3. tty' = [tty EXCEPT !.frames = disarm_local_keyboard, !.nonblock = FALSE, !.raw = FALSE]
    BY Zenon, <1>11 DEF restore_terminal
  <2>4. disarm_local_keyboard = 1
    BY DEF disarm_local_keyboard, TermInv, TermStageInv
  <2>5. /\ tty' \in [raw : BOOLEAN, nonblock : BOOLEAN, replaced : BOOLEAN, frames : Nat]
        /\ tty'.frames = 1 /\ tty'.nonblock = FALSE /\ tty'.raw = FALSE
    BY Zenon, <1>0, <2>3, <2>4
  <2> QED
    BY <2>1, <2>2, <2>5, Zenon DEF TermInv, TermTypes, TermStageInv
<1>12. CASE Panic
  BY Zenon, <1>12, Untouching DEF Panic
<1>13. CASE UNCHANGED termVars
  BY Zenon, <1>13 DEF termVars, TermInv, TermTypes, TermStageInv
<1> QED
  BY Zenon, <1>1, <1>2, <1>3, <1>4, <1>5, <1>6, <1>7, <1>8, <1>9, <1>10, <1>11, <1>12, <1>13 DEF TermNext

\* For any number of reconnects and any drops, faults and panics: the user's
\* terminal is given back as it was, unless set_raw_mode failed half way, and
\* stdout is not made non-blocking under a screen that is painted.
THEOREM TerminalIsRestored == TermSpec => []TerminalRestored
<1>1. TermInit => TermInv
  <2> SUFFICES ASSUME TermInit PROVE TermInv
    BY Zenon
  <2>1. termMenu \in TermMenuTypes
    BY Zenon, TermMenusTyped DEF TermInit, TermMenuTypes
  <2>2. run \in TermRuns /\ run.pc = "first"
    BY Zenon DEF TermInit, TermRuns, TermStages
  <2>3. /\ tty \in [raw : BOOLEAN, nonblock : BOOLEAN, replaced : BOOLEAN, frames : Nat]
        /\ ~tty.raw /\ ~tty.nonblock /\ tty.frames = 1
    BY Zenon DEF TermInit, Untouched
  <2>4. pushed = FALSE /\ halfRaw = FALSE
    BY Zenon DEF TermInit
  <2> QED
    BY <2>1, <2>2, <2>3, <2>4, Zenon DEF TermInv, TermTypes, TermStageInv
<1>2. TermInv => TerminalRestored
  <2> SUFFICES ASSUME TermInv PROVE TerminalRestored
    BY Zenon
  <2>1. ASSUME run.pc = "exited", ~halfRaw PROVE tty = [Untouched EXCEPT !.replaced = tty.replaced]
    <3>1. tty = [raw |-> tty.raw, nonblock |-> tty.nonblock, replaced |-> tty.replaced, frames |-> tty.frames]
      BY Zenon DEF TermInv, TermTypes
    <3>2. tty.raw = FALSE /\ tty.nonblock = FALSE /\ tty.frames = 1
      BY Zenon, <2>1 DEF TermInv, TermTypes, TermStageInv
    <3> DEFINE back == [Untouched EXCEPT !.replaced = tty.replaced]
    <3>3. Untouched \in [raw : BOOLEAN, nonblock : BOOLEAN, replaced : BOOLEAN, frames : Nat]
          /\ tty.replaced \in BOOLEAN
      BY Zenon DEF Untouched, TermInv, TermTypes
    <3>4. back \in [raw : BOOLEAN, nonblock : BOOLEAN, replaced : BOOLEAN, frames : Nat]
          /\ back.raw = Untouched.raw /\ back.nonblock = Untouched.nonblock /\ back.replaced = tty.replaced
          /\ back.frames = Untouched.frames
      BY Zenon, <3>3
    <3> HIDE DEF back
    <3>5. back = [raw |-> back.raw, nonblock |-> back.nonblock, replaced |-> back.replaced, frames |-> back.frames]
      BY Zenon, <3>4
    <3>6. Untouched.raw = FALSE /\ Untouched.nonblock = FALSE /\ Untouched.frames = 1
      BY Zenon DEF Untouched
    <3>7. tty = back
      BY Zenon, <3>1, <3>2, <3>4, <3>5, <3>6
    <3> QED
      BY Zenon, <3>7 DEF back
  <2>2. ASSUME run.pc = "loop", termMenu.hasTty PROVE ~StdoutNonblocking
    BY <2>2, Zenon DEF TermInv, TermStageInv, StdoutNonblocking
  <2>3. tty.frames >= 1
    BY DEF TermInv, TermStageInv
  <2> QED
    BY Zenon, <2>1, <2>2, <2>3 DEF TerminalRestored
<1> QED
  BY <1>1, <1>2, NextTermInv, PTL DEF TermSpec
----------------------------------------------------------------------------
(* ---- custom domains ---- *)

\* The commands, the index and how far everyone is.
AliasTypes ==
    /\ CommandsOf(aliasMenu)
    /\ DOMAIN index = Fqdns
    /\ DOMAIN cmd = Cmds
    /\ \A c \in Cmds : cmd[c] = [pc |-> cmd[c].pc, seq |-> cmd[c].seq]

\* What a command has reached tells what it does.
AliasStages ==
    \A c \in Cmds : CmdAt(c, "rm") => Of(c).op = "rm"

\* A record is a claim, which a rebuild may put into the index.
ClaimRecords ==
    \A r \in records : [fp |-> r.fp, site |-> r.site] # Unclaimed

AliasInv == AliasTypes /\ AliasStages /\ ClaimRecords /\ IndexHasRecord /\ ClaimHolds

----------------------------------------------------------------------------

\* Initially nothing is claimed.
LEMMA InitAlias == AliasInit => AliasInv
  BY CommandsWellFormed DEF AliasInit, AliasInv, AliasTypes, AliasStages, ClaimRecords, IndexHasRecord, ClaimHolds, CmdAt

\* A step that only changes the budgets keeps every command.
LEMMA AliasBudgetsOnly ==
  ASSUME CommandsOf(aliasMenu), NEW n,
         \/ aliasMenu' = aliasMenu
         \/ aliasMenu' = [aliasMenu EXCEPT !.faults = n]
         \/ aliasMenu' = [aliasMenu EXCEPT !.restarts = n]
  PROVE  CommandsOf(aliasMenu') /\ aliasMenu'.cmds = aliasMenu.cmds
<1>1. aliasMenu'.cmds = aliasMenu.cmds
  BY Zenon DEF CommandsOf
<1>2. aliasMenu' = [cmds |-> aliasMenu'.cmds, faults |-> aliasMenu'.faults, restarts |-> aliasMenu'.restarts]
  BY Zenon DEF CommandsOf
<1> QED
  BY Zenon, <1>1, <1>2 DEF CommandsOf

\* No step changes what a command is about.
LEMMA CommandsStay ==
  ASSUME AliasInv, AliasNext
  PROVE  CommandsOf(aliasMenu') /\ \A c : Of(c)' = Of(c)
<1>1. \E n : \/ aliasMenu' = aliasMenu
             \/ aliasMenu' = [aliasMenu EXCEPT !.faults = n]
             \/ aliasMenu' = [aliasMenu EXCEPT !.restarts = n]
  BY Zenon DEF AliasNext, cmd_alias_set, cmd_alias_rm, Prepare, RegisterOwner, check_alias_monotonic, put, delete,
         rebuild_alias_index, AliasFine, AliasFault
<1>2. CommandsOf(aliasMenu') /\ aliasMenu'.cmds = aliasMenu.cmds
  BY Zenon, <1>1, AliasBudgetsOnly DEF AliasInv, AliasTypes
<1> QED
  BY Zenon, <1>2 DEF Of

\* One command moves, not back to its start, and reaches "rm" only to remove.
CmdMoves(c) ==
    /\ cmd' = [d \in Cmds |-> IF d = c THEN cmd'[c] ELSE cmd[d]]
    /\ cmd'[c] = [pc |-> cmd'[c].pc, seq |-> cmd'[c].seq]
    /\ cmd'[c].pc # "start"
    /\ cmd'[c].pc = "rm" => Of(c).op = "rm"

\* What moving the command c to pc does to the commands.
LEMMA CmdToMoves ==
  ASSUME AliasInv, NEW c \in Cmds, NEW pc, CmdTo(c, pc), pc # "start", pc = "rm" => Of(c).op = "rm"
  PROVE  CmdMoves(c) /\ cmd'[c].pc = pc
<1>1. cmd' = [cmd EXCEPT ![c] = [cmd[c] EXCEPT !.pc = pc]]
  BY Zenon DEF CmdTo
<1>2. [cmd[c] EXCEPT !.pc = pc] = [pc |-> pc, seq |-> cmd[c].seq]
  <2> DEFINE was == cmd[c]
  <2>1. was = [pc |-> was.pc, seq |-> was.seq]
    BY Zenon DEF AliasInv, AliasTypes
  <2> HIDE DEF was
  <2>2. [was EXCEPT !.pc = pc] = [pc |-> pc, seq |-> was.seq]
    BY <2>1
  <2> QED
    BY Zenon, <2>2 DEF was
<1>3. cmd' = [d \in Cmds |-> IF d = c THEN [pc |-> pc, seq |-> cmd[c].seq] ELSE cmd[d]]
  BY <1>1, <1>2, Zenon DEF AliasInv, AliasTypes
<1> QED
  BY Zenon, <1>3 DEF CmdMoves

\* CmdMoves keep the types and the stages.
LEMMA CmdMovesKeep ==
  ASSUME AliasInv, NEW c \in Cmds, CmdMoves(c), DOMAIN index' = Fqdns, CommandsOf(aliasMenu'), \A d : Of(d)' = Of(d)
  PROVE  AliasTypes' /\ AliasStages'
<1>1. AliasTypes'
  BY Zenon DEF AliasInv, AliasTypes, CmdMoves
<1>2. AliasStages'
  BY Zenon DEF AliasInv, AliasStages, CmdMoves, CmdAt
<1> QED
  BY Zenon, <1>1, <1>2

\* A holder keeps its domain where the entry stays with its identity, or where a
\* removal by that identity is under way.
LEMMA ClaimsKept ==
  ASSUME AliasInv, NEW c \in Cmds, CmdMoves(c), \A d : Of(d)' = Of(d),
         Of(c).op = "set" /\ cmd'[c].pc = "ok" => Held(c)',
         \A d \in Cmds : Held(d) => Held(d)' \/ (Of(c).op = "rm" /\ Of(c).fp = Of(d).fp /\ Of(c).fqdn = Of(d).fqdn)
  PROVE  ClaimHolds'
<1> SUFFICES ASSUME NEW d \in Cmds, Of(d).op = "set", cmd'[d].pc = "ok"
             PROVE  \/ Held(d)'
                    \/ \E e \in Cmds : /\ Of(e).op = "rm" /\ cmd'[e].pc # "start"
                                       /\ Of(e).fp = Of(d).fp /\ Of(e).fqdn = Of(d).fqdn
  BY SMTT(30) DEF ClaimHolds, CmdAt
<1>1. CASE d = c
  BY SMTT(30), <1>1
<1>2. CASE d # c
  <2>1. CmdAt(d, "ok")
    BY <1>2, SMTT(30) DEF CmdMoves, CmdAt
  <2>2. \/ Held(d)
        \/ \E e \in Cmds : /\ Of(e).op = "rm" /\ ~CmdAt(e, "start")
                           /\ Of(e).fp = Of(d).fp /\ Of(e).fqdn = Of(d).fqdn
    BY <2>1, Zenon DEF AliasInv, ClaimHolds
  <2>3. cmd'[c].pc # "start"
    BY Zenon DEF CmdMoves
  <2>4. \A e \in Cmds : ~CmdAt(e, "start") => cmd'[e].pc # "start"
    BY Zenon DEF CmdMoves, CmdAt
  <2> QED
    BY Zenon, <2>2, <2>3, <2>4
<1> QED
  BY Zenon, <1>1, <1>2
----------------------------------------------------------------------------
(* The steps.                                                                 *)

\* A step of one command that leaves the records and the index alone.
LEMMA QuietCommand ==
  ASSUME AliasInv, NEW c \in Cmds, CmdMoves(c), UNCHANGED <<records, index, stranded>>,
         CommandsOf(aliasMenu'), \A d : Of(d)' = Of(d), Of(c).op = "set" => cmd'[c].pc # "ok"
  PROVE  AliasInv'
<1>1. AliasTypes' /\ AliasStages'
  BY CmdMovesKeep, SMTT(30) DEF AliasInv, AliasTypes
<1>2. ClaimRecords' /\ IndexHasRecord'
  BY SMTT(30) DEF AliasInv, ClaimRecords, IndexHasRecord
<1>3. \A d \in Cmds : Held(d) => Held(d)'
  BY SMTT(30) DEF Held
<1>4. ClaimHolds'
  BY Zenon, <1>3, ClaimsKept
<1> QED
  BY <1>1, <1>2, <1>4, SMTT(30) DEF AliasInv

\* A record that was written is a record of the same identity, site and domain.
LEMMA RecordsReplaced ==
  ASSUME AliasInv, NEW c \in Cmds, records' \in {records, (records \ Own(c)) \cup {Record(c)}},
         NEW f, NEW fp, NEW site, \E r \in records : r.fqdn = f /\ r.fp = fp /\ r.site = site
  PROVE  \E r \in records' : r.fqdn = f /\ r.fp = fp /\ r.site = site
<1>1. PICK r \in records : r.fqdn = f /\ r.fp = fp /\ r.site = site
  BY Zenon
<1>2. CASE r \in records'
  BY Zenon, <1>1, <1>2
<1>3. CASE r \notin records'
  <2>1. r \in Own(c) /\ Record(c) \in records'
    BY SMTT(30), <1>1, <1>3
  <2>2. Record(c).fqdn = f /\ Record(c).fp = fp /\ Record(c).site = site
    BY Zenon, <1>1, <2>1 DEF Own, Record
  <2> QED
    BY Zenon, <2>1, <2>2
<1> QED
  BY Zenon, <1>2, <1>3

\* The command's claim enters the index, backed by its record; what others hold
\* stays theirs.
LEMMA PutKeeps ==
  ASSUME AliasInv, NEW c \in Cmds, put(c), CommandsOf(aliasMenu'), \A d : Of(d)' = Of(d)
  PROVE  AliasInv'
<1> DEFINE f == Of(c).fqdn
           after == (records \ Own(c)) \cup {Record(c)}
<1>1. Of(c).fqdn \in Fqdns /\ Claim(c) # Unclaimed /\ Claim(c).fp = Of(c).fp /\ Claim(c).site = Of(c).site
  BY Zenon DEF AliasInv, AliasTypes, CommandsOf, Of, Claim
<1>2. records' \in {records, after} /\ stranded' = stranded
  BY Zenon DEF put
<1>3. \/ /\ Claimable(c) /\ records' = after /\ index' = [index EXCEPT ![f] = Claim(c)]
         /\ CmdTo(c, "ok") \/ CmdTo(c, "failed")
      \/ index' = index /\ CmdTo(c, "failed")
  BY SMTT(30) DEF put, do_write_alias_index
<1>4. CmdMoves(c)
  BY Zenon, <1>3, CmdToMoves
<1>5. AliasTypes' /\ AliasStages'
  BY <1>3, <1>4, CmdMovesKeep, Zenon DEF AliasInv, AliasTypes
<1>r. ClaimRecords'
  <2>1. Record(c).fp = Of(c).fp /\ Record(c).site = Of(c).site
    BY Zenon DEF Record
  <2>2. [fp |-> Record(c).fp, site |-> Record(c).site] # Unclaimed
    BY <1>1, <2>1, SMTT(30) DEF Claim
  <2> QED
    BY Zenon, <1>2, <2>2 DEF AliasInv, ClaimRecords
<1>6. CASE index' = index /\ CmdTo(c, "failed")
  <2>1. IndexHasRecord'
    <3> SUFFICES ASSUME NEW g \in Fqdns, index'[g] # Unclaimed, g \notin stranded'
                 PROVE  \E r \in records' : r.fqdn = g /\ r.fp = index'[g].fp /\ r.site = index'[g].site
      BY Zenon DEF IndexHasRecord
    <3>1. \E r \in records : r.fqdn = g /\ r.fp = index[g].fp /\ r.site = index[g].site
      BY <1>2, <1>6, SMTT(30) DEF AliasInv, IndexHasRecord
    <3>2. \E r \in records' : r.fqdn = g /\ r.fp = index[g].fp /\ r.site = index[g].site
      BY SMTT(30), <1>2, <3>1, RecordsReplaced
    <3> QED
      BY Zenon, <1>6, <3>2
  <2>2. \A d \in Cmds : Held(d) => Held(d)'
    BY Zenon, <1>6 DEF Held
  <2>3. cmd'[c].pc # "ok"
    BY SMTT(30), <1>6, CmdToMoves
  <2> QED
    BY <1>4, <1>5, <1>r, <2>1, <2>2, <2>3, ClaimsKept, Zenon DEF AliasInv
<1>7. CASE Claimable(c) /\ records' = after /\ index' = [index EXCEPT ![f] = Claim(c)]
  <2>1. index'[f] = Claim(c) /\ \A g \in Fqdns : g # f => index'[g] = index[g]
    BY Zenon, <1>1, <1>7 DEF AliasInv, AliasTypes
  <2>2. IndexHasRecord'
    <3> SUFFICES ASSUME NEW g \in Fqdns, index'[g] # Unclaimed, g \notin stranded'
                 PROVE  \E r \in records' : r.fqdn = g /\ r.fp = index'[g].fp /\ r.site = index'[g].site
      BY Zenon DEF IndexHasRecord
    <3>1. CASE g = f
      <4>1. Record(c) \in records'
        BY SMTT(30), <1>7
      <4>2. Record(c).fqdn = f /\ Record(c).fp = Claim(c).fp /\ Record(c).site = Claim(c).site
        BY <1>1, Zenon DEF Record
      <4> QED
        BY Zenon, <2>1, <3>1, <4>1, <4>2
    <3>2. CASE g # f
      <4>1. \E r \in records : r.fqdn = g /\ r.fp = index[g].fp /\ r.site = index[g].site
        BY Zenon, <1>2, <2>1, <3>2 DEF AliasInv, IndexHasRecord
      <4>2. \E r \in records' : r.fqdn = g /\ r.fp = index[g].fp /\ r.site = index[g].site
        BY ONLY AliasInv, c \in Cmds, <1>2, <4>1, RecordsReplaced
      <4> QED
        BY SMTT(30), <2>1, <3>2, <4>2
    <3> QED
      BY Zenon, <3>1, <3>2
  <2>3. Held(c)'
    BY Zenon, <1>1, <2>1 DEF Held
  <2>4. ASSUME NEW d \in Cmds, Held(d) PROVE Held(d)'
    <3>1. CASE Of(d).fqdn = f
      <4>1. index[f] # Unclaimed /\ index[f].fp = Of(d).fp
        BY Zenon, <2>4, <3>1 DEF Held
      <4>2. Of(d).fp = Of(c).fp
        BY <1>7, <4>1, Zenon DEF Claimable
      <4> QED
        BY Zenon, <1>1, <2>1, <3>1, <4>2 DEF Held
    <3>2. CASE Of(d).fqdn # f
      <4>1. Of(d).fqdn \in Fqdns
        BY Zenon DEF AliasInv, AliasTypes, CommandsOf, Of
      <4> QED
        BY Zenon, <2>1, <2>4, <3>2, <4>1 DEF Held
    <3> QED
      BY SMTT(30), <3>1, <3>2
  <2> QED
    BY <1>4, <1>5, <1>r, <2>2, <2>3, <2>4, ClaimsKept, SMTT(30) DEF AliasInv
<1> QED
  BY SMTT(30), <1>3, <1>6, <1>7

\* Only the holder's own entry goes, with its record or as a stranded one.
LEMMA DeleteKeeps ==
  ASSUME AliasInv, NEW c \in Cmds, delete(c), CommandsOf(aliasMenu'), \A d : Of(d)' = Of(d)
  PROVE  AliasInv'
<1> DEFINE f == Of(c).fqdn
           cleared == IF Held(c) THEN [index EXCEPT ![f] = Unclaimed] ELSE index
<1>1. Of(c).op = "rm" /\ f \in Fqdns
  BY Zenon DEF delete, AliasInv, AliasStages, AliasTypes, CommandsOf, Of
<1>2. \/ records' = records /\ index' = index /\ stranded' = stranded
      \/ records' \in {records, records \ Own(c)} /\ index' = cleared /\ stranded' = stranded
      \/ records' = records \ Own(c) /\ index' = index /\ stranded' = stranded \cup {f}
  BY Zenon DEF delete
<1>3. CmdTo(c, "ok") \/ CmdTo(c, "failed")
  BY SMTT(30) DEF delete
<1>4. CmdMoves(c)
  BY SMTT(30), <1>3, CmdToMoves
<1>5. DOMAIN index' = Fqdns
  BY <1>2, Zenon DEF AliasInv, AliasTypes
<1>6. AliasTypes' /\ AliasStages'
  BY Zenon, <1>4, <1>5, CmdMovesKeep
<1>7. IndexHasRecord'
  <2> SUFFICES ASSUME NEW g \in Fqdns, index'[g] # Unclaimed, g \notin stranded'
               PROVE  \E r \in records' : r.fqdn = g /\ r.fp = index'[g].fp /\ r.site = index'[g].site
    BY Zenon DEF IndexHasRecord
  <2>1. index'[g] = index[g] /\ g \notin stranded
    BY <1>1, <1>2, Zenon DEF AliasInv, AliasTypes
  <2>2. PICK r \in records : r.fqdn = g /\ r.fp = index[g].fp /\ r.site = index[g].site
    BY <2>1, Zenon DEF AliasInv, IndexHasRecord
  <2>3. r \in records'
    <3>1. CASE r \notin Own(c)
      BY SMTT(30), <1>2, <3>1
    <3>2. CASE r \in Own(c)
      <4>1. g = f /\ Held(c)
        BY <2>1, <2>2, <3>2, Zenon DEF Own, Held
      <4> QED
        BY <1>1, <1>2, <4>1, Zenon DEF AliasInv, AliasTypes
    <3> QED
      BY SMTT(30), <3>1, <3>2
  <2> QED
    BY SMTT(30), <2>1, <2>2, <2>3
<1>8. ASSUME NEW d \in Cmds, Held(d)
      PROVE  Held(d)' \/ (Of(c).fp = Of(d).fp /\ Of(c).fqdn = Of(d).fqdn)
  <2>1. CASE index' = index
    BY Zenon, <1>8, <2>1 DEF Held
  <2>2. CASE Held(c) /\ index' = [index EXCEPT ![f] = Unclaimed]
    <3>1. Of(d).fqdn \in Fqdns
      BY Zenon DEF AliasInv, AliasTypes, CommandsOf, Of
    <3>2. CASE Of(d).fqdn = f
      BY <1>8, <2>2, <3>2, SMTT(30) DEF Held
    <3>3. CASE Of(d).fqdn # f
      BY <1>8, <2>2, <3>1, <3>3, Zenon DEF Held, AliasInv, AliasTypes
    <3> QED
      BY SMTT(30), <3>2, <3>3
  <2> QED
    BY Zenon, <1>2, <2>1, <2>2
<1>9. ClaimHolds'
  BY Zenon, <1>1, <1>4, <1>8, ClaimsKept
<1>10. ClaimRecords'
  BY Zenon, <1>2 DEF AliasInv, ClaimRecords
<1> QED
  BY <1>6, <1>7, <1>9, <1>10, SMTT(30) DEF AliasInv

\* A restart gives a free entry to a claimant and a held one to its holder.
LEMMA RebuildKeeps ==
  ASSUME AliasInv, rebuild_alias_index, CommandsOf(aliasMenu'), \A d : Of(d)' = Of(d)
  PROVE  AliasInv'
<1>1. AliasTypes' /\ AliasStages' /\ ClaimRecords'
  BY SMTT(30) DEF rebuild_alias_index, AliasInv, AliasTypes, AliasStages, ClaimRecords, CmdAt
<1>2. ASSUME NEW f \in Fqdns
      PROVE  \/ index'[f] = index[f]
             \/ \E r \in records : /\ r.fqdn = f /\ (index[f] = Unclaimed \/ r.fp = index[f].fp)
                                   /\ index'[f] # Unclaimed /\ index'[f].fp = r.fp /\ index'[f].site = r.site
  <2>1. \/ index'[f] = index[f]
        \/ \E r \in records : /\ r.fqdn = f /\ (index[f] = Unclaimed \/ r.fp = index[f].fp)
                              /\ index'[f] = [fp |-> r.fp, site |-> r.site]
    BY Zenon DEF rebuild_alias_index
  <2>2. ASSUME NEW r \in records, index'[f] = [fp |-> r.fp, site |-> r.site]
        PROVE  index'[f] # Unclaimed /\ index'[f].fp = r.fp /\ index'[f].site = r.site
    <3>1. [fp |-> r.fp, site |-> r.site] # Unclaimed
      BY Zenon DEF AliasInv, ClaimRecords
    <3>2. index'[f] # Unclaimed
      BY SMTT(30), <2>2, <3>1
    <3> QED
      BY <2>2, <3>2
  <2>3. CASE index'[f] # index[f]
    <3>1. PICK r \in records : /\ r.fqdn = f /\ (index[f] = Unclaimed \/ r.fp = index[f].fp)
                               /\ index'[f] = [fp |-> r.fp, site |-> r.site]
      BY Zenon, <2>1, <2>3
    <3> QED
      BY Zenon, <2>2, <3>1
  <2> QED
    BY Zenon, <2>3
<1>3. IndexHasRecord'
  <2> SUFFICES ASSUME NEW f \in Fqdns, index'[f] # Unclaimed, f \notin stranded
               PROVE  \E r \in records : r.fqdn = f /\ r.fp = index'[f].fp /\ r.site = index'[f].site
    BY Zenon DEF IndexHasRecord, rebuild_alias_index
  <2>1. CASE index'[f] = index[f]
    BY <2>1 DEF AliasInv, IndexHasRecord
  <2>2. CASE index'[f] # index[f]
    BY Zenon, <1>2, <2>2
  <2> QED
    BY Zenon, <2>1, <2>2
<1>4. ASSUME NEW d \in Cmds, Held(d)
      PROVE  Held(d)'
  <2> DEFINE f == Of(d).fqdn
  <2>1. f \in Fqdns
    BY Zenon DEF AliasInv, AliasTypes, CommandsOf, Of
  <2>2. index[f] # Unclaimed /\ index[f].fp = Of(d).fp
    BY Zenon, <1>4 DEF Held
  <2>3. index'[f] # Unclaimed /\ index'[f].fp = Of(d).fp
    BY Zenon, <1>2, <2>1, <2>2
  <2> QED
    BY Zenon, <2>3 DEF Held
<1>5. ClaimHolds'
  BY Zenon, <1>4 DEF AliasInv, ClaimHolds, CmdAt, rebuild_alias_index
<1> QED
  BY Zenon, <1>1, <1>3, <1>5 DEF AliasInv

\* Every step keeps the invariant.
LEMMA NextAlias == AliasInv /\ [AliasNext]_aliasVars => AliasInv'
<1> SUFFICES ASSUME AliasInv, [AliasNext]_aliasVars PROVE AliasInv'
  BY Zenon
<1>1. CASE UNCHANGED aliasVars
  <2>1. AliasTypes' /\ AliasStages' /\ ClaimRecords'
    BY Zenon, <1>1 DEF aliasVars, AliasInv, AliasTypes, AliasStages, ClaimRecords, CmdAt, Of
  <2>2. IndexHasRecord'
    BY <1>1, SMTT(30) DEF aliasVars, AliasInv, IndexHasRecord
  <2>3. ClaimHolds'
    BY Zenon, <1>1 DEF aliasVars, AliasInv, ClaimHolds, CmdAt, Of, Held
  <2> QED
    BY Zenon, <2>1, <2>2, <2>3 DEF AliasInv
<1>2. CASE AliasNext
  <2>0. CommandsOf(aliasMenu') /\ \A d : Of(d)' = Of(d)
    BY Zenon, <1>2, CommandsStay
  <2>1. CASE rebuild_alias_index
    BY Zenon, <2>0, <2>1, RebuildKeeps
  <2>2. ASSUME NEW c \in Cmds, cmd_alias_set(c) \/ cmd_alias_rm(c)
        PROVE  AliasInv'
    <3>1. UNCHANGED <<records, index, stranded>>
      BY <2>2, SMTT(30) DEF cmd_alias_set, cmd_alias_rm, Prepare, Store
    <3>2. \/ CmdTo(c, "failed")
          \/ \E n : cmd' = [cmd EXCEPT ![c] = [pc |-> "identity", seq |-> n]]
          \/ \E n : cmd' = [cmd EXCEPT ![c] = [pc |-> "check", seq |-> n]]
      BY Zenon, <2>2 DEF cmd_alias_set, cmd_alias_rm, Prepare, signed_alias_record
    <3>3. CmdMoves(c) /\ cmd'[c].pc # "ok"
      <4>1. CASE CmdTo(c, "failed")
        BY <4>1, CmdToMoves
      <4>2. ASSUME NEW n, NEW pc \in {"identity", "check"}, cmd' = [cmd EXCEPT ![c] = [pc |-> pc, seq |-> n]]
            PROVE  CmdMoves(c) /\ cmd'[c].pc # "ok"
        BY <4>2, Zenon DEF AliasInv, AliasTypes, CmdMoves
      <4> QED
        BY Zenon, <3>2, <4>1, <4>2
    <3> QED
      BY Zenon, <2>0, <3>1, <3>3, QuietCommand
  <2>3. ASSUME NEW c \in Cmds, RegisterOwner(c)
        PROVE  AliasInv'
    <3>1. UNCHANGED <<records, index, stranded>> /\ (CmdTo(c, "check") \/ CmdTo(c, "failed"))
      BY Zenon, <2>3 DEF RegisterOwner
    <3>2. CmdMoves(c) /\ cmd'[c].pc # "ok"
      BY SMTT(30), <3>1, CmdToMoves
    <3> QED
      BY Zenon, <2>0, <3>1, <3>2, QuietCommand
  <2>4. ASSUME NEW c \in Cmds, check_alias_monotonic(c)
        PROVE  AliasInv'
    <3>1. UNCHANGED <<records, index, stranded>> /\ (CmdTo(c, Of(c).op) \/ CmdTo(c, "failed"))
      BY <2>4, Zenon DEF check_alias_monotonic, Store
    <3>2. Of(c).op \in {"set", "rm"}
      BY Zenon DEF AliasInv, AliasTypes, CommandsOf, Of
    <3>3. CmdMoves(c) /\ cmd'[c].pc # "ok"
      <4>1. CASE CmdTo(c, Of(c).op)
        BY Zenon, <3>2, <4>1, CmdToMoves
      <4>2. CASE CmdTo(c, "failed")
        BY <4>2, CmdToMoves
      <4> QED
        BY Zenon, <3>1, <4>1, <4>2
    <3> QED
      BY SMTT(30), <2>0, <3>1, <3>3, QuietCommand
  <2>5. ASSUME NEW c \in Cmds, put(c) PROVE AliasInv'
    BY Zenon, <2>0, <2>5, PutKeeps
  <2>6. ASSUME NEW c \in Cmds, delete(c) PROVE AliasInv'
    BY Zenon, <2>0, <2>6, DeleteKeeps
  <2> QED
    BY Zenon, <1>2, <2>1, <2>2, <2>3, <2>4, <2>5, <2>6 DEF AliasNext
<1> QED
  BY Zenon, <1>1, <1>2

\* In every behaviour what the index serves is backed by a record, and a domain
\* stays with the identity that was told it holds it until that identity asks
\* for its removal.
THEOREM AliasSoundHolds == AliasSpec => []AliasSound
<1>1. AliasSpec => []AliasInv
  BY InitAlias, NextAlias, PTL DEF AliasSpec
<1>2. AliasInv => AliasSound
  BY Zenon DEF AliasInv, AliasSound
<1> QED
  BY <1>1, <1>2, PTL
=============================================================================
