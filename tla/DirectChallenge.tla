-------------------------- MODULE DirectChallenge --------------------------
(* Direct identity login (mjolnir_biscuit/src/direct_challenge.rs).  A holder *)
(* answers a challenge the endpoint issued and signs a bind of a session key  *)
(* to the operation, the resource and the connection it is on.  The endpoint  *)
(* checks identity, bind, connection and policy, and only then consumes the   *)
(* challenge and issues the credential, in one transaction of its store.      *)
EXTENDS Naturals, FiniteSets

CONSTANTS
    Attempts,        \* the verifications under way, on any threads
    Challenges,
    PinnedEdge,      \* context.pinned_edge_xid
    NoConn,          \* no authenticated channel at hand
    ChallengeMenus   \* per behaviour: what each attempt submits, the faults left

\* A submission answers an issued challenge and carries a bind.
WellFormed(m) ==
    /\ m = [submits |-> m.submits, faults |-> m.faults, retries |-> m.retries]
    /\ \A a \in Attempts :
          LET b == m.submits[a].bind
          IN  /\ m.submits[a].challenge \in Challenges
              /\ b.keyFits \in BOOLEAN
              /\ b = [by |-> b.by, keyFits |-> b.keyFits, challenge |-> b.challenge, conn |-> b.conn]

ASSUME MenusWellFormed == \A m \in ChallengeMenus : WellFormed(m)

VARIABLES
    issued,          \* issued[c]: "open", "expired" or "used"
    credentials,     \* the attempts whose credential is durable
    attempt,         \* attempt[a]: the step it has reached, or its verdict
    chMenu

challengeVars == <<issued, credentials, attempt, chMenu>>

Submitted(a) == chMenu.submits[a]

Reaches(a, step) == attempt' = [attempt EXCEPT ![a] = step]

----------------------------------------------------------------------------

\* external (identikey_auth): the response is signed by the holder, for the
\* pinned audience and inside the challenge's time window.
verify_response(a) ==
    /\ Submitted(a).audience = PinnedEdge
    /\ Submitted(a).signed

\* The endpoint's store, by its contract: an exact challenge that was issued,
\* has not expired and has not been used.
check_issued(c) == issued[c] = "open"

\* Identity first; StagedNonce::consume only looks, it spends nothing.
Identity(a) ==
    /\ attempt[a] = "submitted"
    /\ Reaches(a, IF verify_response(a) /\ check_issued(Submitted(a).challenge)
                  THEN "identity" ELSE "refused")
    /\ UNCHANGED <<issued, credentials, chMenu>>

\* The bind's signature covers bind_signing_bytes: this challenge, the session
\* key, the operation, the resource and the channel.  The key that must have
\* signed is the response's; the session key has its algorithm's length.
Bound(a) ==
    LET b == Submitted(a).bind
    IN  /\ b.by = Submitted(a).holder
        /\ b.challenge = Submitted(a).challenge
        /\ b.keyFits

Bind(a) ==
    /\ attempt[a] = "identity"
    /\ Reaches(a, IF Bound(a) THEN "bind" ELSE "refused")
    /\ UNCHANGED <<issued, credentials, chMenu>>

\* AuthenticatedChannel::binding: the adapter's connection, proven to the
\* pinned edge, and the bind must name that very connection.
Binding(a) ==
    /\ Submitted(a).conn # NoConn
    /\ Submitted(a).edge = PinnedEdge
    /\ Submitted(a).bind.conn = Submitted(a).conn

Channel(a) ==
    /\ attempt[a] = "bind"
    /\ Reaches(a, IF Binding(a) THEN "channel" ELSE "refused")
    /\ UNCHANGED <<issued, credentials, chMenu>>

Policy(a) ==
    /\ attempt[a] = "channel"
    /\ Reaches(a, IF Submitted(a).allowed THEN "policy" ELSE "refused")
    /\ UNCHANGED <<issued, credentials, chMenu>>

\* Mutant: the look at staging is trusted.
CommitUnchecked(a) ==
    /\ attempt[a] = "policy"
    /\ issued' = [issued EXCEPT ![Submitted(a).challenge] = "used"]
    /\ credentials' = credentials \cup {a}
    /\ Reaches(a, "issued")
    /\ UNCHANGED chMenu

\* The store's transaction rechecks the challenge: the loser of a race is
\* refused, and a failure before the commit changes nothing.
commit(a) ==
    /\ attempt[a] = "policy"
    /\ LET c == Submitted(a).challenge IN
       \/ /\ check_issued(c)
          /\ issued' = [issued EXCEPT ![c] = "used"]
          /\ credentials' = credentials \cup {a}
          /\ Reaches(a, "issued")
       \/ /\ ~check_issued(c)
          /\ Reaches(a, "refused")
          /\ UNCHANGED <<issued, credentials>>
    /\ UNCHANGED chMenu

CommitFails(a) ==
    /\ attempt[a] = "policy"
    /\ chMenu.faults > 0
    /\ chMenu' = [chMenu EXCEPT !.faults = @ - 1]
    /\ Reaches(a, "refused")
    /\ UNCHANGED <<issued, credentials>>

\* A client whose attempt failed, or whose answer was lost, tries again.
Retry(a) ==
    /\ attempt[a] \in {"refused", "issued"}
    /\ chMenu.retries > 0
    /\ chMenu' = [chMenu EXCEPT !.retries = @ - 1]
    /\ Reaches(a, "submitted")
    /\ UNCHANGED <<issued, credentials>>

\* The endpoint restarts: what its store committed is all that is left.
EndpointRestart ==
    /\ chMenu.faults > 0
    /\ chMenu' = [chMenu EXCEPT !.faults = @ - 1]
    /\ attempt' = [a \in Attempts |-> IF attempt[a] \in {"refused", "issued"}
                                      THEN attempt[a] ELSE "refused"]
    /\ UNCHANGED <<issued, credentials>>

Expires(c) ==
    /\ issued[c] = "open"
    /\ issued' = [issued EXCEPT ![c] = "expired"]
    /\ UNCHANGED <<credentials, attempt, chMenu>>

ChallengeInit ==
    /\ chMenu \in ChallengeMenus
    /\ issued = [c \in Challenges |-> "open"]
    /\ credentials = {}
    /\ attempt = [a \in Attempts |-> "submitted"]

\* verify_and_issue, one check after the other.
verify_and_issue(a) ==
    Identity(a) \/ Bind(a) \/ Channel(a) \/ Policy(a) \/ commit(a) \/ CommitFails(a)

ChallengeNext ==
    \/ \E a \in Attempts : verify_and_issue(a) \/ Retry(a)
    \/ \E c \in Challenges : Expires(c)
    \/ EndpointRestart

ChallengeSpec == ChallengeInit /\ [][ChallengeNext]_challengeVars

----------------------------------------------------------------------------

\* A challenge is used exactly when one credential stands for it, and that
\* credential's attempt was bound by the identity's own key to the connection
\* it arrived on: a failed bind, channel, policy or commit spends nothing, and
\* of two racing attempts one wins (verify_and_issue, IssuanceStore::commit:
\* "A concurrent loser returns NonceReplay").
SpentOnceAndBound ==
    /\ \A c \in Challenges : issued[c] = "used" <=> \E a \in credentials : Submitted(a).challenge = c
    /\ \A a, b \in credentials : Submitted(a).challenge = Submitted(b).challenge => a = b
    /\ \A a \in credentials :
          /\ Submitted(a).bind = [by |-> Submitted(a).holder, keyFits |-> TRUE,
                                  challenge |-> Submitted(a).challenge,
                                  conn |-> Submitted(a).conn]
          /\ Submitted(a).edge = PinnedEdge
          /\ Submitted(a).allowed
============================================================================
