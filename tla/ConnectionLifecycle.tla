------------------------- MODULE ConnectionLifecycle -------------------------
(***************************************************************************)
(* What the calendar API promises about a connection, whatever requests and *)
(* syncs overlap: the user connects it and revokes it; a sync is asked for  *)
(* and taken up only while it is connected, and a revocation is overruled   *)
(* only by what had begun before it.  The credentials that come back then   *)
(* are ones that a sync still holds.                                        *)
(***************************************************************************)
CONSTANTS Grants, NoGrant

VARIABLES
  standing, \* "absent", "connected" or "revoked"
  creds,    \* the grant whose credentials are kept
  asking,   \* whether a sync is being asked for
  held      \* the grants that syncs have taken up

lifecycleVars == <<standing, creds, asking, held>>

LifecycleInit == standing = "absent" /\ creds = NoGrant /\ ~asking /\ held = {}

Become(stage, grant) == standing' = stage /\ creds' = grant

Connect(grant) == Become("connected", grant) /\ UNCHANGED <<asking, held>>

Revoke ==
  standing # "absent" /\ Become("revoked", NoGrant) /\ UNCHANGED <<asking, held>>

Ask == standing = "connected" /\ asking' /\ UNCHANGED <<standing, creds, held>>

\* A sync is granted, whatever became of the connection, or given up.
Answer ==
  /\ asking /\ asking' \in BOOLEAN
  /\ Become("connected", creds) \/ UNCHANGED <<standing, creds>>
  /\ UNCHANGED held

TakeUp ==
  /\ standing = "connected" /\ held' = held \cup {creds}
  /\ UNCHANGED <<standing, creds, asking>>

\* A sync ends, with credentials it refreshed or without, or dies.
Settle(grant) ==
  /\ grant \in held /\ held' \in {held, held \ {grant}}
  /\ \/ \E kept \in {grant, creds} : Become("connected", kept)
     \/ UNCHANGED <<standing, creds>>
  /\ UNCHANGED asking

LifecycleNext ==
  \/ \E grant \in Grants : Connect(grant)
  \/ Revoke \/ Ask \/ Answer \/ TakeUp
  \/ \E grant \in held : Settle(grant)

LifecycleSpec == LifecycleInit /\ [][LifecycleNext]_lifecycleVars
=============================================================================
