---------------------------- MODULE SharedServer ----------------------------
(***************************************************************************)
(* What the mount table promises about one MCP server, with no locks,      *)
(* entries or device registry: processes own the server together, it runs  *)
(* exactly while it has an owner, and the last owner to leave stops it.    *)
(* MountTable implements it for callers that release once per reference.   *)
(***************************************************************************)
CONSTANT Users

VARIABLES owners, up

svars == <<owners, up>>

SInit == owners = {} /\ up = FALSE

\* The first owner starts the server, the later ones join it.
Join(u) ==
    /\ u \notin owners
    /\ up <=> owners # {}
    /\ owners' = owners \union {u}
    /\ up' = TRUE

Leave(u) ==
    /\ u \in owners
    /\ owners' = owners \ {u}
    /\ up' = (owners' # {})

SNext == \E u \in Users : Join(u) \/ Leave(u)

SSpec == SInit /\ [][SNext]_svars
=============================================================================
