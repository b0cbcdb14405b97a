----------------------------- MODULE MCSession -----------------------------
(***************************************************************************)
(* Small instances of Session for TLC: shapes of the classes, the graphs a *)
(* session starts from, and the calls each run makes.                      *)
(***************************************************************************)
EXTENDS SessionProperties, TLC

CONSTANTS p, q, o, n1, n2

\* Persons p and q work for the organization o.
Employment == [i \in Iris |-> IF i = o THEN {} ELSE {o}]

\* Everybody may manage everybody else.
Staff == [i \in Iris |-> Iris \ {i}]

NoTriples == {}

\* Another client moves p in and out of o, and creates and removes o.
ForeignTriples == {<<p, "rel", o>>, <<o, "type", "Class">>}

\* o manages p and q, and a note about p that no class declares.
Staffed == {<<i, "type", "Class">> : i \in Iris} \cup {<<i, "name", n1>> : i \in Iris}
             \cup {<<p, "rel", o>>, <<q, "rel", o>>, <<q, "note", p>>}

CacheOps == {"put", "get", "refresh", "merge", "new"}

CoherenceOps == {"put", "get", "add", "delete", "new"}

DeferredOps == {"put", "queue", "add", "delete", "execute", "flush", "rollback", "close",
                "exit", "exit_error", "expire", "expunge", "expunge_all", "new"}

RefreshOps == {"put", "refresh", "new"}

StaffOps == {"put", "new", "edit"}

UnflushedOps == StaffOps \cup {"queue", "delete", "merge"}

EndpointOps == {"get", "all", "refresh", "sync_mirror", "put", "new"}
=============================================================================
