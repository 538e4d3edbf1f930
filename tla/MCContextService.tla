-------------------------- MODULE MCContextService --------------------------
(***************************************************************************)
(* Small instances of ContextService: one stored context, whose memory has *)
(* an entry of every kind, one demo context, and ids for two more.         *)
(***************************************************************************)
EXTENDS ContextService, TLC

CONSTANTS c1, c2, c3, s1

MCSeedOf ==
    s1 :> [type |-> "crystallized", status |-> "active", template |-> TRUE,
           memory |-> {[secretName |-> FALSE, sensitive |-> FALSE, scope |-> "durable"]},
           tasks |-> {}, log |-> {0}]

StoredDocument ==
    [type |-> "ephemeral", status |-> "waiting", template |-> FALSE,
     memory |-> MemoryEntry, tasks |-> {}, log |-> {0}]

MCStoredTables == {EmptyTable, [EmptyTable EXCEPT ![c1] = StoredDocument]}
MCWorkStored == {[EmptyTable EXCEPT ![c1] = StoredDocument]}

CallSymmetry == Permutations(Calls) \union Permutations({c2, c3})
=============================================================================
