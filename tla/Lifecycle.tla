------------------------------ MODULE Lifecycle ------------------------------
(***************************************************************************)
(* packages/context-schema: the pure half of a context's life.             *)
(* lifecycle.ts says which status may follow which; crystallize.ts says    *)
(* what of a context's memory a template keeps.                            *)
(***************************************************************************)
ContextTypes == {"ephemeral", "persistent", "crystallized"}
ContextStatuses == {"draft", "active", "waiting", "completed", "archived", "failed"}

(* CONTEXT_TRANSITIONS *)
ContextTransitions ==
    [draft     |-> {"active", "archived", "failed"},
     active    |-> {"waiting", "completed", "failed", "archived"},
     waiting   |-> {"active", "completed", "failed", "archived"},
     completed |-> {"archived", "active"},
     failed    |-> {"active", "archived"},
     archived  |-> {"active"}]

(* transition(): the statuses it may return, none when it refuses.  An     *)
(* ephemeral context that completes is archived at once.                   *)
Transition(status, next, type) ==
    IF next = status THEN {status}
    ELSE IF next \notin ContextTransitions[status] THEN {}
    ELSE IF next = "completed" /\ type = "ephemeral" THEN {"archived"}
    ELSE {next}

(* isCrystallizable() *)
Crystallizable(type, status) == type # "crystallized" /\ status # "draft"

(* `secretName`: the key looks like a credential (SECRET_KEY). *)
MemoryEntry == [secretName : BOOLEAN, sensitive : BOOLEAN,
                scope : {"durable", "working", "ephemeral"}]

(* memoryDropReason() gives a reason *)
Dropped(entry) == entry.secretName \/ entry.sensitive \/ entry.scope # "durable"
=============================================================================
