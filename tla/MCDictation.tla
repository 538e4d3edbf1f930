---------------------------- MODULE MCDictation ----------------------------
(***************************************************************************)
(* Small instances of Dictation: one context, the microphone asked for by  *)
(* default, and a user who has already allowed it for the context.         *)
(***************************************************************************)
EXTENDS Dictation, TLC

CONSTANT c1

MCContexts == {c1}
MCCapabilities == {"audio.capture"}
MCDefaultPolicy == [cap \in MCCapabilities |-> "ask"]
MCStoredPolicies ==
    {{[capability |-> "audio.capture", scope |-> c1, decision |-> "allow"]}}

UtteranceSymmetry == Permutations(Utterances) \union Permutations(RequestIds)
=============================================================================
