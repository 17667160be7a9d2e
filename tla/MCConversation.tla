--------------------------- MODULE MCConversation ---------------------------
(* Instances of Conversation for TLC: identities are interchangeable. *)
EXTENDS Conversation, TLC

Symmetry == Permutations(Conversation) \cup Permutations(Request) \cup Permutations(Attempt)
            \cup Permutations(Key) \cup Permutations(Question) \cup Permutations(Handler)
=============================================================================
