---------------------------- MODULE MCEventRules ----------------------------
(* Two requests on a content with three rules, computes of every provider,   *)
(* and rules on a CEL compute; one record is stored at the start.            *)
EXTENDS EventRules, TLC

CONSTANTS u, anon, none, textU, textA, a, b, x, y, cel, bare, llm, loose, r1, r2

PrincipalText == (u :> textU) @@ (anon :> textA)

Act(do, to) == [do |-> do, to |-> to]
RuleBook == << [on |-> {a}, acts |-> <<Act("insert", none), Act("owner", a)>>],
               [on |-> {b}, acts |-> <<Act("same", a), Act("same", none), Act("send", none),
                                       Act("owner", none)>>],
               [on |-> {a, b}, acts |-> <<>>] >>
ComputeRules == << [compute |-> cel, on |-> {a}, acts |-> <<Act("owner", a)>>],
                   [compute |-> bare, on |-> {a}, acts |-> <<Act("same", a)>>] >>

Of(provider, events, fails, audited) ==
  [provider |-> provider, events |-> events, on |-> {a}, fails |-> fails,
   audited |-> audited]
Definitions ==
  [c \in {cel, bare, llm, loose} |->
     CASE c = cel -> Of("cel", {"created"}, {b}, TRUE)
       [] c = bare -> Of("empty", {}, {}, FALSE)
       [] c = llm -> Of("llm", {"created", "updated"}, {}, TRUE)
       [] c = loose -> Of("none", {"deleted"}, {}, TRUE)]

Starts == { <<>>, <<[owner |-> u, val |-> a, out |-> none]>> }

(* One as it is stored, one that was altered. *)
Posted == { [owner |-> u, val |-> a, out |-> none], [owner |-> none, val |-> b, out |-> x] }

ASSUME NoneForDeleted
=============================================================================
