--------------------------- MODULE MCStateEntered ---------------------------
(* A review workflow: a submitted record is approved by a rule and an      *)
(* approved one is published by another; a published one can be reopened.  *)
EXTENDS StateEntered

CONSTANTS q1, q2, q3, draft, submitted, approved, published

MCDeclared ==
  {<<draft, submitted>>, <<submitted, approved>>, <<submitted, draft>>,
   <<approved, published>>, <<published, draft>>}

Rule(s, a) == [on |-> s, actions |-> a]

(* Rules in an order that TransitionsLast allows. *)
CascadeBook ==
  << Rule(published, <<Update>>),
     Rule(approved, <<Update>>),
     Rule(approved, <<Update, published>>),
     Rule(submitted, <<Update>>),
     Rule(submitted, <<approved>>) >>

(* The same workflow with a rule declared after the one that moves on. *)
ShadowBook ==
  << Rule(submitted, <<approved>>),
     Rule(approved, <<Update>>) >>

(* The book of the passing run is of the harmless kind. *)
ASSUME CascadeBookOrder == Rules = CascadeBook => TransitionsLast
=============================================================================
