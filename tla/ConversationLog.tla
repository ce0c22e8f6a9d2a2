-------------------------- MODULE ConversationLog --------------------------
(***************************************************************************)
(* What a conversation column promises its readers when nothing keeps two  *)
(* appends apart.  The column always holds a value that some append        *)
(* produced: an earlier value of the column with one new entry at its end. *)
(* An append may therefore discard what was written since the value it     *)
(* extends, but it never edits, reorders, duplicates or invents an entry,  *)
(* and deleting the row ends the log for good.                             *)
(***************************************************************************)
EXTENDS Sequences, SequencesExt

CONSTANT Entries

VARIABLES
  present,    \* the row exists
  log,        \* the entries of the column
  versions    \* every value the column has had

logVars == <<present, log, versions>>

Known == UNION {ToSet(v) : v \in versions}

LogInit ==
  /\ present = TRUE
  /\ log = <<>>
  /\ versions = {<<>>}

Extend(v, e) ==
  /\ present
  /\ e \notin Known
  /\ log' = Append(v, e)
  /\ versions' = versions \cup {log'}
  /\ UNCHANGED present

RemoveRow ==
  /\ present
  /\ present' = FALSE
  /\ log' = <<>>
  /\ UNCHANGED versions

LogNext ==
  \/ \E v \in versions, e \in Entries : Extend(v, e)
  \/ RemoveRow

LogSpec == LogInit /\ [][LogNext]_logVars
=============================================================================
