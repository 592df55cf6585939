------------------------------- MODULE MCHome -------------------------------
(* Two shipped presets, one of which admits the book, and a document edited *)
(* by hand that does; enough tokens for a fresh one always to exist.        *)
EXTENDS CuratorHome

McOptions ==
  [policy : {None, "standard", "rehearsal"}, yes : BOOLEAN, wait : {TRUE}, wallet : {"none", "local"}]
=============================================================================
