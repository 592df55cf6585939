---------------------------- MODULE MCMetadataDoc ----------------------------
(* Small instances of MetadataDoc: a retry waits for at most two ticks, and *)
(* an alert is raised again after two.                                      *)
EXTENDS MetadataDoc

CONSTANTS c1, stamp, t0, t1

AlertKeys == {"metadata", "sol"}
Bare == [has |-> {}, room |-> Kinds, description |-> t0]
Full == [has |-> {"tags"}, room |-> {}, description |-> t0]
EditedDocs == {Bare, Full}
=============================================================================
