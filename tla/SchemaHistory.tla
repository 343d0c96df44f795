---------------------------- MODULE SchemaHistory ----------------------------
(***************************************************************************)
(* What the migration runner promises about the schema, however many       *)
(* instances boot at once and whichever of them die: it has a history, the *)
(* files of one image at a time, whole, in the order of their names, each  *)
(* file once, and never two contents under one name.                       *)
(***************************************************************************)
EXTENDS Naturals, Sequences, FiniteSets

CONSTANT Images \* the migration directories: functions from file numbers to contents

VARIABLE schema \* the files whose SQL took effect, in that order

Applied == {schema[k].file : k \in DOMAIN schema}

Init == schema = <<>>

Sorted(files) == \A j, k \in DOMAIN files : j < k => files[j] < files[k]

Migrate(image) ==
    LET missing == DOMAIN image \ Applied
    IN  /\ missing # {}
        /\ \A k \in DOMAIN schema : schema[k].file \in DOMAIN image =>
               schema[k].checksum = image[schema[k].file]
        /\ \E files \in [1 .. Cardinality(missing) -> missing] :
               /\ Sorted(files)
               /\ schema' = schema \o [k \in DOMAIN files |->
                                           [file |-> files[k], checksum |-> image[files[k]]]]

Next == \E image \in Images : Migrate(image)

Spec == Init /\ [][Next]_schema
=============================================================================
