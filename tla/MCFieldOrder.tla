---------------------------- MODULE MCFieldOrder ----------------------------
EXTENDS FieldOrder

MCSymmetry == Permutations(Fields)
=============================================================================
