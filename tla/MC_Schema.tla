----------------------------- MODULE MC_Schema -----------------------------
(* A small instance: two writers, two collections, one with two indexes.  The *)
(* reads of what the collections hold are checked beside it (MC_Reads).       *)
EXTENDS Schema, MC_Reads

CONSTANTS news, digests, date, source, start

MCCreators == <<news, digests>>
MCSchemaOf == (news :> <<date, source>>) @@ (digests :> <<start>>)
=============================================================================
