------------------------------ MODULE MCStore -------------------------------
(* A call whose callback sends two queries, and one that sends none but    *)
(* waits for the same connection.                                          *)
EXTENDS SerializableStore

CONSTANTS busy, waiting

MCMaxQueries == [c \in Calls |-> IF c = busy THEN 2 ELSE 0]
=============================================================================
