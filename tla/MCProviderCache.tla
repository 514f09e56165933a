--------------------------- MODULE MCProviderCache ---------------------------
(***************************************************************************)
(* Two planning commands over one cache: a title that TVMaze lists two     *)
(* shows for, and a second title of its own for one of them.               *)
(***************************************************************************)
EXTENDS ProviderCache

CONSTANTS remake, original, first, second

MCUses == [c \in {first, second} |-> IF c = first THEN Modes ELSE {"refresh"}]
MCTitleOf == [s \in {remake, original} |-> IF s = original THEN 1 ELSE 2]
MCListed == [t \in 1..2 |-> IF t = 1 THEN {{original}, {original, remake}} ELSE {{remake}}]
MCSuggested == {{}, {1, 2}}
===============================================================================
