--------------------------- MODULE MCSmokeRandCli ---------------------------
(***************************************************************************)
(* Plugins of both sizes, one that needs no seed and one whose output does *)
(* not fit its size; the input stream as a generator; a library that does  *)
(* not load; the mode that lists tests.                                    *)
(***************************************************************************)
EXTENDS SmokeRandCli

Generator(kind, nbits, seeded, fits) ==
    [kind |-> kind, nbits |-> nbits, seeded |-> seeded, fits |-> fits]

MCGenerators ==
    {Generator("plugin", 32, TRUE, TRUE), Generator("plugin", 64, FALSE, TRUE),
     Generator("plugin", 32, TRUE, FALSE),
     Generator("stdin", 32, FALSE, TRUE), Generator("stdin", 64, FALSE, TRUE),
     Generator("missing", 32, FALSE, TRUE), Generator("list", 32, FALSE, TRUE)}

=============================================================================
