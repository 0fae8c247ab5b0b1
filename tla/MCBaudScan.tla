----------------------------- MODULE MCBaudScan -----------------------------
(* Requests with junk and repetitions in them, some too long to fit, and   *)
(* four kinds of noise: silence, console text, garbage, and text that      *)
(* scores higher than the console's but is torn by unprintable bytes.      *)
EXTENDS BaudScan

Heard(n, printable, text, spaces, crlf, lf, nulls) ==
  [n |-> n, printable |-> printable, text |-> text, spaces |-> spaces,
   crlf |-> crlf, lf |-> lf, nulls |-> nulls]

MCChunks == {Empty, Heard(8, 8, 4, 1, 1, 1, 0), Heard(8, 2, 1, 0, 0, 0, 4),
             Heard(8, 6, 5, 1, 0, 1, 0)}

Ask(mode, list, off, capture) ==
  [mode |-> mode, rates |-> list, off |-> off, capture |-> capture]

MCAsks ==
  { Ask("passive", <<0, 2, NoRate, 2, 1>>, 0, 0),
    Ask("passive", <<1, 2, 3>>, 0, 0),
    Ask("passive", <<9, 0>>, 0, 0),
    Ask("passive", <<1, 2, 3, 4, 5, 6>>, 0, 0),
    Ask("cycling", <<3, 1>>, 2, 3),
    Ask("cycling", <<3, 1>>, -5, 7),
    Ask("cycling", <<1, 2>>, 5, 1),
    Ask("cycling", <<1, 2>>, 9, 1),
    Ask("cycling", <<1>>, 1, -2) }
=============================================================================
