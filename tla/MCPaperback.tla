---------------------------- MODULE MCPaperback ----------------------------
(* The instance of Paperback that TLC checks: texts of up to three lines,    *)
(* with and without the prefix ##, with every end of line and every          *)
(* encoding, every word of the tables, and files of another program: one     *)
(* with a character of four bytes, one that ends within it.                  *)
EXTENDS Paperback

MCPrefix == <<35, 35>>

Plain == {<<>>, <<97>>, <<35>>, <<35, 35>>, <<35, 35, 97>>}
Ends == {<<10>>, <<13>>, <<13, 10>>}

\* The words of the tables, and the ones beside their limits.
AllWords == kFromISO88592Table \o kFromMacRomanTable \o <<127, 128, 159, 2047, 2048, 65535>>
Row(i) == SubSeq(AllWords, 10 * i + 1, 10 * i + 10)

Replacing(lines, ending) ==
  [lines |-> lines, ending |-> ending, option |-> "kRepCharOnUnrepChar"]
Stopping(lines, ending) ==
  [lines |-> lines, ending |-> ending, option |-> "kStopOnUnrepChar"]

MCTexts ==
  {Replacing(l, e) : l \in UNION {[1..n -> Plain] : n \in 0..2}, e \in Ends}
  \cup {Replacing(<<<<35, 35, 98, 98>>, x, y>>, e) : x, y \in Plain \ {<<97>>}, e \in Ends}
  \cup {Replacing(<<<<35, 35>> \o Row(i)>>, <<10>>) : i \in 0..22}
  \cup {Stopping(<<<<35, 35, w>>>>, <<10>>) : w \in {233, 321, 960, 65535}}
  \cup {Replacing(<<<<97, 55357, 56832>>>>, <<10>>)}

MCForeign ==
  {[file |-> <<35, 35, 240, 159, 152, 128, 10, 240, 159, 152, 128, 10>>,
    encoding |-> "kUTF8", lines |-> <<<<35, 35, 55357, 56832>>, <<55357, 56832>>>>,
    whole |-> TRUE],
   [file |-> <<97, 10, 240, 159, 152>>, encoding |-> "kUTF8", lines |-> <<<<97>>>>,
    whole |-> FALSE]}
=============================================================================
