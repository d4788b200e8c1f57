----------------------------- MODULE LineEditor -----------------------------
(***************************************************************************)
(* The line editor of the shell (Shell::readInteractiveLine): one action   *)
(* per key, the history with the line that was being typed, and completion *)
(* that replaces one candidate by the next while Tab is held.  A line is a *)
(* sequence of bytes.  Drawing is left out.                                *)
(***************************************************************************)
EXTENDS Naturals, Sequences

CONSTANTS
  Letter,        \* the bytes that are typed besides the blank
  Word,          \* what completion knows, in its order
  MaxLine,       \* bound: bytes in a line
  HistoryLimit   \* lines kept; 200 in the code

\* The separator of words.
Blank == "blank"
Byte == Letter \cup {Blank}

ASSUME EditorAssumption ==
  /\ MaxLine \in Nat /\ HistoryLimit \in Nat \ {0}
  /\ Word \in Seq(Seq(Byte))

VARIABLES
  line, cursor,
  history, historyIndex, draft,
  tab,     \* tabCandidates, tabStart, tabPrefixLine, tabIndex
  bottom   \* ghost: the line as it was when no history line was shown

editorVars == <<line, cursor, history, historyIndex, draft, tab, bottom>>

NoTab == [candidates |-> <<>>, start |-> 0, prefix |-> <<>>, index |-> 0]

EditorInit ==
  /\ line = <<>> /\ cursor = 0
  /\ history = <<>> /\ historyIndex = 0 /\ draft = <<>>
  /\ tab = NoTab
  /\ bottom = <<>>

First(n) == SubSeq(line, 1, n)
From(n) == SubSeq(line, n + 1, Len(line))

\* string::replace on bytes start + 1 .. end of the line.
Replaced(start, end, text) == First(start) \o text \o From(end)

\* Mutant: candidates survive an arrow key.
OtherKeyKeepsTab == UNCHANGED tab

\* Every key but Tab forgets the candidates.
OtherKey == tab' = [tab EXCEPT !.candidates = <<>>]

Edit(text, place) ==
  /\ Len(text) <= MaxLine
  /\ line' = text
  /\ cursor' = place
  /\ UNCHANGED <<history, historyIndex, draft>>

\* A key press is one byte; what is longer in UTF-8 comes as several of them.
Character(b) == OtherKey /\ Edit(Replaced(cursor, cursor, <<b>>), cursor + 1)

Backspace == OtherKey /\ cursor > 0 /\ Edit(Replaced(cursor - 1, cursor, <<>>), cursor - 1)
Delete == OtherKey /\ cursor < Len(line) /\ Edit(Replaced(cursor, cursor + 1, <<>>), cursor)
Left  == OtherKey /\ cursor > 0 /\ Edit(line, cursor - 1)
Right == OtherKey /\ cursor < Len(line) /\ Edit(line, cursor + 1)

\* Ctrl-D within a line (on an empty one it is exit), and keys that are not known.
Ignored == OtherKey /\ UNCHANGED <<line, cursor, history, historyIndex, draft>>

\* Up and Down show a line of the history, or the draft below it.
Show(index, below) ==
  /\ historyIndex' = index
  /\ line' = IF index = Len(history) THEN below ELSE history[index + 1]
  /\ cursor' = Len(line')
  /\ UNCHANGED history

\* Mutant: every line left behind is the draft.
UpForgetsDraft ==
  /\ OtherKey
  /\ historyIndex > 0
  /\ draft' = line
  /\ Show(historyIndex - 1, draft)

Up ==
  /\ OtherKey
  /\ historyIndex > 0
  /\ draft' = IF historyIndex = Len(history) THEN line ELSE draft
  /\ Show(historyIndex - 1, draft)

Down ==
  /\ OtherKey
  /\ historyIndex < Len(history)
  /\ UNCHANGED draft
  /\ Show(historyIndex + 1, draft)

\* completionCandidates: the known words that begin with the token before the
\* cursor, in their order.
TokenStart ==
  LET blanks == {i \in 1 .. cursor : line[i] = Blank} IN
  IF blanks = {} THEN 0 ELSE CHOOSE i \in blanks : \A j \in blanks : j <= i

Matches ==
  LET token     == SubSeq(line, TokenStart + 1, cursor)
      begins(w) == Len(w) >= Len(token) /\ SubSeq(w, 1, Len(token)) = token
      among[n \in 0 .. Len(Word)] ==
        IF n = 0 THEN <<>>
        ELSE IF begins(Word[n]) THEN Append(among[n - 1], Word[n]) ELSE among[n - 1]
  IN among[Len(Word)]

SameTabContext ==
  /\ tab.candidates # <<>> /\ tab.start <= Len(line)
  /\ First(tab.start) = tab.prefix

NextTab ==
  IF SameTabContext
  THEN [tab EXCEPT !.index = (tab.index + 1) % Len(tab.candidates)]
  ELSE [candidates |-> Matches, start |-> TokenStart, prefix |-> First(TokenStart), index |-> 0]

Tab ==
  /\ tab' = NextTab
  /\ IF NextTab.candidates = <<>> THEN UNCHANGED <<line, cursor, history, historyIndex, draft>>
     ELSE LET replacement == NextTab.candidates[NextTab.index + 1] IN
          Edit(Replaced(NextTab.start, cursor, replacement), NextTab.start + Len(replacement))
 

\* The next call of readInteractiveLine starts with an empty line below the history.
NewLine(lines) ==
  /\ line' = <<>> /\ cursor' = 0 /\ draft' = <<>>
  /\ tab' = NoTab
  /\ history' = lines
  /\ historyIndex' = Len(lines)
 

Kept(lines) == IF Len(lines) > HistoryLimit THEN Tail(lines) ELSE lines

Remembered ==
  IF line = <<>> \/ (history # <<>> /\ history[Len(history)] = line) THEN history
  ELSE Kept(Append(history, line))

EnterKey == NewLine(Remembered)
CtrlC == NewLine(history)

Keys ==
  \/ \E b \in Byte : Character(b)
  \/ Ignored \/ Backspace \/ Delete \/ Left \/ Right \/ Up \/ Down \/ Tab \/ EnterKey \/ CtrlC

EditorNext ==
  /\ Keys
  /\ bottom' = IF historyIndex' = Len(history') THEN line' ELSE bottom

EditorSpec == EditorInit /\ [][EditorNext]_editorVars

-----------------------------------------------------------------------------
(* Properties.                                                             *)

Line == UNION {[1 .. n -> Byte] : n \in 0 .. MaxLine}

EditorTypeOK ==
  /\ line \in Line /\ draft \in Line /\ bottom \in Line
  /\ cursor \in 0 .. Len(line)
  /\ Len(history) <= HistoryLimit /\ \A i \in 1 .. Len(history) : history[i] \in Line
  /\ historyIndex \in 0 .. Len(history)

\* While Tab is being pressed, the text between the start of the word and the
\* cursor is the candidate of the last press: the next one replaces it and
\* nothing else, and cursor - tabStart does not wrap around.
TabReplacesCandidate ==
  tab.candidates # <<>> =>
    /\ tab.start <= cursor
    /\ First(tab.start) = tab.prefix
    /\ SubSeq(line, tab.start + 1, cursor) = tab.candidates[tab.index + 1]

\* Going up into the history and down again brings back what was being typed,
\* whatever was done to the recalled lines in between.
DraftReturns ==
  [][Down /\ historyIndex' = Len(history) => line' = bottom]_editorVars

=============================================================================
