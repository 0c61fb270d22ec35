----------------------------- MODULE StatusText -----------------------------
(***************************************************************************)
(* The texts the STATUS parsers meet: what has arrived of one reply or, as *)
(* status_buffer outlives a connection, of several, each cut short by a    *)
(* lost link.  A text may end anywhere, inside a line too (driver.lua:241  *)
(* appends whatever bytes came).  The order of the sections and the form   *)
(* of the rows are those of the captured replies under tests/fixtures; the *)
(* device is outside the repository.                                       *)
(***************************************************************************)
EXTENDS StatusParser

CONSTANTS Outputs, Inputs, Buses,  \* numbers of outputs, inputs, buses that occur
          MaxLines                 \* bound: lines in the text

VARIABLES
    text,   \* its lines; of one it ends inside of, what there is of it
    toCome  \* what that line will read like as the rest of it arrives

textVars == <<text, toCome>>

\* No column can be taken for a bus's or a bus's for an input's.
ASSUME TextAssumption ==
    MaxLines \in Nat /\ Inputs \subseteq 1 .. 16 /\ Buses \subseteq 1 .. 8

Columns == Inputs \cup {0} \cup { 16 + b : b \in Buses }
Channels == {"L", "R"}

\* What the column reads like without its last digit: "In1" of "In12", no source
\* of "In" and "Bus".
CutColumn(c) == IF c \in 10 .. 16 THEN 1 ELSE 0

Titles == { <<k>> : k \in {"header", "matrix", "columns", "inputs", "outputs", "text"} }
DataLines == { <<"data", "On">> }
RouteRows == { <<"route", o, ch, c>> : o \in Outputs, ch \in Channels, c \in Columns }
InputRows == { <<k, p>> : k \in {"in", "ineq"}, p \in Inputs }
SettingsRows == { <<"outset", o, 50, 50, FALSE, TRUE>> : o \in Outputs }
EqRows == { <<"outeq", o>> : o \in Outputs }
Lines == Titles \cup DataLines \cup RouteRows \cup InputRows \cup SettingsRows \cup EqRows

(* What a line reads like as it grows: at first nothing.  "Out1 L" is a    *)
(* row with no source, "In1" may become "In12", "Out1 O" is a row of no    *)
(* channel, and the "Out1  L" of an equaliser row passes for a routing row.*)
(* Of the other lines no piece counts: it lacks fields or a word.          *)
Growths(line) ==
    CASE Kind(line) = "route" ->
           { << <<"text">>, <<"route", line[2], line[3], 0>>,
                <<"route", line[2], line[3], CutColumn(line[4])>>, line>> }
      [] Kind(line) = "outset" -> { << <<"text">>, <<"outeq", line[2]>>, line>> }
      [] Kind(line) = "outeq" ->
           { << <<"text">>, <<"route", line[2], ch, 0>>, line>> : ch \in Channels }
      [] OTHER -> { << <<"text">>, line>> }

\* The kinds of line that may come next; any reply may be cut short, and what
\* follows then is other text until the next reply.
Follows ==
    [text    |-> {"text", "header"},
     header  |-> {"text", "data"},
     data    |-> {"text", "matrix"},
     matrix  |-> {"text", "columns"},
     columns |-> {"text", "route"},
     route   |-> {"text", "route", "inputs"},
     inputs  |-> {"text", "in"},
     in      |-> {"text", "in", "ineq"},
     ineq    |-> {"text", "ineq", "outputs"},
     outputs |-> {"text", "outset"},
     outset  |-> {"text", "outset", "outeq"},
     outeq   |-> {"text", "outeq"}]
NextKinds == IF text = <<>> THEN Follows.text ELSE Follows[Kind(Last(text))]

TextInit == text = <<>> /\ toCome = <<>>

\* A chunk ends inside the next line, or with it.
Arrives(line) ==
    /\ toCome = <<>>
    /\ Len(text) < MaxLines /\ Kind(line) \in NextKinds
    /\ \E growth \in Growths(line) : \E k \in 1 .. Len(growth) :
          /\ text' = Append(text, growth[k])
          /\ toCome' = SubSeq(growth, k + 1, Len(growth))

\* More of the line, or the rest of it, arrives.
Grows(k) ==
    /\ text' = [text EXCEPT ![Len(text)] = toCome[k]]
    /\ toCome' = SubSeq(toCome, k + 1, Len(toCome))

\* The link is lost inside the line, and the first line of the next one runs on
\* from it: a field more, or a last field that is no longer one.
RunsOn(line, piece) ==
    {piece} \cup (IF Kind(line) \in {"data", "in", "ineq"} THEN {line}
                  ELSE IF Kind(line) \in {"route", "outset", "outeq"}
                  THEN { <<"outeq", line[2]>> } ELSE {})
            \cup (IF Kind(piece) = "route"
                  THEN { <<"route", piece[2], piece[3], 0>> } ELSE {})
LinkLostInside ==
    /\ toCome # <<>> /\ Len(text) < MaxLines
    /\ \E reading \in RunsOn(Last(toCome), Last(text)) :
          text' = Append([text EXCEPT ![Len(text)] = reading], <<"text">>)
    /\ toCome' = <<>>

TextNext ==
    \/ \E line \in Lines : Arrives(line)
    \/ \E k \in 1 .. Len(toCome) : Grows(k)
    \/ LinkLostInside
TextSpec == TextInit /\ [][TextNext]_textVars

-----------------------------------------------------------------------------
\* The rows of the first n lines after a title.
FirstLines(rows, n) == Restrict(rows, { k \in DOMAIN rows : k <= n })
LinesDone(title) ==
    Len(After(text, title)) - (IF toCome = <<>> THEN 0 ELSE 1)

(* How far a parse of what has arrived can be relied on, which driver.lua: *)
(* 230-247 does after every chunk: whatever comes next, a lost link and    *)
(* another reply included, the rows of the lines that are complete are     *)
(* never withdrawn or changed, and a text the parser can read stays        *)
(* readable.  Only the row the text ends inside of may still change        *)
(* (status_parser.lua:37-73, 117-150).                                     *)
OnlyTheCutRowChanges ==
    [][/\ LuaReadable(text) => LuaReadable(text')
       /\ FirstLines(LuaRouting(text'), LinesDone("matrix")) =
             FirstLines(LuaRouting(text), LinesDone("matrix"))]_textVars

(* The parity that the shared fixtures under spec/vectors test: replies    *)
(* that stop before the equaliser and output sections are read alike by    *)
(* both parsers, wherever they end and leftovers of earlier replies        *)
(* included.                                                               *)
AgreeOnShortReplies ==
    OfKind(text, {"ineq", "outset", "outeq"}) = {} => LuaParse(text) = PyParse(text)

(* The library reads a reply the same with either of its parsers, to the   *)
(* end of a full one: the rows get_status reports are those of             *)
(* status_parser.py, which names no buses, and their columns name the      *)
(* source that the row shows (parser.py:173-211, status_parser.py:120-154).*)
TypedRowsAgree ==
    \A typed \in {ParseStatus(text)}, untyped \in {PyParse(text)} :
       PyReadable(text) =>
        /\ typed.inputs = untyped.inputs
        /\ untyped.routing = Map(LAMBDA row : <<row.output, row.channel,
                                                FromInput(Column(row.source))>>,
                                 typed.routing)
=============================================================================
