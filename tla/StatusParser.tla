---------------------------- MODULE StatusParser ----------------------------
(***************************************************************************)
(* The three STATUS parsers of the repository: the Control4 driver's       *)
(* (status_parser.lua), its Python mirror (status_parser.py) and the one   *)
(* behind get_status, DMP168Parser.parse_status (parser.py), over replies  *)
(* whose lines are reduced to what the parsers tell apart:                 *)
(*    <<"header">>             the "Power  Baud ..." title                 *)
(*    <<"data", power>>        the system data line, eight fields or more  *)
(*    <<"matrix">>             the "Matrix Config Status" title            *)
(*    <<"columns">>            the "Output  FromIn" line of that section   *)
(*    <<"route", o, ch, c>>    "Out<o> <ch>  In<c>", c the source's column:*)
(*                             0 for "None", 17 and up for "Bus<c - 16>"   *)
(*    <<"inputs">>             the "Input Settings Status" title           *)
(*    <<"in", p>>              "In<p>  On  50 50  Off Off ..."             *)
(*    <<"ineq", p>>            an Input EQ row, "In<p>  L[20 ,off ]..."    *)
(*    <<"outputs">>            the "Output Settings Status" title          *)
(*    <<"outset", o, l, r, ml, mr>>  "Out<o>  On  <l> <r>  <ml> <mr> ..."  *)
(*    <<"outeq", o>>           an Output EQ row, "Out<o>  L[20 ,off ]...", *)
(*                             or a piece of a row that begins "Out<o>"    *)
(*    <<"text">>               any other line that can follow a header     *)
(* C4Driver and DeviceOperations leave out the lines and the columns that  *)
(* no parser they use reads.  The other numbers and flags, and the         *)
(* firmware line, follow the same code in all parsers and are left out.    *)
(*                                                                         *)
(* Some operators are preceded by a wrong variant of themselves, which no  *)
(* action uses: put in its place, it makes a property fail (README.md).    *)
(***************************************************************************)
EXTENDS Integers, Sequences, SequencesExt, Functions

Kind(line) == line[1]

\* find_header and the "... Status" tests: the text after the first title.
AfterLast(text, kind) ==
    LET k == SelectLastInSeq(text, LAMBDA line : Kind(line) = kind)
    IN IF k = 0 THEN <<>> ELSE SubSeq(text, k + 1, Len(text))
After(text, kind) ==
    LET k == SelectInSeq(text, LAMBDA line : Kind(line) = kind)
    IN IF k = 0 THEN <<>> ELSE SubSeq(text, k + 1, Len(text))

\* parse_status takes up its routing section at either of two titles.
AfterAny(text, kinds) ==
    LET k == SelectInSeq(text, LAMBDA line : Kind(line) \in kinds)
    IN IF k = 0 THEN <<>> ELSE SubSeq(text, k + 1, Len(text))

\* The rows of a section are kept at the numbers of their lines, which is all that
\* their places in a list are used for: which of two comes first.
OfKind(text, kinds) == { k \in DOMAIN text : Kind(text[k]) \in kinds }
Rows(f(_), text, kinds) == [k \in OfKind(text, kinds) |-> f(text[k])]
Map(f(_), seq) == [k \in DOMAIN seq |-> f(seq[k])]

-----------------------------------------------------------------------------
(* parse_system raises unless a line of eight fields follows the first     *)
(* header of the text.  Python also converts the numbers, so another       *)
(* section's row does not pass for the data line.                          *)
SystemLine(text, kinds) ==
    LET rest == After(text, "header") IN rest # <<>> /\ Kind(rest[1]) \in kinds

LuaReadable(text) ==
    SystemLine(text, {"data", "header", "in", "ineq", "outset", "outeq"})
PyReadable(text) == SystemLine(text, {"data"})

\* parse_routing: rows of <<output, channel, from_input>>.  The Lua one takes
\* every row that begins "Out<n>" to the end of the text.
\* Both read "In<n>" alone: an output fed by a bus has no from_input.
FromInput(column) == IF column \in 1 .. 16 THEN column ELSE 0
LuaRouteLeft(line) ==
    IF Kind(line) = "route" THEN <<line[2], "L", FromInput(line[4])>>
    ELSE <<line[2], "L", 0>>
LuaRoute(line) ==
    IF Kind(line) = "route" THEN <<line[2], line[3], FromInput(line[4])>>
    ELSE <<line[2], "L", 0>>
LuaRouting(text) ==
    Rows(LuaRoute, After(text, "matrix"), {"route", "outset", "outeq"})
PyRoute(line) == <<line[2], line[3], FromInput(line[4])>>
PyRouting(text) == Rows(PyRoute, After(text, "matrix"), {"route"})

\* parse_inputs: the Lua one takes every row of six fields that begins "In<n>".
InputPort(line) == <<line[2], Kind(line)>>
LuaInputs(text) == Rows(InputPort, After(text, "inputs"), {"in", "ineq"})
PyInputs(text) == Rows(InputPort, After(text, "inputs"), {"in"})

\* parse; "error" stands for the exception raised.
LuaParse(text) ==
    IF LuaReadable(text)
    THEN [inputs |-> LuaInputs(text), routing |-> LuaRouting(text)]
    ELSE [inputs |-> "error", routing |-> <<>>]
PyParse(text) ==
    IF PyReadable(text)
    THEN [inputs |-> PyInputs(text), routing |-> PyRouting(text)]
    ELSE [inputs |-> "error", routing |-> <<>>]

-----------------------------------------------------------------------------
(* DMP168Parser.parse_status: lenient about the data line's numbers, strict *)
(* about rows; a row's source is an OutputSource, an input or a bus.        *)
NoSource == [kind |-> "none", number |-> 0]
ForInput(n) == [kind |-> "input", number |-> n]
ForBus(n) == [kind |-> "bus", number |-> n]
Column(source) == IF source.kind = "bus" THEN 16 + source.number ELSE source.number

SourceToken(column) ==
    IF column = 0 THEN NoSource
    ELSE IF column > 16 THEN ForBus(column - 16) ELSE ForInput(column)

StatusRow(line) ==
    [output |-> line[2], channel |-> line[3], source |-> SourceToken(line[4])]
StatusRoutingUnbounded(text) ==
    Rows(LAMBDA line : IF Kind(line) = "route" THEN StatusRow(line)
                       ELSE [output |-> line[2], channel |-> "L", source |-> NoSource],
         AfterAny(text, {"matrix", "columns"}), {"route", "outset", "outeq"})
StatusRouting(text) ==
    Rows(StatusRow, AfterAny(text, {"matrix", "columns"}), {"route"})

StatusSettingsRow(line) ==
    [output |-> line[2], l |-> line[3], r |-> line[4],
     muteL |-> line[5], muteR |-> line[6]]
OutputSettings(text) ==
    Rows(StatusSettingsRow, After(text, "outputs"), {"outset"})

\* A wrong variant takes the title for the data line.
PowerOfTitle(text) == "Power"
Power(text) ==
    LET line == After(text, "header")[1]
    IN IF Kind(line) = "data" THEN line[2] ELSE "other"

StatusReadable(text) == LuaReadable(text)
ParseStatus(text) ==
    IF StatusReadable(text)
    THEN [power |-> Power(text), inputs |-> PyInputs(text),
          routing |-> StatusRouting(text), settings |-> OutputSettings(text)]
    ELSE [power |-> "error", inputs |-> <<>>, routing |-> <<>>, settings |-> <<>>]

\* collapse_routing of polling_coordinator.lua: the last L row of an output
\* decides; an output without one is unrouted.
CollapseFromZero(rows, outputs) ==
    [o \in outputs |->
        LET own == { k \in DOMAIN rows : rows[k][1] = o + 1 /\ rows[k][2] = "L" }
        IN IF own = {} THEN 0 ELSE rows[Max(own)][3]]
CollapseRouting(rows, outputs) ==
    [o \in outputs |->
        LET own == { k \in DOMAIN rows : rows[k][1] = o /\ rows[k][2] = "L" }
        IN IF own = {} THEN 0 ELSE rows[Max(own)][3]]
=============================================================================
