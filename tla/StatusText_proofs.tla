--------------------------- MODULE StatusText_proofs ---------------------------
(***************************************************************************)
(* Proofs of what the parsers make of any text, however many lines of      *)
(* however many replies have arrived.                                      *)
(***************************************************************************)
EXTENDS StatusText, StatusParser_proofs

-----------------------------------------------------------------------------
\* What may stand in a text: a line, or what one reads like before its end.
CutRows == { <<"route", o, ch, 1>> : o \in Outputs, ch \in Channels }
Reading == Lines \cup CutRows

\* What a line may read like while it grows.
ReadsLike(x, line) ==
    \/ x = line
    \/ Kind(x) = "text"
    \/ Kind(x) \in {"route", "outeq"} /\ Kind(line) \in {"route", "outset", "outeq"}

\* The data line is all that a reply puts after its header, and the names of the
\* columns come after the title of their section.
FitsAt(s, k, line) ==
    /\ k > 1 /\ Kind(s[k - 1]) = "header" => Kind(line) \in {"text", "data"}
    /\ Kind(line) = "columns" => k > 1 /\ Kind(s[k - 1]) = "matrix"

\* While the last line is not whole, what there is of it is no title and no data.
CutLine ==
    /\ text # <<>>
    /\ Kind(text[Len(text)]) \in {"text", "route", "outeq"}
    /\ \A k \in 1 .. Len(toCome) :
          /\ FitsAt(text, Len(text), toCome[k])
          /\ k < Len(toCome) => Kind(toCome[k]) \in {"text", "route", "outeq"}

TextInv ==
    /\ text \in Seq(Reading) /\ Len(text) <= MaxLines
    /\ toCome \in Seq(Reading)
    /\ \A k \in 1 .. Len(text) : FitsAt(text, k, text[k])
    /\ toCome # <<>> => CutLine

(* The rows of the text by what they are made of.                          *)
LEMMA RowsOfReading ==
    ASSUME NEW line \in Reading
    PROVE  /\ Kind(line) \in {"route", "outset", "outeq"} =>
                /\ line[2] \in Outputs
                /\ <<"outeq", line[2]>> \in Reading
           /\ Kind(line) = "route" =>
                /\ line[3] \in Channels /\ line[4] \in Columns \cup {1}
                /\ \A c \in {0, 1} : <<"route", line[2], line[3], c>> \in Reading
<1>1. /\ \A o \in Outputs : <<"outeq", o>> \in Reading
      /\ \A o \in Outputs, ch \in Channels :
            <<"route", o, ch, 0>> \in Reading /\ <<"route", o, ch, 1>> \in Reading
  BY DEF Reading, Lines, EqRows, RouteRows, CutRows, Columns
<1>2. CASE line \in Titles \cup DataLines \cup InputRows
  BY <1>2 DEF Titles, DataLines, InputRows, Kind
<1>3. CASE line \in EqRows
  BY <1>1, <1>3 DEF EqRows, Kind
<1>4. CASE line \in SettingsRows
  <2>1. \A u, v, w, x, y, z : <<u, v, w, x, y, z>>[1] = u /\ <<u, v, w, x, y, z>>[2] = v
    OBVIOUS
  <2>2. PICK o \in Outputs : line = <<"outset", o, 50, 50, FALSE, TRUE>>
    BY <1>4 DEF SettingsRows
  <2>3. line[1] = "outset" /\ line[2] = o
    BY <2>1, <2>2, Zenon
  <2>4. QED BY <1>1, <2>3 DEF Kind
<1>5. CASE line \in RouteRows \cup CutRows
  <2> HIDE DEF Columns
  <2>1. PICK o \in Outputs, ch \in Channels, c \in Columns \cup {1} : line = <<"route", o, ch, c>>
    BY <1>5 DEF RouteRows, CutRows
  <2>2. line[1] = "route" /\ line[2] = o /\ line[3] = ch /\ line[4] = c
    BY <2>1
  <2>3. QED BY <1>1, <2>2 DEF Kind
<1>6. QED BY <1>2, <1>3, <1>4, <1>5 DEF Reading, Lines

(* Every line is of a kind that something may follow.                      *)
LEMMA KindsOfReading ==
    ASSUME NEW line \in Reading
    PROVE  Kind(line) \in DOMAIN Follows
<1>1. CASE line \in Titles \cup DataLines \cup InputRows \cup EqRows
  BY <1>1 DEF Titles, DataLines, InputRows, EqRows, Kind, Follows
<1>2. CASE line \in RouteRows \cup CutRows
  <2> HIDE DEF Columns, Channels
  <2>1. line[1] = "route"
    BY <1>2 DEF RouteRows, CutRows
  <2>2. QED BY <2>1 DEF Kind, Follows
<1>3. CASE line \in SettingsRows
  <2>1. \A u, v, w, x, y, z : <<u, v, w, x, y, z>>[1] = u
    OBVIOUS
  <2>2. PICK o \in Outputs : line = <<"outset", o, 50, 50, FALSE, TRUE>>
    BY <1>3 DEF SettingsRows
  <2>3. line[1] = "outset"
    BY <2>1, <2>2, Zenon
  <2>4. QED BY <2>3 DEF Kind, Follows
<1>4. QED BY <1>1, <1>2, <1>3 DEF Reading, Lines

(* How a line grows, told by its kind.                                     *)
LEMMA GrowthsOf ==
    ASSUME NEW line \in Lines, NEW growth \in Growths(line)
    PROVE  /\ growth \in Seq(Reading) /\ growth # <<>>
           /\ \A k \in 1 .. Len(growth) :
                 /\ ReadsLike(growth[k], line)
                 /\ k < Len(growth) => Kind(growth[k]) \in {"text", "route", "outeq"}
<1>1. <<"text">> \in Reading /\ Kind(<<"text">>) = "text" /\ line \in Reading
  BY DEF Reading, Lines, Titles, Kind
<1>2. ASSUME NEW a \in Reading, NEW b \in Reading,
             growth = <<a, b>>, ReadsLike(a, line), ReadsLike(b, line), Kind(a) = "text"
      PROVE  /\ growth \in Seq(Reading) /\ growth # <<>>
             /\ \A k \in 1 .. Len(growth) :
                   /\ ReadsLike(growth[k], line)
                   /\ k < Len(growth) => Kind(growth[k]) \in {"text", "route", "outeq"}
  <2>1. growth \in Seq(Reading) /\ Len(growth) = 2 /\ growth[1] = a /\ growth[2] = b
    BY <1>2
  <2>2. QED BY <1>2, <2>1
<1>3. ASSUME NEW a \in Reading, NEW b \in Reading, NEW c \in Reading,
             growth = <<a, b, c>>, ReadsLike(a, line), ReadsLike(b, line),
             ReadsLike(c, line), Kind(a) = "text", Kind(b) \in {"route", "outeq"}
      PROVE  /\ growth \in Seq(Reading) /\ growth # <<>>
             /\ \A k \in 1 .. Len(growth) :
                   /\ ReadsLike(growth[k], line)
                   /\ k < Len(growth) => Kind(growth[k]) \in {"text", "route", "outeq"}
  <2>1. /\ growth \in Seq(Reading) /\ Len(growth) = 3
        /\ growth[1] = a /\ growth[2] = b /\ growth[3] = c
    BY <1>3
  <2>2. QED BY <1>3, <2>1
<1>4. CASE Kind(line) = "route"
  <2> DEFINE b == <<"route", line[2], line[3], 0>>
             c == <<"route", line[2], line[3], CutColumn(line[4])>>
  <2>1. growth = << <<"text">>, b, c, line>>
    BY <1>4 DEF Growths
  <2>2. b \in Reading /\ c \in Reading
    BY <1>1, <1>4, RowsOfReading DEF CutColumn
  <2>3. Kind(b) = "route" /\ Kind(c) = "route"
    BY DEF Kind
  <2> HIDE DEF b, c
  <2>4. /\ growth \in Seq(Reading) /\ Len(growth) = 4
        /\ growth[1] = <<"text">> /\ growth[2] = b /\ growth[3] = c /\ growth[4] = line
    <3>1. \A u, v, x, y \in Reading : <<u, v, x, y>> \in Seq(Reading)
      OBVIOUS
    <3>2. growth \in Seq(Reading)
      BY <1>1, <2>1, <2>2, <3>1, Zenon
    <3>3. QED BY <2>1, <3>2
  <2>5. /\ ReadsLike(<<"text">>, line) /\ ReadsLike(b, line)
        /\ ReadsLike(c, line) /\ ReadsLike(line, line)
    BY <1>1, <1>4, <2>3 DEF ReadsLike
  <2>6. ASSUME NEW k \in 1 .. 4
        PROVE  /\ ReadsLike(growth[k], line)
               /\ k < 4 => Kind(growth[k]) \in {"text", "route", "outeq"}
    <3>1. k = 1 \/ k = 2 \/ k = 3 \/ k = 4
      OBVIOUS
    <3>2. QED BY <1>1, <2>3, <2>4, <2>5, <3>1
  <2>7. QED BY <2>4, <2>6
<1>5. CASE Kind(line) = "outset"
  <2> DEFINE b == <<"outeq", line[2]>>
  <2>1. growth = << <<"text">>, b, line>>
    BY <1>5 DEF Growths
  <2>2. b \in Reading /\ Kind(b) = "outeq"
    BY <1>1, <1>5, RowsOfReading DEF Kind
  <2> HIDE DEF b
  <2>3. QED BY <1>1, <1>3, <1>5, <2>1, <2>2 DEF ReadsLike
<1>6. CASE Kind(line) = "outeq"
  <2>1. PICK ch \in Channels : growth = << <<"text">>, <<"route", line[2], ch, 0>>, line>>
    BY <1>6 DEF Growths
  <2> DEFINE b == <<"route", line[2], ch, 0>>
  <2>2. line[2] \in Outputs
    BY <1>1, <1>6, RowsOfReading
  <2>3. b \in Reading /\ Kind(b) = "route"
    BY <2>2 DEF Reading, Lines, RouteRows, Columns, Kind
  <2>4. growth = << <<"text">>, b, line>>
    BY <2>1
  <2> HIDE DEF b
  <2>5. QED BY <1>1, <1>3, <1>6, <2>3, <2>4 DEF ReadsLike
<1>7. CASE Kind(line) \notin {"route", "outset", "outeq"}
  <2>1. growth = << <<"text">>, line>>
    BY <1>7 DEF Growths
  <2>2. QED BY <1>1, <1>2, <2>1 DEF ReadsLike
<1>8. QED BY <1>4, <1>5, <1>6, <1>7

(* A line in the place the last one had.                                   *)
LEMMA LastReplaced ==
    ASSUME NEW S, NEW s \in Seq(S), s # <<>>, NEW x \in S
    PROVE  LET t == [s EXCEPT ![Len(s)] = x] IN
           /\ t \in Seq(S) /\ Len(t) = Len(s) /\ t[Len(s)] = x
           /\ \A k \in 1 .. Len(s) - 1 : t[k] = s[k]
  OBVIOUS

(* Every chunk that arrives keeps that.                                    *)
LEMMA TextInvStep ==
    ASSUME TextInv, [TextNext]_textVars
    PROVE  TextInv'
<1> DEFINE n == Len(text)
<1>a. /\ text \in Seq(Reading) /\ n \in Nat /\ n <= MaxLines /\ MaxLines \in Nat
      /\ toCome \in Seq(Reading) /\ Len(toCome) \in Nat
      /\ \A k \in 1 .. n : FitsAt(text, k, text[k])
      /\ toCome # <<>> => CutLine
  BY TextAssumption DEF TextInv
<1>b. \A k \in 1 .. n : text[k] \in Reading
  BY <1>a
<1>1. CASE UNCHANGED textVars
  BY <1>1 DEF TextInv, CutLine, textVars
<1>2. ASSUME NEW line \in Lines, Arrives(line) PROVE TextInv'
  <2>1. PICK growth \in Growths(line) : \E k \in 1 .. Len(growth) :
           text' = Append(text, growth[k]) /\ toCome' = SubSeq(growth, k + 1, Len(growth))
    BY <1>2 DEF Arrives
  <2>2. PICK k \in 1 .. Len(growth) :
           text' = Append(text, growth[k]) /\ toCome' = SubSeq(growth, k + 1, Len(growth))
    BY <2>1
  <2>3. /\ growth \in Seq(Reading) /\ Len(growth) \in Nat
        /\ \A j \in 1 .. Len(growth) :
              /\ growth[j] \in Reading
              /\ ReadsLike(growth[j], line)
              /\ j < Len(growth) => Kind(growth[j]) \in {"text", "route", "outeq"}
    <3>1. growth \in Seq(Reading)
      BY GrowthsOf
    <3>2. QED BY <3>1, GrowthsOf
  <2>4. /\ text' \in Seq(Reading) /\ Len(text') = n + 1
        /\ \A j \in 1 .. n : text'[j] = text[j]
        /\ text'[n + 1] = growth[k]
    BY <1>a, <2>2, <2>3, AppendProperties
  <2>5. /\ toCome' \in Seq(Reading) /\ Len(toCome') = Len(growth) - k
        /\ \A j \in 1 .. Len(growth) - k : toCome'[j] = growth[k + j]
    BY <2>2, <2>3, SuffixLines
  <2>6. FitsAt(text, n + 1, line)
    <3>1. CASE text = <<>>
      <4>1. n = 0 /\ Kind(line) \in {"text", "header"}
        BY <1>2, <3>1 DEF Arrives, NextKinds, Follows
      <4>2. QED BY <4>1 DEF FitsAt
    <3>2. CASE text # <<>>
      <4>1. n > 0 /\ Last(text) = text[n] /\ text[n] \in Reading
        BY <1>a, <1>b, <3>2 DEF Last
      <4>2. Kind(line) \in Follows[Kind(text[n])] /\ Kind(text[n]) \in DOMAIN Follows
        BY <1>2, <3>2, <4>1, KindsOfReading DEF Arrives, NextKinds
      <4>3. Kind(text[n]) = "header" => Kind(line) \in {"text", "data"}
        BY <4>2 DEF Follows
      <4>4. Kind(line) = "columns" => Kind(text[n]) = "matrix"
        BY <4>2 DEF Follows
      <4>5. QED BY <1>a, <4>1, <4>3, <4>4 DEF FitsAt
    <3>3. QED BY <3>1, <3>2
  <2>7. ASSUME NEW j \in 1 .. Len(growth) PROVE FitsAt(text, n + 1, growth[j])
    <3>1. ReadsLike(growth[j], line)
      BY <2>3
    <3>2. QED BY <2>6, <3>1 DEF FitsAt, ReadsLike
  <2>8. \A j \in 1 .. n + 1 : \A x : FitsAt(text, j, x) => FitsAt(text', j, x)
    <3>1. \A j \in 1 .. n + 1 : j > 1 => text'[j - 1] = text[j - 1]
      BY <1>a, <2>4
    <3>2. QED BY <3>1 DEF FitsAt
  <2>9. \A j \in 1 .. n + 1 : FitsAt(text', j, text'[j])
    <3> SUFFICES ASSUME NEW j \in 1 .. n + 1 PROVE FitsAt(text', j, text'[j])
      OBVIOUS
    <3>1. CASE j \in 1 .. n
      BY <1>a, <2>4, <2>8, <3>1
    <3>2. CASE j = n + 1
      BY <1>a, <2>4, <2>7, <2>8, <3>2
    <3>3. QED BY <1>a, <3>1, <3>2
  <2>10. ASSUME toCome' # <<>> PROVE CutLine'
    <3>1. k < Len(growth)
      BY <2>3, <2>5, <2>10
    <3>2. Kind(growth[k]) \in {"text", "route", "outeq"}
      BY <2>3, <3>1
    <3>3. ASSUME NEW j \in 1 .. Len(toCome')
          PROVE  /\ FitsAt(text', n + 1, toCome'[j])
                 /\ j < Len(toCome') => Kind(toCome'[j]) \in {"text", "route", "outeq"}
      <4>1. /\ k + j \in 1 .. Len(growth) /\ toCome'[j] = growth[k + j]
            /\ j < Len(toCome') => k + j < Len(growth)
        BY <2>3, <2>5
      <4>2. FitsAt(text, n + 1, toCome'[j])
        BY <2>7, <4>1
      <4>3. QED BY <1>a, <2>3, <2>8, <4>1, <4>2
    <3>4. text' # <<>>
      BY <1>a, <2>4
    <3>5. QED BY <2>4, <3>2, <3>3, <3>4 DEF CutLine
  <2>11. n + 1 <= MaxLines
    BY <1>a, <1>2 DEF Arrives
  <2>12. QED BY <2>4, <2>5, <2>9, <2>10, <2>11 DEF TextInv
<1>3. ASSUME NEW k \in 1 .. Len(toCome), Grows(k) PROVE TextInv'
  <2>1. /\ toCome # <<>> /\ CutLine /\ text # <<>> /\ n >= 1
        /\ \A j \in 1 .. Len(toCome) : toCome[j] \in Reading /\ FitsAt(text, n, toCome[j])
    <3>1. toCome # <<>>
      BY <1>a
    <3>2. QED BY <1>a, <3>1 DEF CutLine
  <2>2. /\ text' \in Seq(Reading) /\ Len(text') = n /\ text'[n] = toCome[k]
        /\ \A j \in 1 .. n - 1 : text'[j] = text[j]
    BY <1>a, <1>3, <2>1, LastReplaced DEF Grows
  <2>3. /\ toCome' \in Seq(Reading) /\ Len(toCome') = Len(toCome) - k
        /\ \A j \in 1 .. Len(toCome) - k : toCome'[j] = toCome[k + j]
    BY <1>a, <1>3, SuffixLines DEF Grows
  <2>4. \A j \in 1 .. n : \A x : FitsAt(text, j, x) => FitsAt(text', j, x)
    BY <1>a, <2>2 DEF FitsAt
  <2>5. \A j \in 1 .. n : FitsAt(text', j, text'[j])
    <3> SUFFICES ASSUME NEW j \in 1 .. n PROVE FitsAt(text', j, text'[j])
      OBVIOUS
    <3>1. CASE j \in 1 .. n - 1
      BY <1>a, <2>2, <2>4, <3>1
    <3>2. CASE j = n
      BY <1>a, <2>1, <2>2, <2>4, <3>2
    <3>3. QED BY <1>a, <3>1, <3>2
  <2>6. ASSUME toCome' # <<>> PROVE CutLine'
    <3>1. Kind(toCome[k]) \in {"text", "route", "outeq"}
      <4>1. k < Len(toCome)
        BY <1>a, <2>3, <2>6
      <4>2. QED BY <2>1, <4>1 DEF CutLine
    <3>2. ASSUME NEW j \in 1 .. Len(toCome')
          PROVE  /\ FitsAt(text', n, toCome'[j])
                 /\ j < Len(toCome') => Kind(toCome'[j]) \in {"text", "route", "outeq"}
      <4>1. /\ k + j \in 1 .. Len(toCome) /\ toCome'[j] = toCome[k + j]
            /\ j < Len(toCome') => k + j < Len(toCome)
        BY <1>a, <2>3
      <4>2. QED BY <1>a, <2>1, <2>4, <4>1 DEF CutLine
    <3>3. text' # <<>>
      BY <1>a, <2>1, <2>2
    <3>4. QED BY <2>2, <3>1, <3>2, <3>3 DEF CutLine
  <2>7. QED BY <1>a, <2>2, <2>3, <2>5, <2>6 DEF TextInv
<1>4. ASSUME LinkLostInside PROVE TextInv'
  <2>1. /\ toCome # <<>> /\ CutLine /\ text # <<>> /\ n >= 1
        /\ Last(text) = text[n] /\ text[n] \in Reading
    BY <1>a, <1>b, <1>4 DEF LinkLostInside, CutLine, Last
  <2> DEFINE line == Last(toCome)
  <2>2. line \in Reading /\ FitsAt(text, n, line)
    <3>1. Len(toCome) >= 1 /\ line = toCome[Len(toCome)]
      BY <1>a, <2>1 DEF Last
    <3>2. QED BY <1>a, <2>1, <3>1 DEF CutLine
  <2> HIDE DEF line
  <2>3. PICK x \in RunsOn(line, text[n]) :
           text' = Append([text EXCEPT ![n] = x], <<"text">>)
    BY <1>4, <2>1 DEF LinkLostInside, line
  <2>4. x \in Reading /\ FitsAt(text, n, x)
    <3>1. CASE x \in {text[n], line}
      BY <1>a, <2>1, <2>2, <3>1
    <3>2. CASE /\ Kind(line) \in {"route", "outset", "outeq"}
               /\ x = <<"outeq", line[2]>>
      <4>1. Kind(x) = "outeq" /\ x \in Reading
        BY <2>2, <3>2, RowsOfReading DEF Kind
      <4>2. QED BY <2>2, <3>2, <4>1 DEF FitsAt
    <3>3. CASE /\ Kind(text[n]) = "route"
               /\ x = <<"route", text[n][2], text[n][3], 0>>
      <4>1. Kind(x) = "route" /\ x \in Reading
        BY <2>1, <3>3, RowsOfReading DEF Kind
      <4>2. FitsAt(text, n, text[n])
        BY <1>a, <2>1
      <4>3. QED BY <3>3, <4>1, <4>2 DEF FitsAt
    <3>4. QED BY <2>3, <3>1, <3>2, <3>3 DEF RunsOn
  <2> DEFINE s == [text EXCEPT ![n] = x]
  <2>5. /\ s \in Seq(Reading) /\ Len(s) = n /\ s[n] = x
        /\ \A j \in 1 .. n - 1 : s[j] = text[j]
    BY <1>a, <2>1, <2>4, LastReplaced
  <2>6. text' = Append(s, <<"text">>)
    BY <2>3
  <2> HIDE DEF s
  <2>7. <<"text">> \in Reading /\ Kind(<<"text">>) = "text"
    BY DEF Reading, Lines, Titles, Kind
  <2>8. /\ text' \in Seq(Reading) /\ Len(text') = n + 1
        /\ text'[n] = x /\ text'[n + 1] = <<"text">>
        /\ \A j \in 1 .. n - 1 : text'[j] = text[j]
    BY <1>a, <2>1, <2>5, <2>6, <2>7, AppendProperties
  <2>9. \A j \in 1 .. n : \A y : FitsAt(text, j, y) => FitsAt(text', j, y)
    BY <1>a, <2>8 DEF FitsAt
  <2>10. \A j \in 1 .. n + 1 : FitsAt(text', j, text'[j])
    <3> SUFFICES ASSUME NEW j \in 1 .. n + 1 PROVE FitsAt(text', j, text'[j])
      OBVIOUS
    <3>1. CASE j \in 1 .. n - 1
      BY <1>a, <2>8, <2>9, <3>1
    <3>2. CASE j = n
      BY <1>a, <2>1, <2>4, <2>8, <2>9, <3>2
    <3>3. CASE j = n + 1
      BY <2>7, <2>8, <3>3 DEF FitsAt
    <3>4. QED BY <1>a, <3>1, <3>2, <3>3
  <2>11. toCome' = <<>> /\ n + 1 <= MaxLines
    BY <1>a, <1>4 DEF LinkLostInside
  <2>12. QED BY <2>8, <2>10, <2>11 DEF TextInv
<1>5. QED BY <1>1, <1>2, <1>3, <1>4 DEF TextNext

(* So it holds of every text.                                              *)
LEMMA TextIsSound == TextSpec => []TextInv
<1>1. TextInit => TextInv
  BY TextAssumption DEF TextInit, TextInv
<1>2. TextInv /\ [TextNext]_textVars => TextInv'
  BY TextInvStep
<1>3. QED BY <1>1, <1>2, PTL DEF TextSpec

-----------------------------------------------------------------------------
(* What is read after a title are lines of the text.                       *)
LEMMA RestIsOfTheText ==
    ASSUME TextInv, NEW kind, NEW k \in DOMAIN After(text, kind)
    PROVE  /\ After(text, kind)[k] \in Reading
           /\ \E j \in DOMAIN text : text[j] = After(text, kind)[k]
<1>1. CASE After(text, kind) = <<>>
  BY <1>1
<1>2. ASSUME NEW m \in 1 .. Len(text), After(text, kind) = SubSeq(text, m + 1, Len(text))
      PROVE  \E j \in DOMAIN text : text[j] = After(text, kind)[k]
  <2>1. text \in Seq(Reading) /\ Len(text) \in Nat /\ DOMAIN text = 1 .. Len(text)
    BY DEF TextInv
  <2> DEFINE rest == SubSeq(text, m + 1, Len(text))
  <2>2. /\ rest \in Seq(Reading) /\ Len(rest) = Len(text) - m
        /\ \A i \in 1 .. Len(text) - m : rest[i] = text[m + i]
    BY <2>1, SuffixLines
  <2>3. k \in DOMAIN rest /\ After(text, kind) = rest
    BY <1>2
  <2> HIDE DEF rest
  <2>4. k \in 1 .. Len(text) - m
    BY <2>2, <2>3
  <2>5. m + k \in DOMAIN text
    BY <2>1, <2>4
  <2>6. QED BY <2>2, <2>3, <2>4, <2>5
<1>3. \E j \in DOMAIN text : text[j] = After(text, kind)[k]
  BY <1>1, <1>2, AfterTitle DEF TextInv
<1>4. \A j \in DOMAIN text : text[j] \in Reading
  BY DEF TextInv
<1>5. QED BY <1>3, <1>4

(* The line after the header of a text is the data line or other text,     *)
LEMMA DataFollowsTheHeader ==
    ASSUME TextInv, After(text, "header") # <<>>
    PROVE  Kind(After(text, "header")[1]) \in {"text", "data"}
<1> DEFINE rest == After(text, "header")
<1>1. text \in Seq(Reading) /\ Len(text) \in Nat
  BY DEF TextInv
<1>2. PICK m \in 1 .. Len(text) :
         Kind(text[m]) = "header" /\ rest = SubSeq(text, m + 1, Len(text))
  BY <1>1, AfterTitle
<1>3. m < Len(text)
  BY <1>1, <1>2, SubSeqEmpty
<1>4. rest[1] = text[m + 1]
  BY <1>1, <1>2, <1>3
<1>5. FitsAt(text, m + 1, text[m + 1])
  BY <1>1, <1>3 DEF TextInv
<1>6. Kind(text[m + 1]) \in {"text", "data"}
  BY <1>1, <1>2, <1>5 DEF FitsAt
<1>7. QED BY <1>4, <1>6

(* so that both parsers read it or neither does.                           *)
LEMMA ReadableAlike ==
    ASSUME TextInv
    PROVE  LuaReadable(text) <=> PyReadable(text)
  BY DataFollowsTheHeader DEF LuaReadable, PyReadable, SystemLine

(* The parity of the fixtures, for texts of any length: what neither       *)
(* equaliser nor output settings rows have reached both parsers read alike *)
(* (status_parser.lua:37-150, status_parser.py:60-154).                    *)
THEOREM ShortRepliesAgree == TextSpec => []AgreeOnShortReplies
<1>1. TextInv => AgreeOnShortReplies
  <2> SUFFICES ASSUME TextInv, OfKind(text, {"ineq", "outset", "outeq"}) = {}
               PROVE  LuaParse(text) = PyParse(text)
    BY DEF AgreeOnShortReplies
  <2>1. ASSUME NEW kind, NEW k \in DOMAIN After(text, kind)
        PROVE  Kind(After(text, kind)[k]) \notin {"ineq", "outset", "outeq"}
    BY RestIsOfTheText DEF OfKind
  <2>2. LuaInputs(text) = PyInputs(text)
    <3> DEFINE rest == After(text, "inputs")
    <3>1. OfKind(rest, {"in", "ineq"}) = OfKind(rest, {"in"})
      BY <2>1 DEF OfKind
    <3> HIDE DEF rest
    <3>2. QED BY <3>1 DEF LuaInputs, PyInputs, Rows, rest
  <2>3. LuaRouting(text) = PyRouting(text)
    <3> DEFINE rest == After(text, "matrix")
    <3>1. OfKind(rest, {"route", "outset", "outeq"}) = OfKind(rest, {"route"})
      BY <2>1 DEF OfKind
    <3>2. \A k \in OfKind(rest, {"route"}) : LuaRoute(rest[k]) = PyRoute(rest[k])
      BY DEF OfKind, LuaRoute, PyRoute
    <3> HIDE DEF rest
    <3>3. [k \in OfKind(rest, {"route"}) |-> LuaRoute(rest[k])] =
             [k \in OfKind(rest, {"route"}) |-> PyRoute(rest[k])]
      BY <3>2
    <3>4. QED BY <3>1, <3>3 DEF LuaRouting, PyRouting, Rows, rest
  <2>4. QED BY <2>2, <2>3, ReadableAlike DEF LuaParse, PyParse
<1>2. QED BY <1>1, TextIsSound, PTL

-----------------------------------------------------------------------------
(* A column names the source it shows, bus or input.                       *)
LEMMA ColumnsNameSources ==
    ASSUME NEW column \in Int
    PROVE  Column(SourceToken(column)) = column
  BY DEF Column, SourceToken, NoSource, ForInput, ForBus

(* The columns of the rows are numbers.                                    *)
LEMMA ColumnsAreNumbers ==
    ASSUME NEW line \in Reading, Kind(line) = "route"
    PROVE  line[4] \in Int
<1>1. \A c \in Columns \cup {1} : c \in Int
  <2>1. \A c \in Inputs : c \in Int
    BY TextAssumption
  <2>2. \A b \in Buses : 16 + b \in Int
    BY TextAssumption
  <2>3. QED BY <2>1, <2>2 DEF Columns
<1>2. QED BY <1>1, RowsOfReading

(* The library's two parsers report the same rows of any text that         *)
(* status_parser.py can read, buses apart (parser.py:173-211,              *)
(* status_parser.py:120-154).                                              *)
THEOREM ParsersReportTheSame == TextSpec => []TypedRowsAgree
<1>1. TextInv => TypedRowsAgree
  <2> SUFFICES ASSUME TextInv, PyReadable(text)
               PROVE  /\ ParseStatus(text).inputs = PyParse(text).inputs
                      /\ PyParse(text).routing =
                            Map(LAMBDA row : <<row.output, row.channel,
                                               FromInput(Column(row.source))>>,
                                ParseStatus(text).routing)
    BY DEF TypedRowsAgree
  <2> DEFINE rest == After(text, "matrix")
             routes == OfKind(rest, {"route"})
  <2>1. ParseStatus(text).inputs = PyInputs(text) /\ PyParse(text).inputs = PyInputs(text)
    BY ReadableAlike DEF ParseStatus, StatusReadable, PyParse
  <2>2. /\ ParseStatus(text).routing = StatusRouting(text)
        /\ PyParse(text).routing = PyRouting(text)
    BY ReadableAlike DEF ParseStatus, StatusReadable, PyParse
  <2>3. StatusRouting(text) = [k \in routes |-> StatusRow(rest[k])]
    <3>1. ASSUME NEW k \in 1 .. Len(text), Kind(text[k]) = "columns"
          PROVE  \E j \in 1 .. k - 1 : Kind(text[j]) = "matrix"
      <4>1. FitsAt(text, k, text[k])
        BY DEF TextInv
      <4>2. k - 1 \in 1 .. k - 1 /\ Kind(text[k - 1]) = "matrix"
        BY <3>1, <4>1 DEF FitsAt
      <4>3. QED BY <4>2
    <3>2. AfterAny(text, {"matrix", "columns"}) = rest
      BY <3>1, EitherTitle DEF TextInv
    <3>3. QED BY <3>2 DEF StatusRouting, Rows
  <2>4. PyRouting(text) = [k \in routes |-> PyRoute(rest[k])]
    BY DEF PyRouting, Rows
  <2>5. ASSUME NEW k \in routes
        PROVE  /\ StatusRow(rest[k]).output = rest[k][2]
               /\ StatusRow(rest[k]).channel = rest[k][3]
               /\ FromInput(Column(StatusRow(rest[k]).source)) = FromInput(rest[k][4])
    <3>1. rest[k] \in Reading /\ Kind(rest[k]) = "route"
      BY RestIsOfTheText DEF OfKind
    <3> HIDE DEF rest
    <3>2. Column(SourceToken(rest[k][4])) = rest[k][4]
      BY <3>1, ColumnsAreNumbers, ColumnsNameSources
    <3>3. QED BY <3>2 DEF StatusRow
  <2> HIDE DEF rest, routes
  <2>6. Map(LAMBDA row : <<row.output, row.channel, FromInput(Column(row.source))>>,
            StatusRouting(text)) =
           [k \in routes |-> <<StatusRow(rest[k]).output, StatusRow(rest[k]).channel,
                               FromInput(Column(StatusRow(rest[k]).source))>>]
    BY <2>3 DEF Map
  <2>7. QED BY <2>1, <2>2, <2>4, <2>5, <2>6 DEF PyRoute
<1>2. QED BY <1>1, TextIsSound, PTL

-----------------------------------------------------------------------------
(* Another line follows what was read after a title, or nothing is read    *)
(* after it whatever the line is.                                          *)
LEMMA RestGrows ==
    ASSUME NEW S, NEW s \in Seq(S), NEW kind
    PROVE  \/ /\ After(s, kind) = <<>>
              /\ \A line \in S : After(Append(s, line), kind) = <<>>
           \/ \A line \in S : After(Append(s, line), kind) = Append(After(s, kind), line)
<1> DEFINE n == Len(s)
<1>1. CASE \A k \in 1 .. n : Kind(s[k]) # kind
  <2>1. After(s, kind) = <<>>
    BY <1>1, AfterTitle
  <2> SUFFICES ASSUME NEW line \in S PROVE After(Append(s, line), kind) = <<>>
    BY <2>1
  <2> DEFINE t == Append(s, line)
  <2>2. /\ n \in Nat /\ t \in Seq(S) /\ Len(t) = n + 1
        /\ \A k \in 1 .. n : t[k] = s[k]
    BY AppendProperties
  <2> HIDE DEF t
  <2>3. ASSUME NEW k \in 1 .. Len(t), Kind(t[k]) = kind,
               After(t, kind) = SubSeq(t, k + 1, Len(t))
        PROVE  After(t, kind) = <<>>
    <3>1. k = n + 1
      <4>1. k \in 1 .. n + 1
        BY <2>2, <2>3
      <4>2. k \notin 1 .. n
        BY <1>1, <2>2, <2>3
      <4>3. QED BY <2>2, <4>1, <4>2
    <3>2. QED BY <2>2, <2>3, <3>1, SubSeqEmpty
  <2>4. QED BY <2>2, <2>3, AfterTitle DEF t
<1>2. ASSUME NEW j \in 1 .. n, Kind(s[j]) = kind, NEW line \in S
      PROVE  After(Append(s, line), kind) = Append(After(s, kind), line)
  <2> DEFINE t == Append(s, line)
  <2>a. /\ n \in Nat /\ t \in Seq(S) /\ Len(t) = n + 1
        /\ \A k \in 1 .. n : t[k] = s[k]
        /\ t[n + 1] = line
    BY AppendProperties
  <2> HIDE DEF t
  <2>1. PICK a \in 1 .. n : /\ Kind(s[a]) = kind
                            /\ \A i \in 1 .. a - 1 : Kind(s[i]) # kind
                            /\ After(s, kind) = SubSeq(s, a + 1, n)
    BY <1>2, AfterTitle
  <2>2. Kind(t[j]) = kind /\ j \in 1 .. Len(t)
    BY <2>a, <1>2
  <2>3. PICK b \in 1 .. n + 1 : /\ Kind(t[b]) = kind
                                /\ \A i \in 1 .. b - 1 : Kind(t[i]) # kind
                                /\ After(t, kind) = SubSeq(t, b + 1, n + 1)
    BY <2>a, <2>2, AfterTitle
  <2>4. a = b
    <3>1. b <= a
      BY <2>a, <2>1, <2>3
    <3>2. a <= b
      <4>1. SUFFICES ASSUME b < a PROVE FALSE
        BY <2>a
      <4>2. b \in 1 .. a - 1 /\ b \in 1 .. n
        BY <2>a, <4>1
      <4>3. Kind(s[b]) = kind
        BY <2>a, <2>3, <4>2
      <4>4. QED BY <2>1, <4>2, <4>3
    <3>3. QED BY <3>1, <3>2
  <2>5. SubSeq(t, a + 1, n + 1) = Append(SubSeq(s, a + 1, n), line)
    <3> DEFINE left == SubSeq(t, a + 1, n + 1)
               right == Append(SubSeq(s, a + 1, n), line)
    <3>1. /\ left \in Seq(S) /\ Len(left) = n + 1 - a
          /\ \A i \in 1 .. n + 1 - a : left[i] = t[a + i]
      BY <2>a, SubSeqProperties
    <3>2. /\ SubSeq(s, a + 1, n) \in Seq(S) /\ Len(SubSeq(s, a + 1, n)) = n - a
          /\ \A i \in 1 .. n - a : SubSeq(s, a + 1, n)[i] = s[a + i]
      BY <2>a
    <3>3. /\ right \in Seq(S) /\ Len(right) = n + 1 - a
          /\ \A i \in 1 .. n - a : right[i] = s[a + i]
          /\ right[n + 1 - a] = line
      BY <2>a, <3>2, AppendProperties
    <3> HIDE DEF left, right
    <3>4. \A i \in 1 .. n + 1 - a : left[i] = right[i]
      BY <2>a, <3>1, <3>3
    <3>5. left = right
      BY <3>1, <3>3, <3>4, SeqEqual
    <3>6. QED BY <3>5 DEF left, right
  <2>6. QED BY <2>a, <2>1, <2>3, <2>4, <2>5 DEF t
<1>3. QED BY <1>1, <1>2

(* A text that can be read stays so with another line.                     *)
LEMMA ReadableStays ==
    ASSUME NEW S, NEW s \in Seq(S), NEW line \in S, LuaReadable(s)
    PROVE  LuaReadable(Append(s, line))
<1> DEFINE rest == After(s, "header")
<1>1. rest # <<>> /\ rest \in Seq(S)
  BY AfterLines DEF LuaReadable, SystemLine
<1>2. After(Append(s, line), "header") = Append(rest, line)
  BY <1>1, RestGrows
<1> HIDE DEF rest
<1>3. Append(rest, line) # <<>> /\ Append(rest, line)[1] = rest[1]
  BY <1>1, AppendProperties
<1>4. QED BY <1>2, <1>3 DEF LuaReadable, SystemLine, rest

(* The rows of the lines there are stay what they are with another line.   *)
LEMMA RowsStay ==
    ASSUME NEW S, NEW s \in Seq(S), NEW line \in S,
           NEW n \in Int, n <= Len(After(s, "matrix"))
    PROVE  /\ n <= Len(After(Append(s, line), "matrix"))
           /\ FirstLines(LuaRouting(Append(s, line)), n) = FirstLines(LuaRouting(s), n)
<1> DEFINE rest == After(s, "matrix")
           more == After(Append(s, line), "matrix")
           rows == LuaRouting(s)
           all == LuaRouting(Append(s, line))
<1>1. rest \in Seq(S) /\ Len(rest) \in Nat
  BY AfterLines
<1>2. (rest = <<>> /\ more = <<>>) \/ more = Append(rest, line)
  BY RestGrows
<1>3. /\ DOMAIN rows = { k \in DOMAIN rest : Kind(rest[k]) \in {"route", "outset", "outeq"} }
      /\ \A k \in DOMAIN rows : rows[k] = LuaRoute(rest[k])
      /\ DOMAIN all = { k \in DOMAIN more : Kind(more[k]) \in {"route", "outset", "outeq"} }
      /\ \A k \in DOMAIN all : all[k] = LuaRoute(more[k])
  BY LuaRows
<1>4. n <= Len(rest)
  OBVIOUS
<1> HIDE DEF rest, more, rows, all
<1>5. /\ n <= Len(more)
      /\ { k \in DOMAIN rest : k <= n } = { k \in DOMAIN more : k <= n }
      /\ \A k \in DOMAIN rest : more[k] = rest[k]
  <2>1. CASE rest = <<>> /\ more = <<>>
    BY <1>4, <2>1
  <2>2. CASE more = Append(rest, line)
    <3>1. /\ DOMAIN more = 1 .. Len(rest) + 1 /\ Len(more) = Len(rest) + 1
          /\ \A k \in 1 .. Len(rest) : more[k] = rest[k]
          /\ DOMAIN rest = 1 .. Len(rest)
      BY <1>1, <2>2, AppendProperties
    <3>2. QED BY <1>1, <1>4, <3>1
  <2>3. QED BY <1>2, <2>1, <2>2
<1>6. { k \in DOMAIN all : k <= n } = { k \in DOMAIN rows : k <= n }
  BY <1>3, <1>5
<1>7. \A k \in { i \in DOMAIN rows : i <= n } : all[k] = rows[k]
  BY <1>3, <1>5, <1>6
<1>8. FirstLines(all, n) = FirstLines(rows, n)
  BY <1>6, <1>7 DEF FirstLines, Restrict
<1>9. QED BY <1>5, <1>8 DEF more, rows, all

(* The lines of a text that are complete, and the one it ends inside of.   *)
LEMMA CompleteLines ==
    ASSUME TextInv, toCome # <<>>
    PROVE  \E s \in Seq(Reading) :
              /\ text = Append(s, text[Len(text)])
              /\ \A x \in Reading : [text EXCEPT ![Len(text)] = x] = Append(s, x)
              /\ LinesDone("matrix") <= Len(After(s, "matrix"))
              /\ LuaReadable(text) => LuaReadable(s)
<1> DEFINE n == Len(text)
           s == SubSeq(text, 1, n - 1)
           line == text[n]
<1>1. /\ text \in Seq(Reading) /\ n \in Nat /\ n >= 1 /\ line \in Reading
      /\ Kind(line) \in {"text", "route", "outeq"}
  BY DEF TextInv, CutLine
<1>2. s \in Seq(Reading) /\ Len(s) = n - 1 /\ \A k \in 1 .. n - 1 : s[k] = text[k]
  <2>1. PICK m \in Nat : m = n - 1 /\ \A k \in 1 .. m : text[k] \in Reading
    BY <1>1
  <2>2. /\ s \in Seq(Reading) /\ \A k \in 1 .. m - 1 + 1 : s[k] = text[1 + k - 1]
        /\ Len(s) = IF 1 <= m THEN m - 1 + 1 ELSE 0
    BY <2>1, SubSeqProperties
  <2> HIDE DEF s, n
  <2>3. Len(s) = m
    <3>1. CASE 1 <= m
      BY <2>2, <3>1
    <3>2. CASE ~(1 <= m)
      BY <2>2, <3>2
    <3>3. QED BY <3>1, <3>2
  <2>4. \A k \in 1 .. m : s[k] = text[k]
    <3>1. \A k \in 1 .. m : k \in 1 .. m - 1 + 1 /\ 1 + k - 1 = k
      OBVIOUS
    <3>2. QED BY <2>2, <3>1
  <2>5. QED BY <2>1, <2>2, <2>3, <2>4
<1> HIDE DEF s
<1>3. ASSUME NEW x \in Reading PROVE [text EXCEPT ![n] = x] = Append(s, x)
  <2>1. /\ Append(s, x) \in Seq(Reading) /\ Len(Append(s, x)) = n
        /\ \A k \in 1 .. n - 1 : Append(s, x)[k] = text[k]
        /\ Append(s, x)[n] = x
    BY <1>1, <1>2, AppendProperties
  <2>2. /\ [text EXCEPT ![n] = x] \in Seq(Reading) /\ Len([text EXCEPT ![n] = x]) = n
        /\ \A k \in 1 .. n - 1 : [text EXCEPT ![n] = x][k] = text[k]
        /\ [text EXCEPT ![n] = x][n] = x
    BY <1>1
  <2>3. \A k \in 1 .. n : [text EXCEPT ![n] = x][k] = Append(s, x)[k]
    BY <1>1, <2>1, <2>2
  <2>4. QED BY <2>1, <2>2, <2>3, SeqEqual
<1>4. text = Append(s, line)
  <2>1. [text EXCEPT ![n] = line] = text
    BY <1>1
  <2>2. QED BY <1>1, <1>3, <2>1
<1>5. ASSUME NEW kind
      PROVE  \/ After(s, kind) = <<>> /\ After(text, kind) = <<>>
             \/ After(text, kind) = Append(After(s, kind), line)
  <2>1. \/ After(s, kind) = <<>> /\ After(Append(s, line), kind) = <<>>
        \/ After(Append(s, line), kind) = Append(After(s, kind), line)
    BY <1>1, <1>2, RestGrows
  <2>2. QED BY <1>4, <2>1
<1>6. \A kind : After(s, kind) \in Seq(Reading) /\ Len(After(s, kind)) \in Nat
  BY <1>2, AfterLines
<1> HIDE DEF n, line
<1>7. LinesDone("matrix") <= Len(After(s, "matrix"))
  <2>1. LinesDone("matrix") = Len(After(text, "matrix")) - 1
    BY DEF LinesDone
  <2>2. CASE After(text, "matrix") = <<>>
    BY <1>6, <2>1, <2>2
  <2>3. CASE After(text, "matrix") = Append(After(s, "matrix"), line)
    <3>1. Len(Append(After(s, "matrix"), line)) = Len(After(s, "matrix")) + 1
      BY <1>1, <1>6, AppendProperties
    <3>2. QED BY <1>6, <2>1, <2>3, <3>1
  <2>4. QED BY <1>5, <2>2, <2>3
<1>8. ASSUME LuaReadable(text) PROVE LuaReadable(s)
  <2> DEFINE rest == After(s, "header")
             more == After(text, "header")
  <2>1. more # <<>> /\ Kind(more[1]) \in {"data", "header", "in", "ineq", "outset", "outeq"}
    BY <1>8 DEF LuaReadable, SystemLine
  <2>2. Kind(more[1]) = "data"
    BY <2>1, DataFollowsTheHeader
  <2>3. more = Append(rest, line)
    BY <1>5, <2>1
  <2>4. rest \in Seq(Reading) /\ Len(rest) \in Nat
    BY <1>6
  <2> HIDE DEF rest, more
  <2>5. rest # <<>>
    <3>1. rest = <<>> => more[1] = line
      BY <1>1, <2>3, <2>4
    <3>2. QED BY <1>1, <2>2, <3>1
  <2>6. more[1] = rest[1]
    BY <1>1, <2>3, <2>4, <2>5, AppendProperties
  <2>7. QED BY <2>1, <2>5, <2>6 DEF LuaReadable, SystemLine, rest
<1>9. QED BY <1>2, <1>3, <1>4, <1>7, <1>8 DEF n, line

(* What a driver that parses after every chunk may rely on, wherever the   *)
(* chunks end: a complete row is never taken back or changed, a text that  *)
(* could be read can be read, and only the row that the text ends inside   *)
(* of may change yet (status_parser.lua:37-73, 117-150, driver.lua:230-247).*)
THEOREM CompleteRowsStay == TextSpec => OnlyTheCutRowChanges
<1> DEFINE Kept == /\ LuaReadable(text) => LuaReadable(text')
                   /\ FirstLines(LuaRouting(text'), LinesDone("matrix")) =
                         FirstLines(LuaRouting(text), LinesDone("matrix"))
           n == LinesDone("matrix")
<1>1. ASSUME TextInv, TextInv', NEW line \in Lines, Arrives(line) PROVE Kept
  <2>1. text \in Seq(Reading) /\ toCome = <<>>
    BY <1>1 DEF Arrives, TextInv
  <2>2. PICK x : text' = Append(text, x) /\ x \in Reading
    <3>1. PICK growth \in Growths(line) : \E k \in 1 .. Len(growth) :
             text' = Append(text, growth[k])
      BY <1>1 DEF Arrives
    <3>2. growth \in Seq(Reading)
      BY GrowthsOf
    <3>3. QED BY <3>1, <3>2
  <2>3. n = Len(After(text, "matrix")) /\ After(text, "matrix") \in Seq(Reading)
    BY <2>1, AfterLines DEF LinesDone
  <2>4. n \in Int /\ n <= Len(After(text, "matrix"))
    BY <2>3
  <2> HIDE DEF n
  <2>5. FirstLines(LuaRouting(text'), n) = FirstLines(LuaRouting(text), n)
    BY <2>1, <2>2, <2>4, RowsStay
  <2>6. LuaReadable(text) => LuaReadable(text')
    BY <2>1, <2>2, ReadableStays
  <2>7. QED BY <2>5, <2>6 DEF n
<1>2. ASSUME TextInv, TextInv', toCome # <<>>,
             NEW x \in Reading, NEW y \in Reading,
             \/ text' = [text EXCEPT ![Len(text)] = x]
             \/ text' = Append([text EXCEPT ![Len(text)] = x], y)
      PROVE  Kept
  <2> DEFINE l == text[Len(text)]
  <2>1. PICK s \in Seq(Reading) :
           /\ text = Append(s, l)
           /\ \A z \in Reading : [text EXCEPT ![Len(text)] = z] = Append(s, z)
           /\ n <= Len(After(s, "matrix"))
           /\ LuaReadable(text) => LuaReadable(s)
    BY <1>2, CompleteLines
  <2>2. n \in Int
    <3>1. After(text, "matrix") \in Seq(Reading)
      BY <1>2, AfterLines DEF TextInv
    <3>2. QED BY <3>1 DEF LinesDone
  <2>3. l \in Reading /\ Append(s, x) \in Seq(Reading)
    <3>1. text \in Seq(Reading) /\ text # <<>>
      BY <1>2 DEF TextInv, CutLine
    <3>2. QED BY <3>1
  <2>4. text' = Append(s, x) \/ text' = Append(Append(s, x), y)
    BY <1>2, <2>1
  <2> HIDE DEF n, l
  <2>5. FirstLines(LuaRouting(text), n) = FirstLines(LuaRouting(s), n)
    BY <2>1, <2>2, <2>3, RowsStay
  <2>6. /\ n <= Len(After(Append(s, x), "matrix"))
        /\ FirstLines(LuaRouting(Append(s, x)), n) = FirstLines(LuaRouting(s), n)
    BY <2>1, <2>2, RowsStay
  <2>7. FirstLines(LuaRouting(Append(Append(s, x), y)), n) =
           FirstLines(LuaRouting(Append(s, x)), n)
    BY <2>2, <2>3, <2>6, RowsStay
  <2>8. LuaReadable(s) => LuaReadable(Append(s, x)) /\ LuaReadable(Append(Append(s, x), y))
    BY <2>3, ReadableStays
  <2>9. FirstLines(LuaRouting(text'), n) = FirstLines(LuaRouting(text), n)
    BY <2>4, <2>5, <2>6, <2>7
  <2>10. LuaReadable(text) => LuaReadable(text')
    BY <2>1, <2>4, <2>8
  <2>11. QED BY <2>9, <2>10 DEF n
<1>3. ASSUME TextInv, TextInv', NEW k \in 1 .. Len(toCome), Grows(k) PROVE Kept
  <2>1. toCome # <<>> /\ toCome[k] \in Reading
    BY <1>3 DEF TextInv
  <2>2. text' = [text EXCEPT ![Len(text)] = toCome[k]]
    BY <1>3 DEF Grows
  <2> HIDE DEF Kept
  <2>3. QED BY <1>2, <1>3, <2>1, <2>2
<1>4. ASSUME TextInv, TextInv', LinkLostInside PROVE Kept
  <2>1. PICK x : text' = Append([text EXCEPT ![Len(text)] = x], <<"text">>)
    BY <1>4 DEF LinkLostInside
  <2>2. toCome # <<>> /\ <<"text">> \in Reading
    BY <1>4 DEF LinkLostInside, Reading, Lines, Titles
  <2>3. x \in Reading
    <3>1. text \in Seq(Reading) /\ text # <<>> /\ text' \in Seq(Reading)
      BY <1>4, <2>2 DEF TextInv, CutLine
    <3> DEFINE s == [text EXCEPT ![Len(text)] = x]
    <3>2. s \in Seq(Reading \cup {x}) /\ Len(s) = Len(text) /\ s[Len(text)] = x
      BY <3>1
    <3> HIDE DEF s
    <3>3. text'[Len(text)] = x /\ Len(text) \in 1 .. Len(text')
      BY <2>1, <3>1, <3>2, AppendProperties DEF s
    <3>4. QED BY <3>1, <3>3
  <2> HIDE DEF Kept
  <2>4. QED BY <1>2, <1>4, <2>1, <2>2, <2>3
<1>5. TextInv /\ TextInv' /\ [TextNext]_textVars => [Kept]_textVars
  BY <1>1, <1>3, <1>4 DEF TextNext
<1>6. QED BY <1>5, TextIsSound, PTL DEF TextSpec, OnlyTheCutRowChanges
=============================================================================
