------------------------ MODULE SessionPromise_proofs -------------------------
(***************************************************************************)
(* Proofs about what send_command returns: that a call that succeeds has   *)
(* its own reply, and that the session implements RequestReply.  Both hold *)
(* for any set of tasks and any bounds where no chunk of the stream ends   *)
(* inside a banner and what comes of an abandoned call comes before the    *)
(* drain of the next one is over.                                          *)
(***************************************************************************)
EXTENDS DeviceSession_proofs

-----------------------------------------------------------------------------
\* What travels to a task that reads: its reply, in order, and whole banners.

OwnReply(t) == Reply(CommandOf(t))

(* The reply to a task is its own, one marker or a header and a rule.      *)
LEMMA OwnReplyLines ==
    ASSUME NEW t \in Tasks
    PROVE  /\ OwnReply(t) \in Seq(Line)
           /\ Len(OwnReply(t)) = IF t = Poller THEN 2 ELSE 1
           /\ \A k \in 1 .. Len(OwnReply(t)) :
                 /\ OwnReply(t)[k].of = t /\ OwnReply(t)[k] \in Line
                 /\ OwnReply(t)[k].kind = IF t # Poller THEN "marker"
                                          ELSE IF k = 1 THEN "header" ELSE "rule"
<1>1. CommandOf(t) \in Command /\ CommandOf(t).by = t /\ CommandOf(t).of = t
  BY DEF CommandOf, Command
<1>2. /\ OwnReply(t) \in Seq(Line)
      /\ Len(OwnReply(t)) = Len(ReplyKinds(t))
      /\ \A k \in 1 .. Len(OwnReply(t)) :
            OwnReply(t)[k] = [kind |-> ReplyKinds(t)[k], of |-> t]
  BY <1>1, ReplyLines DEF OwnReply
<1>3. /\ Len(ReplyKinds(t)) = IF t = Poller THEN 2 ELSE 1
      /\ \A k \in 1 .. Len(ReplyKinds(t)) :
            ReplyKinds(t)[k] = IF t # Poller THEN "marker"
                               ELSE IF k = 1 THEN "header" ELSE "rule"
  <2>1. CASE t = Poller
    BY <2>1 DEF ReplyKinds
  <2>2. CASE t # Poller
    BY <2>2 DEF ReplyKinds
  <2>3. QED BY <2>1, <2>2
<1>4. \A k \in 1 .. Len(OwnReply(t)) : OwnReply(t)[k] \in Line
  BY <1>2
<1>5. ASSUME NEW k \in 1 .. Len(OwnReply(t))
      PROVE  /\ OwnReply(t)[k].of = t
             /\ OwnReply(t)[k].kind = IF t # Poller THEN "marker"
                                      ELSE IF k = 1 THEN "header" ELSE "rule"
  <2>1. k \in 1 .. Len(ReplyKinds(t)) /\ OwnReply(t)[k] = [kind |-> ReplyKinds(t)[k], of |-> t]
    BY <1>2
  <2>2. OwnReply(t)[k].of = t /\ OwnReply(t)[k].kind = ReplyKinds(t)[k]
    BY <2>1
  <2>3. QED BY <1>3, <2>1, <2>2
<1>6. Len(OwnReply(t)) = IF t = Poller THEN 2 ELSE 1
  BY <1>2, <1>3
<1>7. QED BY <1>2, <1>4, <1>5, <1>6

\* Line k of s is in a banner that s holds whole.
InBlock(s, k) ==
    \E i \in 1 .. Len(s) - 2 :
        /\ i <= k /\ k <= i + 2
        /\ s[i] = Banner[1] /\ s[i + 1] = Banner[2] /\ s[i + 2] = Banner[3]

\* p is where the lines of reply from g + 1 to m are in s, and the rest of s is
\* banners.
Places(s, reply, g, m, p) ==
    /\ p \in [g + 1 .. m -> 1 .. Len(s)]
    /\ \A j \in g + 1 .. m : s[p[j]] = reply[j]
    /\ \A i, j \in g + 1 .. m : i < j => p[i] < p[j]
    /\ \A k \in 1 .. Len(s) : (\E j \in g + 1 .. m : p[j] = k) \/ InBlock(s, k)
Carries(s, reply, g, m) == \E p : Places(s, reply, g, m, p)

(* An empty stream carries nothing.                                        *)
LEMMA CarriesNothing ==
    ASSUME NEW reply, NEW g \in Nat
    PROVE  Carries(<<>>, reply, g, g)
<1> DEFINE p == [j \in g + 1 .. g |-> 1]
<1>1. g + 1 .. g = {} /\ 1 .. Len(<<>>) = {}
  OBVIOUS
<1>2. Places(<<>>, reply, g, g, p)
  BY <1>1 DEF Places
<1>3. QED BY <1>2 DEF Carries

(* The matrix sends the next line of the reply.                            *)
LEMMA CarriesOneMore ==
    ASSUME NEW t \in Tasks, NEW s \in Seq(Line), NEW m \in Nat, NEW g \in 0 .. m,
           m + 1 \in 1 .. Len(OwnReply(t)), Carries(s, OwnReply(t), g, m)
    PROVE  Carries(Append(s, OwnReply(t)[m + 1]), OwnReply(t), g, m + 1)
<1> DEFINE l == OwnReply(t)[m + 1]
           a == Append(s, l)
<1>1. l \in Line
  BY OwnReplyLines
<1>2. /\ a \in Seq(Line) /\ Len(a) = Len(s) + 1 /\ Len(s) \in Nat
      /\ \A k \in 1 .. Len(s) : a[k] = s[k]
      /\ a[Len(s) + 1] = l
  BY <1>1, AppendProperties
<1>3. PICK p : Places(s, OwnReply(t), g, m, p)
  BY DEF Carries
<1> DEFINE q == [j \in g + 1 .. m + 1 |-> IF j = m + 1 THEN Len(s) + 1 ELSE p[j]]
<1>4. \A j \in g + 1 .. m : p[j] \in 1 .. Len(s) /\ s[p[j]] = OwnReply(t)[j]
  BY <1>3 DEF Places
<1>5. \A j \in g + 1 .. m + 1 : j = m + 1 \/ j \in g + 1 .. m
  OBVIOUS
<1>6. \A j \in g + 1 .. m : j # m + 1 /\ j \in g + 1 .. m + 1
  OBVIOUS
<1>7. m + 1 \in g + 1 .. m + 1
  OBVIOUS
<1>8. /\ \A j \in g + 1 .. m : q[j] = p[j]
      /\ q[m + 1] = Len(s) + 1
  BY <1>6, <1>7
<1>9. q \in [g + 1 .. m + 1 -> 1 .. Len(a)]
  BY <1>2, <1>4, <1>5
<1> HIDE DEF a, l, q
<1>10. \A j \in g + 1 .. m + 1 : a[q[j]] = OwnReply(t)[j]
  BY <1>2, <1>4, <1>5, <1>8 DEF l
<1>11. \A i, j \in g + 1 .. m + 1 : i < j => q[i] < q[j]
  <2>1. ASSUME NEW i \in g + 1 .. m + 1, NEW j \in g + 1 .. m + 1, i < j
        PROVE  q[i] < q[j]
    <3>1. i \in g + 1 .. m
      BY <2>1
    <3>2. CASE j = m + 1
      BY <1>2, <1>4, <1>8, <3>1, <3>2
    <3>3. CASE j \in g + 1 .. m
      BY <1>3, <1>8, <2>1, <3>1, <3>3 DEF Places
    <3>4. QED BY <1>5, <3>2, <3>3
  <2>2. QED BY <2>1
<1>12. \A k \in 1 .. Len(a) : (\E j \in g + 1 .. m + 1 : q[j] = k) \/ InBlock(a, k)
  <2>1. ASSUME NEW k \in 1 .. Len(s), InBlock(s, k) PROVE InBlock(a, k)
    <3>1. PICK i \in 1 .. Len(s) - 2 :
             /\ i <= k /\ k <= i + 2
             /\ s[i] = Banner[1] /\ s[i + 1] = Banner[2] /\ s[i + 2] = Banner[3]
      BY <2>1 DEF InBlock
    <3>2. i \in 1 .. Len(a) - 2 /\ i \in 1 .. Len(s) /\ i + 1 \in 1 .. Len(s)
          /\ i + 2 \in 1 .. Len(s)
      BY <1>2
    <3>3. QED BY <1>2, <3>1, <3>2 DEF InBlock
  <2>2. ASSUME NEW k \in 1 .. Len(a), k # Len(s) + 1
        PROVE  (\E j \in g + 1 .. m + 1 : q[j] = k) \/ InBlock(a, k)
    <3>1. k \in 1 .. Len(s)
      BY <1>2, <2>2
    <3>2. (\E j \in g + 1 .. m : p[j] = k) \/ InBlock(s, k)
      BY <1>3, <3>1 DEF Places
    <3>3. QED BY <1>6, <1>8, <2>1, <3>1, <3>2
  <2>3. QED BY <1>7, <1>8, <2>2
<1>13. Places(a, OwnReply(t), g, m + 1, q)
  BY <1>9, <1>10, <1>11, <1>12 DEF Places
<1>14. QED BY <1>13 DEF Carries, a, l

(* The matrix greets another client in the middle of it.                   *)
LEMMA CarriesBanner ==
    ASSUME NEW s \in Seq(Line), NEW reply, NEW m \in Nat, NEW g \in 0 .. m,
           Carries(s, reply, g, m)
    PROVE  Carries(s \o Banner, reply, g, m)
<1> DEFINE a == s \o Banner
<1>0. Banner \in Seq(Line) /\ Len(Banner) = 3
  BY BannerLines
<1>1. /\ a \in Seq(Line) /\ Len(a) = Len(s) + 3 /\ Len(s) \in Nat
      /\ \A k \in 1 .. Len(s) + 3 : a[k] = IF k <= Len(s) THEN s[k] ELSE Banner[k - Len(s)]
  <2>1. /\ a \in Seq(Line) /\ Len(a) = Len(s) + Len(Banner)
        /\ \A k \in 1 .. Len(s) + Len(Banner) :
              a[k] = IF k <= Len(s) THEN s[k] ELSE Banner[k - Len(s)]
    BY <1>0, ConcatProperties
  <2> HIDE DEF a
  <2>2. Len(s) \in Nat
    OBVIOUS
  <2>3. QED BY <1>0, <2>1, <2>2
<1>2. PICK p : Places(s, reply, g, m, p)
  BY DEF Carries
<1> HIDE DEF a
<1>3. \A k \in 1 .. Len(s) : a[k] = s[k]
  BY <1>1
<1>4. /\ a[Len(s) + 1] = Banner[1] /\ a[Len(s) + 2] = Banner[2]
      /\ a[Len(s) + 3] = Banner[3]
  <2>1. ASSUME NEW k \in 1 .. 3 PROVE a[Len(s) + k] = Banner[k]
    <3>1. Len(s) + k \in 1 .. Len(s) + 3 /\ ~(Len(s) + k <= Len(s)) /\ Len(s) + k - Len(s) = k
      BY <1>1
    <3>2. a[Len(s) + k] = Banner[Len(s) + k - Len(s)]
      BY <1>1, <3>1
    <3>3. QED BY <3>1, <3>2
  <2>2. QED BY <2>1
<1>5. p \in [g + 1 .. m -> 1 .. Len(a)] /\ \A j \in g + 1 .. m : a[p[j]] = reply[j]
  <2>1. /\ p \in [g + 1 .. m -> 1 .. Len(s)]
        /\ \A j \in g + 1 .. m : p[j] \in 1 .. Len(s) /\ s[p[j]] = reply[j]
    BY <1>2 DEF Places
  <2>2. 1 .. Len(s) \subseteq 1 .. Len(a)
    BY <1>1
  <2>3. p \in [g + 1 .. m -> 1 .. Len(a)]
    BY <2>1, <2>2
  <2>4. QED BY <1>3, <2>1, <2>3
<1>6. ASSUME NEW k \in 1 .. Len(a)
      PROVE  (\E j \in g + 1 .. m : p[j] = k) \/ InBlock(a, k)
  <2>1. CASE k <= Len(s) /\ InBlock(s, k)
    <3>1. PICK i \in 1 .. Len(s) - 2 :
             /\ i <= k /\ k <= i + 2
             /\ s[i] = Banner[1] /\ s[i + 1] = Banner[2] /\ s[i + 2] = Banner[3]
      BY <2>1 DEF InBlock
    <3>2. i \in 1 .. Len(a) - 2 /\ i \in 1 .. Len(s) /\ i + 1 \in 1 .. Len(s)
          /\ i + 2 \in 1 .. Len(s)
      BY <1>1
    <3>3. QED BY <1>3, <3>1, <3>2 DEF InBlock
  <2>2. CASE k <= Len(s) /\ ~InBlock(s, k)
    <3>1. k \in 1 .. Len(s)
      BY <1>1, <2>2
    <3>2. QED BY <1>2, <2>2, <3>1 DEF Places
  <2>3. CASE ~(k <= Len(s))
    <3>1. /\ Len(s) + 1 \in 1 .. Len(a) - 2 /\ Len(s) + 1 <= k /\ k <= Len(s) + 1 + 2
          /\ Len(s) + 1 + 1 = Len(s) + 2 /\ Len(s) + 1 + 2 = Len(s) + 3
      BY <1>1, <2>3
    <3>2. QED BY <1>4, <3>1 DEF InBlock
  <2>4. QED BY <2>1, <2>2, <2>3
<1>7. Places(a, reply, g, m, p)
  BY <1>2, <1>5, <1>6 DEF Places
<1>8. QED BY <1>7 DEF Carries, a

(* Whose the lines are.                                                    *)
LEMMA CarriesOwners ==
    ASSUME NEW t \in Tasks, NEW s \in Seq(Line), NEW m \in Nat, NEW g \in 0 .. m,
           m <= Len(OwnReply(t)), Carries(s, OwnReply(t), g, m)
    PROVE  /\ \A k \in 1 .. Len(s) : s[k].of \in {t, Nobody}
           /\ OwnIn(t, s) <=> g < m
<1>1. PICK p : Places(s, OwnReply(t), g, m, p)
  BY DEF Carries
<1>2. \A j \in g + 1 .. m : j \in 1 .. Len(OwnReply(t))
  BY OwnReplyLines
<1>3. \A j \in g + 1 .. m : p[j] \in 1 .. Len(s) /\ s[p[j]].of = t
  BY <1>1, <1>2, OwnReplyLines DEF Places
<1>4. ASSUME NEW k \in 1 .. Len(s), InBlock(s, k) PROVE s[k].of = Nobody
  <2>1. PICK i \in 1 .. Len(s) - 2 :
           /\ i <= k /\ k <= i + 2
           /\ s[i] = Banner[1] /\ s[i + 1] = Banner[2] /\ s[i + 2] = Banner[3]
    BY <1>4 DEF InBlock
  <2>2. k = i \/ k = i + 1 \/ k = i + 2
    BY <2>1
  <2>3. QED BY <2>1, <2>2, BannerLines
<1>5. \A k \in 1 .. Len(s) : (\E j \in g + 1 .. m : p[j] = k) \/ s[k].of = Nobody
  BY <1>1, <1>4 DEF Places
<1>6. DOMAIN s = 1 .. Len(s) /\ t # Nobody
  BY SessionAssumption
<1>7. g < m => m \in g + 1 .. m
  OBVIOUS
<1>8. (\E j \in g + 1 .. m : TRUE) => g < m
  OBVIOUS
<1>9. QED BY <1>3, <1>5, <1>6, <1>7, <1>8 DEF OwnIn

(* Stripping a text leaves, in order, the lines that are in no banner.     *)
LEMMA StrippedPicks ==
    ASSUME NEW S, NEW text \in Seq(S), NEW c \in Nat,
           NEW q \in [1 .. c -> 1 .. Len(text)],
           \A i, j \in 1 .. c : i < j => q[i] < q[j],
           \A k \in 1 .. Len(text) : ~InBanner(text, k) <=> \E j \in 1 .. c : q[j] = k
    PROVE  /\ StripBanners(text) \in Seq(S)
           /\ Len(StripBanners(text)) = c
           /\ \A j \in 1 .. c : StripBanners(text)[j] = text[q[j]]
<1> DEFINE kept == Kept(text)
           upTo(k) == { m \in kept : m <= k }
           pick(i) == CHOOSE k \in kept : Cardinality(upTo(k)) = i
<1>1. Len(text) \in Nat /\ DOMAIN text = 1 .. Len(text)
  OBVIOUS
<1>2. \A j \in 1 .. c : q[j] \in 1 .. Len(text) /\ q[j] \in Nat
  OBVIOUS
<1>3. \A k : k \in kept <=> \E j \in 1 .. c : q[j] = k
  BY <1>1, <1>2 DEF Kept
<1>4. ASSUME NEW i \in 1 .. c, NEW j \in 1 .. c PROVE q[i] <= q[j] <=> i <= j
  <2>1. i < j \/ i = j \/ j < i
    OBVIOUS
  <2>2. (i < j => q[i] < q[j]) /\ (j < i => q[j] < q[i])
    OBVIOUS
  <2>3. QED BY <1>2, <2>1, <2>2
<1>5. ASSUME NEW T, NEW i \in 0 .. c, \A k : k \in T <=> \E j \in 1 .. i : q[j] = k
      PROVE  Cardinality(T) = i
  <2> DEFINE f == [j \in 1 .. i |-> q[j]]
  <2>1. \A j \in 1 .. i : j \in 1 .. c /\ f[j] = q[j]
    OBVIOUS
  <2>2. DOMAIN f = 1 .. i /\ f \in [1 .. i -> T]
    BY <1>5, <2>1
  <2> HIDE DEF f
  <2>3. \A j, k \in 1 .. i : f[j] = f[k] => j = k
    <3>1. ASSUME NEW j \in 1 .. i, NEW k \in 1 .. i, f[j] = f[k] PROVE j = k
      <4>1. j \in 1 .. c /\ k \in 1 .. c /\ q[j] = q[k] /\ q[j] \in Nat
        BY <1>2, <2>1, <3>1
      <4>2. j <= k /\ k <= j
        BY <1>4, <4>1
      <4>3. QED BY <4>2
    <3>2. QED BY <3>1
  <2>4. \A k \in T : \E j \in 1 .. i : f[j] = k
    BY <1>5, <2>1
  <2>5. f \in Bijection(1 .. i, T)
    BY <2>2, <2>3, <2>4 DEF Bijection, Injection, Surjection, IsInjective
  <2>6. ExistsBijection(1 .. i, T)
    BY <2>5 DEF ExistsBijection
  <2>7. i \in Nat
    OBVIOUS
  <2>8. QED BY <2>6, <2>7, FS_CountingElements
<1>6. Cardinality(kept) = c
  BY <1>3, <1>5
<1>7. ASSUME NEW i \in 1 .. c PROVE Cardinality(upTo(q[i])) = i
  <2>1. ASSUME NEW k PROVE k \in upTo(q[i]) <=> \E j \in 1 .. i : q[j] = k
    <3>1. k \in upTo(q[i]) <=> k \in kept /\ k <= q[i]
      BY Zenon
    <3>2. k \in upTo(q[i]) <=> \E j \in 1 .. c : q[j] = k /\ q[j] <= q[i]
      BY <1>3, <3>1, Zenon
    <3>3. \A j \in 1 .. c : q[j] <= q[i] <=> j \in 1 .. i
      BY <1>4
    <3>4. \A j \in 1 .. i : j \in 1 .. c
      OBVIOUS
    <3>5. QED BY <3>2, <3>3, <3>4, Zenon
  <2>2. i \in 0 .. c
    OBVIOUS
  <2>3. QED BY <1>5, <2>1, <2>2, Zenon
<1>8. ASSUME NEW i \in 1 .. c PROVE pick(i) = q[i]
  <2>1. q[i] \in kept /\ Cardinality(upTo(q[i])) = i
    BY <1>3, <1>7
  <2>2. pick(i) \in kept /\ Cardinality(upTo(pick(i))) = i
    BY <2>1, Zenon
  <2>3. PICK j \in 1 .. c : q[j] = pick(i)
    BY <1>3, <2>2, Zenon
  <2>4. Cardinality(upTo(pick(i))) = j
    BY <1>7, <2>3, Zenon
  <2>5. QED BY <2>2, <2>3, <2>4, Zenon
<1>9. StripBanners(text) = [i \in 1 .. Cardinality(kept) |-> text[pick(i)]]
  BY DEF StripBanners, Kept
<1> HIDE DEF kept, upTo, pick
<1>10. \A i \in 1 .. c : StripBanners(text)[i] = text[q[i]] /\ text[q[i]] \in S
  BY <1>2, <1>6, <1>8, <1>9
<1>11. DOMAIN StripBanners(text) = 1 .. c
  BY <1>6, <1>9
<1>12. StripBanners(text) \in Seq(S)
  BY StrippedIsText
<1>13. QED BY <1>10, <1>11, <1>12

(* The first lines of the reply are those up to some place in the stream.  *)
LEMMA FirstAre ==
    ASSUME NEW m \in Nat, NEW g \in 0 .. m, NEW l \in Nat, NEW n \in 1 .. l,
           NEW p \in [g + 1 .. m -> 1 .. l],
           \A i, j \in g + 1 .. m : i < j => p[i] < p[j]
    PROVE  \E h \in g .. m : \A j \in g + 1 .. m : p[j] <= n <=> j <= h
<1> DEFINE D == { j \in g + 1 .. m : ~(p[j] <= n) }
<1>1. CASE D = {}
  <2>1. \A j \in g + 1 .. m : p[j] <= n /\ j <= m
    BY <1>1
  <2>2. QED BY SMTT(30), <2>1
<1>2. CASE D # {}
  <2>1. D \subseteq Nat
    OBVIOUS
  <2>2. \E d \in D : \A y \in D : ~(<<y, d>> \in OpToRel(<, Nat))
    BY <1>2, <2>1, NatLessThanWellFounded, WFMin
  <2>3. PICK d \in D : \A y \in D : ~(<<y, d>> \in OpToRel(<, Nat))
    BY <2>2
  <2>4. \A y \in D : <<y, d>> \in Nat \X Nat
    BY <2>1
  <2>5. \A y \in D : ~(y < d)
    BY <2>3, <2>4 DEF OpToRel
  <2>6. d \in g + 1 .. m /\ ~(p[d] <= n) /\ \A j \in g + 1 .. m : j < d => p[j] <= n
    BY <2>3, <2>5
  <2> HIDE DEF D
  <2>7. \A j \in g + 1 .. m : p[j] \in Nat
    OBVIOUS
  <2>8. ASSUME NEW j \in g + 1 .. m PROVE p[j] <= n <=> j <= d - 1
    <3>1. CASE j < d
      <4>1. j <= d - 1
        BY <2>6, <3>1
      <4>2. QED BY <2>6, <3>1, <4>1
    <3>2. CASE j = d
      <4>1. ~(j <= d - 1)
        BY <2>6, <3>2
      <4>2. QED BY <2>6, <3>2, <4>1
    <3>3. CASE d < j
      <4>1. ~(j <= d - 1) /\ p[d] < p[j]
        BY <2>6, <3>3
      <4>2. p[d] \in Nat /\ p[j] \in Nat /\ n \in Nat
        BY <2>6, <2>7
      <4>3. QED BY <2>6, <4>1, <4>2
    <3>4. QED BY <3>1, <3>2, <3>3, <2>6
  <2>9. d - 1 \in g .. m
    BY <2>6
  <2>10. QED BY <2>8, <2>9
<1>3. QED BY <1>1, <1>2

(* A chunk that does not end inside a banner is stripped to the next lines *)
(* of the reply, and what is left of the stream carries the others.        *)
LEMMA CarriesCut ==
    ASSUME ~SplitBanners, NEW t \in Tasks, inbound \in Seq(Line),
           NEW m \in 0 .. Len(OwnReply(t)), NEW g \in 0 .. m,
           Carries(inbound, OwnReply(t), g, m),
           NEW n \in 1 .. Len(inbound), CutAllowed(n)
    PROVE  \E h \in g .. m :
              /\ StripBanners(SubSeq(inbound, 1, n)) \in Seq(Line)
              /\ Len(StripBanners(SubSeq(inbound, 1, n))) = h - g
              /\ \A j \in 1 .. h - g :
                    StripBanners(SubSeq(inbound, 1, n))[j] = OwnReply(t)[g + j]
              /\ Carries(SubSeq(inbound, n + 1, Len(inbound)), OwnReply(t), h, m)
<1> DEFINE s == inbound
           chunk == SubSeq(s, 1, n)
           rest == SubSeq(s, n + 1, Len(s))
           reply == OwnReply(t)
<1>1. /\ Len(s) \in Nat /\ n \in 1 .. Len(s) /\ n \in 0 .. Len(s)
      /\ \A k \in 1 .. Len(s) : s[k] \in Line
      /\ m \in Nat /\ g \in Nat
  BY OwnReplyLines
<1>2. /\ chunk \in Seq(Line) /\ Len(chunk) = n
      /\ \A k \in 1 .. n : chunk[k] = s[k]
      /\ rest \in Seq(Line) /\ Len(rest) = Len(s) - n
      /\ \A k \in 1 .. Len(s) - n : rest[k] = s[n + k]
  BY <1>1, TwoParts
<1>3. PICK p : Places(s, reply, g, m, p)
  BY DEF Carries
<1>4. \A k \in 1 .. Len(reply) : reply[k].of = t /\ reply[k].kind # "welcome" /\ t # Nobody
  BY OwnReplyLines, SessionAssumption
<1>5. CutAllowed(n) <=> /\ \/ n = Len(s)
                           \/ \A i \in 1 .. n : s[i].kind # "welcome" \/ InBanner(chunk, i)
                        /\ n < Len(s) => s[n + 1].kind # "welcome"
  BY DEF CutAllowed, BannerUncut
<1>6. \A j \in g + 1 .. m : j \in 1 .. Len(reply) /\ p[j] \in 1 .. Len(s) /\ s[p[j]] = reply[j]
  BY <1>1, <1>3 DEF Places
<1> HIDE DEF s, chunk, rest, reply
\* Own lines are no lines of a banner.
<1>7. ASSUME NEW j \in g + 1 .. m PROVE s[p[j]].of # Nobody /\ s[p[j]].kind # "welcome"
  BY <1>4, <1>6
<1>8. ASSUME NEW k \in 1 .. Len(s)
      PROVE  (\E j \in g + 1 .. m : p[j] = k) \/ InBlock(s, k)
  BY <1>3 DEF Places
\* No banner is cut.
<1>9. ASSUME NEW i \in 1 .. Len(s) - 2, s[i] = Banner[1], s[i + 1] = Banner[2],
             s[i + 2] = Banner[3], i <= n
      PROVE  i + 2 <= n
  <2>1. CASE i = n
    <3>1. n < Len(s) /\ s[n + 1].kind = "welcome"
      BY <1>1, <1>9, <2>1, BannerLines
    <3>2. QED BY <1>5, <3>1
  <2>2. CASE i + 1 = n
    <3>1. n # Len(s) /\ n \in 1 .. n /\ s[n].kind = "welcome"
      BY <1>1, <1>9, <2>2, BannerLines
    <3>2. InBanner(chunk, n)
      BY <1>5, <3>1
    <3>3. \E j \in 1 .. n : chunk[j].kind = "rule" /\ n <= j
      BY <1>1, <1>2, <3>2 DEF InBanner
    <3>4. chunk[n].kind = "rule"
      BY <1>1, <3>3
    <3>5. QED BY <1>2, <3>1, <3>4
  <2>3. QED BY <1>1, <1>9, <2>1, <2>2
\* Those of the chunk that are stripped are the others.
<1>10. ASSUME NEW k \in 1 .. n, InBlock(s, k) PROVE InBanner(chunk, k)
  <2>1. PICK i \in 1 .. Len(s) - 2 :
           /\ i <= k /\ k <= i + 2
           /\ s[i] = Banner[1] /\ s[i + 1] = Banner[2] /\ s[i + 2] = Banner[3]
    BY <1>10 DEF InBlock
  <2>2. i + 2 <= n
    BY <1>1, <1>9, <2>1
  <2>3. i \in 1 .. n /\ i + 1 \in 1 .. n /\ i + 2 \in 1 .. n
    BY SMTT(30), <1>1, <2>1, <2>2
  <2>4. /\ chunk[i].kind = "rule" /\ chunk[i + 1].kind = "welcome"
        /\ chunk[i + 2].kind = "rule"
    BY <1>2, <2>1, <2>3, BannerLines
  <2>5. i \in 1 .. k /\ i < Len(chunk) /\ i + 2 \in i + 2 .. Len(chunk) /\ k <= i + 2
        /\ i + 2 .. i + 2 - 1 = {}
    BY SMTT(30), <1>1, <1>2, <2>1, <2>3
  <2>6. QED BY <2>4, <2>5 DEF InBanner
<1>11. ASSUME NEW k \in 1 .. n, InBanner(chunk, k), NEW j \in g + 1 .. m, p[j] = k
       PROVE  FALSE
  <2>1. PICK i \in 1 .. k :
           /\ i < Len(chunk) /\ chunk[i].kind = "rule" /\ chunk[i + 1].kind = "welcome"
           /\ \E e \in i + 2 .. Len(chunk) :
                 /\ chunk[e].kind = "rule" /\ k <= e
                 /\ \A x \in i + 2 .. e - 1 : chunk[x].kind # "rule"
    BY <1>11 DEF InBanner
  <2>2. PICK e \in i + 2 .. Len(chunk) :
           /\ chunk[e].kind = "rule" /\ k <= e
           /\ \A x \in i + 2 .. e - 1 : chunk[x].kind # "rule"
    BY <2>1
  <2>3. i + 1 \in 1 .. n /\ i + 1 \in 1 .. Len(s) /\ s[i + 1].kind = "welcome"
    BY <1>1, <1>2, <2>1
  <2>4. InBlock(s, i + 1)
    BY <1>7, <1>8, <2>3
  <2>5. PICK b \in 1 .. Len(s) - 2 :
           /\ b <= i + 1 /\ i + 1 <= b + 2
           /\ s[b] = Banner[1] /\ s[b + 1] = Banner[2] /\ s[b + 2] = Banner[3]
    BY <2>4 DEF InBlock
  <2>6. b = i
    <3>1. i + 1 # b /\ i + 1 # b + 2
      BY SMTT(30), <2>3, <2>5, BannerLines
    <3>2. QED BY <2>5, <3>1
  <2>7. i + 2 \in 1 .. n /\ chunk[i + 2].kind = "rule"
    <3>1. i + 2 \in 1 .. n
      BY <1>1, <1>2, <2>2
    <3>2. s[i + 2].kind = "rule"
      BY SMTT(30), <2>5, <2>6, BannerLines
    <3>3. QED BY <1>2, <3>1, <3>2
  <2>8. e = i + 2
    <3>1. ~(i + 2 \in i + 2 .. e - 1)
      BY <2>2, <2>7
    <3>2. e \in Int /\ i \in Int /\ i + 2 <= e
      BY <1>1, <1>2
    <3>3. QED BY <3>1, <3>2
  <2>9. k = i \/ k = i + 1 \/ k = i + 2
    BY <2>1, <2>2, <2>8
  <2>10. s[k].of = Nobody
    BY SMTT(30), <2>5, <2>6, <2>9, BannerLines
  <2>11. QED BY <1>7, <1>11, <2>10
<1>12. PICK h \in g .. m : \A j \in g + 1 .. m : p[j] <= n <=> j <= h
  <2>1. p \in [g + 1 .. m -> 1 .. Len(s)] /\ \A i, j \in g + 1 .. m : i < j => p[i] < p[j]
    BY <1>3 DEF Places
  <2>2. QED BY <1>1, <2>1, FirstAre
<1> DEFINE q == [j \in 1 .. h - g |-> p[g + j]]
<1>13. \A j \in 1 .. h - g : g + j \in g + 1 .. m /\ g + j <= h /\ q[j] = p[g + j]
  BY <1>1
<1>14. h - g \in Nat /\ q \in [1 .. h - g -> 1 .. n]
  <2>1. \A j \in 1 .. h - g : p[g + j] \in 1 .. n
    BY <1>1, <1>6, <1>12, <1>13
  <2>2. h - g \in Nat
    BY <1>1
  <2>3. QED BY <2>1, <2>2
<1>15. \A i, j \in 1 .. h - g : i < j => q[i] < q[j]
  <2>1. ASSUME NEW i \in 1 .. h - g, NEW j \in 1 .. h - g, i < j PROVE q[i] < q[j]
    <3>1. g + i \in g + 1 .. m /\ g + j \in g + 1 .. m /\ g + i < g + j
      BY <1>1, <1>13, <2>1
    <3>2. QED BY <1>3, <1>13, <3>1 DEF Places
  <2>2. QED BY <2>1
<1> HIDE DEF q
<1>16. ASSUME NEW k \in 1 .. n PROVE ~InBanner(chunk, k) <=> \E j \in 1 .. h - g : q[j] = k
  <2>1. ASSUME ~InBanner(chunk, k) PROVE \E j \in 1 .. h - g : q[j] = k
    <3>1. k \in 1 .. Len(s)
      BY <1>1
    <3>2. PICK j \in g + 1 .. m : p[j] = k
      BY <1>8, <1>10, <2>1, <3>1
    <3>3. j <= h
      BY <1>1, <1>12, <3>2
    <3>4. j - g \in 1 .. h - g /\ g + (j - g) = j
      BY <1>1, <3>3
    <3>5. QED BY <1>13, <3>2, <3>4
  <2>2. ASSUME NEW j \in 1 .. h - g, q[j] = k PROVE ~InBanner(chunk, k)
    BY <1>11, <1>13, <2>2
  <2>3. QED BY <2>1, <2>2
<1>17. /\ StripBanners(chunk) \in Seq(Line)
       /\ Len(StripBanners(chunk)) = h - g
       /\ \A j \in 1 .. h - g : StripBanners(chunk)[j] = chunk[q[j]]
  <2>1. /\ q \in [1 .. h - g -> 1 .. Len(chunk)]
        /\ \A k \in 1 .. Len(chunk) :
              ~InBanner(chunk, k) <=> \E j \in 1 .. h - g : q[j] = k
    BY <1>2, <1>14, <1>16
  <2>2. chunk \in Seq(Line) /\ h - g \in Nat
    BY <1>2, <1>14
  <2>3. QED BY ZenonT(30), <1>15, <2>1, <2>2, StrippedPicks
<1>18. \A j \in 1 .. h - g : StripBanners(chunk)[j] = reply[g + j]
  <2>1. ASSUME NEW j \in 1 .. h - g PROVE chunk[q[j]] = reply[g + j]
    <3>1. q[j] \in 1 .. n /\ g + j \in g + 1 .. m /\ q[j] = p[g + j]
      BY <1>13, <1>14
    <3>2. chunk[q[j]] = s[p[g + j]]
      BY <1>2, <3>1
    <3>3. QED BY <1>6, <3>1, <3>2
  <2>2. QED BY <1>17, <2>1
<1> DEFINE r == [j \in h + 1 .. m |-> p[j] - n]
<1>19. ASSUME NEW j \in h + 1 .. m
       PROVE  /\ j \in g + 1 .. m /\ p[j] \in n + 1 .. Len(s)
              /\ r[j] = p[j] - n /\ r[j] \in 1 .. Len(rest) /\ n + r[j] = p[j]
  <2>1. j \in g + 1 .. m /\ ~(j <= h)
    BY <1>1
  <2>2. p[j] \in 1 .. Len(s) /\ ~(p[j] <= n)
    BY <1>6, <1>12, <2>1
  <2>3. p[j] \in n + 1 .. Len(s) /\ p[j] - n \in 1 .. Len(s) - n /\ n + (p[j] - n) = p[j]
    BY SMTT(30), <1>1, <2>2
  <2>4. QED BY <1>2, <2>1, <2>3
<1>20. r \in [h + 1 .. m -> 1 .. Len(rest)]
  BY <1>19
<1> HIDE DEF r
<1>21. \A j \in h + 1 .. m : rest[r[j]] = reply[j]
  <2>1. ASSUME NEW j \in h + 1 .. m PROVE rest[r[j]] = reply[j]
    <3>1. r[j] \in 1 .. Len(s) - n /\ n + r[j] = p[j]
      BY <1>2, <1>19
    <3>2. rest[r[j]] = s[p[j]]
      BY <1>2, <3>1
    <3>3. QED BY <1>6, <1>19, <3>2
  <2>2. QED BY <2>1
<1>22. \A i, j \in h + 1 .. m : i < j => r[i] < r[j]
  <2>1. ASSUME NEW i \in h + 1 .. m, NEW j \in h + 1 .. m, i < j PROVE r[i] < r[j]
    <3>1. p[i] < p[j]
      BY <1>3, <1>19, <2>1 DEF Places
    <3>2. r[i] = p[i] - n /\ r[j] = p[j] - n /\ p[i] \in Int /\ p[j] \in Int /\ n \in Int
      BY <1>1, <1>19
    <3>3. QED BY <3>1, <3>2
  <2>2. QED BY <2>1
<1>23. ASSUME NEW k \in 1 .. Len(rest)
       PROVE  (\E j \in h + 1 .. m : r[j] = k) \/ InBlock(rest, k)
  <2>1. n + k \in 1 .. Len(s) /\ k \in Nat /\ 1 <= k /\ Len(rest) = Len(s) - n
    BY <1>1, <1>2
  <2>2. ASSUME NEW j \in g + 1 .. m, p[j] = n + k PROVE \E i \in h + 1 .. m : r[i] = k
    <3>1. ~(p[j] <= n)
      BY <1>1, <2>1, <2>2
    <3>2. ~(j <= h)
      BY <1>12, <3>1
    <3>3. j \in h + 1 .. m
      BY <1>1, <3>2
    <3>4. r[j] = n + k - n
      BY <1>19, <2>2, <3>3
    <3>5. r[j] = k
      BY <1>1, <2>1, <3>4
    <3>6. QED BY <3>3, <3>5
  <2>3. ASSUME InBlock(s, n + k) PROVE InBlock(rest, k)
    <3>1. PICK i \in 1 .. Len(s) - 2 :
             /\ i <= n + k /\ n + k <= i + 2
             /\ s[i] = Banner[1] /\ s[i + 1] = Banner[2] /\ s[i + 2] = Banner[3]
      BY <2>3 DEF InBlock
    <3>2. ~(i <= n)
      <4>1. i <= n => i + 2 <= n
        BY <1>9, <3>1
      <4>2. n \in Nat /\ i \in Nat
        BY <1>1
      <4>3. QED BY SMTT(30), <2>1, <3>1, <4>1, <4>2
    <3>3. /\ i - n \in 1 .. Len(rest) - 2 /\ i - n <= k /\ k <= i - n + 2
          /\ i - n \in 1 .. Len(s) - n /\ i - n + 1 \in 1 .. Len(s) - n
          /\ i - n + 2 \in 1 .. Len(s) - n
          /\ n + (i - n) = i /\ n + (i - n + 1) = i + 1 /\ n + (i - n + 2) = i + 2
      BY <1>1, <2>1, <3>1, <3>2
    <3>4. /\ rest[i - n] = s[i] /\ rest[i - n + 1] = s[i + 1]
          /\ rest[i - n + 2] = s[i + 2]
      BY <1>2, <3>3
    <3>5. QED BY <3>1, <3>3, <3>4 DEF InBlock
  <2>4. QED BY <1>8, <2>1, <2>2, <2>3
<1>24. Places(rest, reply, h, m, r)
  BY <1>20, <1>21, <1>22, <1>23 DEF Places
<1>25. Carries(rest, reply, h, m)
  BY <1>24 DEF Carries
<1>26. QED BY <1>17, <1>18, <1>25 DEF s, chunk, rest, reply

-----------------------------------------------------------------------------
\* Calls and their replies, when no chunk ends inside a banner and what comes of
\* an abandoned call comes before the next command is written.

\* While t reads: got has the first g lines of its reply, the stream those up to
\* m, and the matrix the rest, unless the link is gone.
ExchangeAt(t, g, m) ==
    /\ got[t] = SubSeq(OwnReply(t), 1, g)
    /\ \/ m = 0 /\ inbox = <<CommandOf(t)>> /\ replying = <<>>
       \/ inbox = <<>> /\ replying = SubSeq(OwnReply(t), m + 1, Len(OwnReply(t)))
       \/ inbox = <<>> /\ replying = <<>> /\ socket # "open"
    /\ Carries(inbound, OwnReply(t), g, m)
Exchange(t) ==
    \E m \in 0 .. Len(OwnReply(t)) : \E g \in 0 .. m : ExchangeAt(t, g, m)

\* Nothing on the way belongs to a call that is not over.
Unowned ==
    /\ \A k \in DOMAIN inbound : inbound[k].of = Nobody
    /\ \A k \in DOMAIN replying : replying[k].of = Nobody
    /\ \A k \in DOMAIN inbox : inbox[k].of = Nobody

NobodyReads == \A t \in Tasks : pc[t] # "reading"

\* Nothing goes on its way on a dead stream.
DeadStream == socket # "open" => inbox = <<>> /\ replying = <<>>
OpenCalls == \A t \in Tasks : pc[t] # "idle" => outcome[t] = "none"
FreshBuffer == \A t \in Tasks : OnTheWire(t) => buffer = <<>>
Exchanges ==
    /\ NobodyReads => Unowned
    /\ \A t \in Tasks : pc[t] = "reading" => Exchange(t)

CallInv ==
    /\ ReaderInv /\ SessionInv
    /\ DeadStream /\ OpenCalls /\ FreshBuffer /\ Exchanges
    /\ RepliesAreClean

(* A read ends with the last line of the reply and no earlier.             *)
LEMMA EndsWithReply ==
    ASSUME NEW t \in Tasks, NEW h \in 0 .. Len(OwnReply(t)), NEW g \in 0 .. h,
           NEW text \in Seq(Line), Len(text) = h - g,
           \A j \in 1 .. h - g : text[j] = OwnReply(t)[g + j],
           got[t] = SubSeq(OwnReply(t), 1, g)
    PROVE  /\ got[t] \o text = SubSeq(OwnReply(t), 1, h)
           /\ EndsAt(t, text) = IF g < h /\ h = Len(OwnReply(t)) THEN {h - g} ELSE {}
<1> DEFINE reply == OwnReply(t)
<1>1. /\ reply \in Seq(Line) /\ Len(reply) = IF t = Poller THEN 2 ELSE 1
      /\ \A k \in 1 .. Len(reply) :
            reply[k].kind = IF t # Poller THEN "marker"
                            ELSE IF k = 1 THEN "header" ELSE "rule"
  BY OwnReplyLines
<1> HIDE DEF reply
<1>2. /\ h \in Nat /\ g \in Nat /\ g <= h /\ h <= Len(reply) /\ Len(reply) \in {1, 2}
      /\ h - g \in Nat /\ g \in 0 .. Len(reply) /\ h \in 0 .. Len(reply)
  BY <1>1 DEF reply
<1>3. /\ got[t] \in Seq(Line) /\ Len(got[t]) = g
      /\ \A k \in 1 .. g : got[t][k] = reply[k]
  BY <1>1, <1>2, TwoParts DEF reply
<1>4. ASSUME NEW x \in Seq(Line), NEW c \in 0 .. h - g, Len(x) = c,
             \A j \in 1 .. c : x[j] = reply[g + j]
      PROVE  /\ got[t] \o x \in Seq(Line) /\ Len(got[t] \o x) = g + c
             /\ \A k \in 1 .. g + c : (got[t] \o x)[k] = reply[k]
  <2> DEFINE both == got[t] \o x
  <2>1. /\ both \in Seq(Line) /\ Len(both) = Len(got[t]) + Len(x)
        /\ \A k \in 1 .. Len(got[t]) + Len(x) :
              both[k] = IF k <= Len(got[t]) THEN got[t][k] ELSE x[k - Len(got[t])]
    BY <1>3, ConcatProperties
  <2> HIDE DEF both
  <2>2. \A k \in 1 .. g + c : both[k] = IF k <= g THEN got[t][k] ELSE x[k - g]
    BY <1>3, <1>4, <2>1
  <2>3. ASSUME NEW k \in 1 .. g + c PROVE both[k] = reply[k]
    <3>1. CASE k <= g
      <4>1. k \in 1 .. g
        BY <1>2, <3>1
      <4>2. QED BY <1>3, <2>2, <3>1, <4>1
    <3>2. CASE ~(k <= g)
      <4>1. k - g \in 1 .. c /\ g + (k - g) = k
        BY <1>2, <3>2
      <4>2. QED BY <1>4, <2>2, <3>2, <4>1
    <3>3. QED BY <3>1, <3>2
  <2>4. QED BY <1>3, <1>4, <2>1, <2>3 DEF both
<1>5. got[t] \o text = SubSeq(reply, 1, h)
  <2>1. h - g \in 0 .. h - g /\ g + (h - g) = h
    BY <1>2
  <2>2. /\ got[t] \o text \in Seq(Line) /\ Len(got[t] \o text) = h
        /\ \A k \in 1 .. h : (got[t] \o text)[k] = reply[k]
    <3>1. \A j \in 1 .. h - g : text[j] = reply[g + j]
      BY DEF reply
    <3>2. /\ got[t] \o text \in Seq(Line) /\ Len(got[t] \o text) = g + (h - g)
          /\ \A k \in 1 .. g + (h - g) : (got[t] \o text)[k] = reply[k]
      BY <1>4, <2>1, <3>1
    <3>3. QED BY <2>1, <3>2
  <2>3. /\ SubSeq(reply, 1, h) \in Seq(Line) /\ Len(SubSeq(reply, 1, h)) = h
        /\ \A k \in 1 .. h : SubSeq(reply, 1, h)[k] = reply[k]
    BY <1>1, <1>2, TwoParts
  <2>4. QED BY <2>2, <2>3, SeqEqual
<1>6. ASSUME NEW k \in 1 .. h - g
      PROVE  Terminates(t, got[t] \o SubSeq(text, 1, k - 1), text[k]) <=> g + k = Len(reply)
  <2> DEFINE before == got[t] \o SubSeq(text, 1, k - 1)
  <2>1. k - 1 \in 0 .. h - g /\ k - 1 \in 0 .. Len(text) /\ g + (k - 1) = g + k - 1
        /\ \A j \in 1 .. k - 1 : j \in 1 .. h - g
    BY <1>2
  <2>2. /\ SubSeq(text, 1, k - 1) \in Seq(Line) /\ Len(SubSeq(text, 1, k - 1)) = k - 1
        /\ \A j \in 1 .. k - 1 : SubSeq(text, 1, k - 1)[j] = text[j]
    BY <2>1, TwoParts
  <2>3. \A j \in 1 .. k - 1 : SubSeq(text, 1, k - 1)[j] = reply[g + j]
    BY <2>1, <2>2 DEF reply
  <2>4. /\ before \in Seq(Line) /\ Len(before) = g + (k - 1)
        /\ \A j \in 1 .. g + (k - 1) : before[j] = reply[j]
    BY <1>4, <2>1, <2>2, <2>3
  <2> HIDE DEF before
  <2>5. /\ text[k] = reply[g + k] /\ g + k \in 1 .. Len(reply)
        /\ DOMAIN before = 1 .. g + k - 1
        /\ \A j \in 1 .. g + k - 1 : before[j] = reply[j] /\ j \in 1 .. Len(reply)
    <3>1. text[k] = reply[g + k]
      BY DEF reply
    <3>2. g + k \in 1 .. Len(reply) /\ \A j \in 1 .. g + k - 1 : j \in 1 .. Len(reply)
      BY <1>2
    <3>3. DOMAIN before = 1 .. g + k - 1
      BY <2>1, <2>4
    <3>4. \A j \in 1 .. g + k - 1 : before[j] = reply[j]
      BY <2>1, <2>4
    <3>5. QED BY <3>1, <3>2, <3>3, <3>4
  <2>6. CASE t # Poller
    <3>0. Len(reply) = 1 /\ \A j \in 1 .. Len(reply) : reply[j].kind = "marker"
      BY <1>1, <2>6
    <3>1. text[k].kind = "marker" /\ g + k = Len(reply)
      BY <1>2, <2>5, <3>0
    <3>2. QED BY <2>6, <3>1 DEF Terminates
  <2>7. CASE t = Poller /\ g + k = 1
    <3>1. text[k].kind = "header" /\ Len(reply) = 2
      BY <1>1, <2>5, <2>7
    <3>2. QED BY <2>7, <3>1 DEF Terminates
  <2>8. CASE t = Poller /\ g + k = 2
    <3>1. text[k].kind = "rule" /\ Len(reply) = 2 /\ 1 \in 1 .. g + k - 1
      BY <1>1, <2>5, <2>8
    <3>2. 1 \in DOMAIN before /\ before[1].kind = "header"
      BY <1>1, <2>5, <2>8, <3>1
    <3>3. Terminates(t, before, text[k])
      BY <2>8, <3>1, <3>2 DEF Terminates
    <3>4. QED BY <2>8, <3>1, <3>3 DEF before
  <2>9. g + k = 1 \/ g + k = 2
    BY <1>1, <2>5
  <2>10. QED BY <2>6, <2>7, <2>8, <2>9
<1>7. EndsAt(t, text) = { k \in 1 .. h - g : g + k = Len(reply) }
  <2>1. DOMAIN text = 1 .. h - g
    OBVIOUS
  <2>2. QED BY <1>6, <2>1 DEF EndsAt
<1>8. EndsAt(t, text) = IF g < h /\ h = Len(reply) THEN {h - g} ELSE {}
  <2>1. CASE g < h /\ h = Len(reply)
    <3>1. \A k \in 1 .. h - g : g + k = Len(reply) <=> k = h - g
      BY <1>2, <2>1
    <3>2. h - g \in 1 .. h - g
      BY <1>2, <2>1
    <3>3. QED BY <1>7, <2>1, <3>1, <3>2
  <2>2. CASE ~(g < h /\ h = Len(reply))
    <3>1. \A k \in 1 .. h - g : g + k # Len(reply)
      BY <1>2, <2>2
    <3>2. QED BY <1>7, <2>2, <3>1
  <2>3. QED BY <2>1, <2>2
<1>9. QED BY <1>5, <1>8 DEF reply

(* Only who holds the lock reads.                                          *)
LEMMA OnlyHolderReads ==
    ASSUME ReaderInv, NEW t \in Tasks, OnTheWire(t)
    PROVE  lock = t /\ \A u \in Tasks : pc[u] = "reading" => u = t
BY DEF ReaderInv, HolderInv, OnTheWire

(* One that strays, or drains, keeps the others from it, and nothing that  *)
(* is on the way belongs to a call.                                        *)
LEMMA NothingAwaited ==
    ASSUME CallInv, NEW t \in Tasks, pc[t] \in {"draining", "straying"}
    PROVE  NobodyReads /\ Unowned
<1>1. \A u \in Tasks : pc[u] = "reading" => u = t
  BY OnlyHolderReads DEF CallInv, OnTheWire
<1>2. QED BY <1>1 DEF NobodyReads, CallInv, Exchanges

(* Whose everything is while t reads, and how far its call has come.       *)
LEMMA ExchangeOwners ==
    ASSUME SessionTypeOK, NEW t \in Tasks, NEW m \in 0 .. Len(OwnReply(t)),
           NEW g \in 0 .. m, ExchangeAt(t, g, m)
    PROVE  /\ \A k \in 1 .. Len(inbound) : inbound[k].of \in {t, Nobody}
           /\ \A k \in 1 .. Len(replying) : replying[k].of = t
           /\ \A k \in 1 .. Len(inbox) : inbox[k].of = t
           /\ OwnIn(t, inbox) <=> inbox # <<>>
           /\ OwnIn(t, replying) <=> replying # <<>>
           /\ OwnIn(t, inbound) <=> g < m
           /\ OwnIn(t, got[t]) <=> 0 < g
           /\ ~OwnIn(Nobody, inbox)
<1>1. /\ OwnReply(t) \in Seq(Line) /\ Len(OwnReply(t)) \in Nat
      /\ \A k \in 1 .. Len(OwnReply(t)) : OwnReply(t)[k].of = t
  BY OwnReplyLines
<1>2. m \in Nat /\ g \in Nat /\ m <= Len(OwnReply(t)) /\ g \in 0 .. Len(OwnReply(t))
  BY <1>1
<1>3. inbound \in Seq(Line) /\ replying \in Seq(Line) /\ t # Nobody
  BY SessionAssumption DEF SessionTypeOK
<1>4. /\ \A k \in 1 .. Len(inbound) : inbound[k].of \in {t, Nobody}
      /\ OwnIn(t, inbound) <=> g < m
  BY <1>2, <1>3, CarriesOwners DEF ExchangeAt
<1>5. inbox = <<>> \/ (Len(inbox) = 1 /\ inbox[1].of = t /\ inbox # <<>>)
  BY DEF ExchangeAt, CommandOf
<1>6. /\ \A k \in 1 .. Len(inbox) : inbox[k].of = t
      /\ DOMAIN inbox = 1 .. Len(inbox)
      /\ inbox # <<>> <=> 1 \in 1 .. Len(inbox)
  BY <1>5 DEF SessionTypeOK
<1>7. /\ \A k \in 1 .. Len(replying) : replying[k].of = t
      /\ DOMAIN replying = 1 .. Len(replying)
      /\ replying # <<>> <=> 1 \in 1 .. Len(replying)
  <2>1. CASE replying = <<>>
    BY <2>1
  <2>2. CASE replying = SubSeq(OwnReply(t), m + 1, Len(OwnReply(t)))
    <3>1. /\ Len(replying) = Len(OwnReply(t)) - m
          /\ \A k \in 1 .. Len(OwnReply(t)) - m : replying[k] = OwnReply(t)[m + k]
      BY <1>1, <2>2, TwoParts
    <3>2. \A k \in 1 .. Len(OwnReply(t)) - m : m + k \in 1 .. Len(OwnReply(t))
      BY <1>1, <1>2
    <3>3. \A k \in 1 .. Len(replying) : replying[k].of = t
      BY <1>1, <3>1, <3>2
    <3>4. QED BY <1>3, <3>3
  <2>3. QED BY <2>1, <2>2 DEF ExchangeAt
<1>8. OwnIn(t, got[t]) <=> 0 < g
  <2>1. /\ Len(got[t]) = g /\ got[t] \in Seq(Line)
        /\ \A k \in 1 .. g : got[t][k] = OwnReply(t)[k]
    BY <1>1, <1>2, TwoParts DEF ExchangeAt
  <2>2. \A k \in 1 .. g : got[t][k].of = t
    BY <1>1, <1>2, <2>1
  <2>3. DOMAIN got[t] = 1 .. g
    BY <2>1
  <2>4. (0 < g => 1 \in 1 .. g) /\ ((\E k \in 1 .. g : TRUE) => 0 < g)
    BY <1>2
  <2>5. QED BY <2>2, <2>3, <2>4 DEF OwnIn
<1>9. QED BY <1>3, <1>4, <1>6, <1>7, <1>8 DEF OwnIn

(* A call that is given up leaves nothing that is its own.                 *)
LEMMA GivenUp ==
    ASSUME SessionTypeOK, NEW t \in Tasks, Exchange(t) \/ Unowned, GiveUp(t)
    PROVE  Unowned'
<1>1. inbound \in Seq(Line) /\ replying \in Seq(Line) /\ inbox \in Seq(Command)
  BY DEF SessionTypeOK, Command
<1> DEFINE ItsOwn ==
             /\ \A k \in 1 .. Len(inbound) : inbound[k].of \in {t, Nobody}
             /\ \A k \in 1 .. Len(replying) : replying[k].of \in {t, Nobody}
             /\ \A k \in 1 .. Len(inbox) : inbox[k].of \in {t, Nobody}
<1>2. ASSUME Exchange(t) PROVE ItsOwn
  <2>1. PICK m \in 0 .. Len(OwnReply(t)) : \E g \in 0 .. m : ExchangeAt(t, g, m)
    BY <1>2 DEF Exchange
  <2>2. PICK g \in 0 .. m : ExchangeAt(t, g, m)
    BY <2>1
  <2>3. QED BY <2>2, ExchangeOwners
<1>3. ASSUME Unowned PROVE ItsOwn
  BY <1>1, <1>3 DEF Unowned
<1>4. ItsOwn
  BY <1>2, <1>3
<1>5. /\ inbound' \in Seq(Line) /\ Len(inbound') = Len(inbound)
      /\ \A k \in 1 .. Len(inbound) : inbound'[k].of = Nobody
  BY SMTT(30), <1>1, <1>4, DisownedLines DEF GiveUp
<1>6. /\ replying' \in Seq(Line) /\ Len(replying') = Len(replying)
      /\ \A k \in 1 .. Len(replying) : replying'[k].of = Nobody
  BY SMTT(30), <1>1, <1>4, DisownedLines DEF GiveUp
<1>7. /\ inbox' \in Seq(Command) /\ Len(inbox') = Len(inbox)
      /\ \A k \in 1 .. Len(inbox) : inbox'[k].of = Nobody
  BY SMTT(30), <1>1, <1>4, DisownedCommands DEF GiveUp
<1>8. QED BY <1>5, <1>6, <1>7 DEF Unowned

(* One that strays reads what is nobody's, and ends as cancelled.          *)
LEMMA ReadsAnyReply ==
    ASSUME CallInv, NEW t \in Tasks, NEW n \in 1 .. Len(inbound),
           pc[t] = "straying", ReadChunk(t, n)
    PROVE  /\ UNCHANGED <<pc, outcome>> \/ Ends(t, "cancelled")
           /\ UNCHANGED inbox /\ got' = [got EXCEPT ![t] = got'[t]]
           /\ Unowned'
<1>1. /\ inbound' = SubSeq(inbound, n + 1, Len(inbound))
      /\ UNCHANGED <<inbox, replying>>
      /\ UNCHANGED <<pc, outcome>> \/ Ends(t, "cancelled")
      /\ \E s : got' = [got EXCEPT ![t] = s]
  BY Zenon DEF ReadChunk
<1>2. Unowned
  BY NothingAwaited
<1>3. inbound \in Seq(Line) /\ got \in [Tasks -> Seq(Line)]
  BY DEF CallInv, SessionInv, SessionTypeOK
<1>4. n \in 0 .. Len(inbound)
  OBVIOUS
<1>5. /\ inbound' \in Seq(Line) /\ Len(inbound') = Len(inbound) - n
      /\ \A k \in 1 .. Len(inbound) - n : inbound'[k] = inbound[n + k]
  BY <1>1, <1>3, <1>4, TwoParts
<1>6. \A k \in DOMAIN inbound' : n + k \in DOMAIN inbound /\ inbound'[k] = inbound[n + k]
  BY <1>3, <1>5
<1>7. Unowned'
  BY <1>1, <1>2, <1>6 DEF Unowned
<1>8. QED BY <1>1, <1>3, <1>7

(* A chunk adds the next lines of the reply to what t has got; with the    *)
(* last of them the call returns the whole reply.                          *)
LEMMA ReadsItsReply ==
    ASSUME ~SplitBanners, CallInv, NEW t \in Tasks, NEW n \in 1 .. Len(inbound),
           pc[t] = "reading", ReadChunk(t, n)
    PROVE  \E m \in 0 .. Len(OwnReply(t)) : \E g \in 0 .. m :
              /\ ExchangeAt(t, g, m)
              /\ \/ /\ \E h \in g .. m : ExchangeAt(t, h, m)'
                    /\ got' = [got EXCEPT ![t] = got'[t]]
                    /\ UNCHANGED <<lock, waiters, pc, outcome, entry>>
                    /\ buffer' = <<>>
                 \/ /\ g < m /\ m = Len(OwnReply(t))
                    /\ inbox = <<>>
                    /\ got' = [got EXCEPT ![t] = OwnReply(t)]
                    /\ Ends(t, "ok")
                    /\ Unowned'
<1>1. pc[t] = "reading" /\ CutAllowed(n) /\ UNCHANGED <<socket, inbox, replying>>
  BY DEF ReadChunk
<1>2. PICK m \in 0 .. Len(OwnReply(t)) : \E g \in 0 .. m : ExchangeAt(t, g, m)
  BY <1>1 DEF CallInv, Exchanges, Exchange
<1>3. PICK g \in 0 .. m : ExchangeAt(t, g, m)
  BY <1>2
<1>4. /\ inbound \in Seq(Line) /\ got \in [Tasks -> Seq(Line)] /\ buffer = <<>>
      /\ replying \in Seq(Line)
  BY <1>1 DEF CallInv, SessionInv, SessionTypeOK, FreshBuffer, OnTheWire
<1>5. got[t] = SubSeq(OwnReply(t), 1, g) /\ Carries(inbound, OwnReply(t), g, m)
  BY <1>3 DEF ExchangeAt
<1> DEFINE text == StripBanners(SubSeq(inbound, 1, n))
<1>6. PICK h \in g .. m :
         /\ text \in Seq(Line) /\ Len(text) = h - g
         /\ \A j \in 1 .. h - g : text[j] = OwnReply(t)[g + j]
         /\ Carries(SubSeq(inbound, n + 1, Len(inbound)), OwnReply(t), h, m)
  BY <1>1, <1>4, <1>5, CarriesCut
<1>7. StripBanners(buffer \o SubSeq(inbound, 1, n)) = text
  <2>1. n \in 0 .. Len(inbound)
    OBVIOUS
  <2>2. SubSeq(inbound, 1, n) \in Seq(Line)
    BY <1>4, <2>1, TwoParts
  <2>3. <<>> \o SubSeq(inbound, 1, n) = SubSeq(inbound, 1, n)
    BY <2>2, ConcatEmptySeq
  <2>4. QED BY <1>4, <2>3
<1>8. /\ inbound' = SubSeq(inbound, n + 1, Len(inbound))
      /\ \/ /\ EndsAt(t, text) = {}
            /\ got' = [got EXCEPT ![t] = @ \o text]
            /\ buffer' = <<>>
            /\ UNCHANGED <<lock, waiters, pc, outcome, entry>>
         \/ \E k \in EndsAt(t, text) :
               /\ got' = [got EXCEPT ![t] = @ \o SubSeq(text, 1, k)]
               /\ Ends(t, "ok")
  BY <1>7 DEF ReadChunk
<1> HIDE DEF text
<1>9. /\ Len(OwnReply(t)) \in Nat /\ OwnReply(t) \in Seq(Line)
      /\ m \in Nat /\ g \in Nat /\ h \in Nat /\ g <= h /\ h <= m
      /\ h \in 0 .. Len(OwnReply(t)) /\ g \in 0 .. h /\ h \in 0 .. m
  BY OwnReplyLines
<1>10. /\ got[t] \o text = SubSeq(OwnReply(t), 1, h)
       /\ EndsAt(t, text) = IF g < h /\ h = Len(OwnReply(t)) THEN {h - g} ELSE {}
  BY <1>5, <1>6, <1>9, EndsWithReply
<1>11. CASE ~(g < h /\ h = Len(OwnReply(t)))
  <2>1. EndsAt(t, text) = {}
    BY <1>10, <1>11
  <2>2. /\ got' = [got EXCEPT ![t] = @ \o text] /\ buffer' = <<>>
        /\ UNCHANGED <<lock, waiters, pc, outcome, entry>>
    BY <1>8, <2>1
  <2>3. got'[t] = SubSeq(OwnReply(t), 1, h) /\ got' = [got EXCEPT ![t] = got'[t]]
    BY <1>4, <1>10, <2>2
  <2>4. ExchangeAt(t, h, m)'
    <3>1. \/ m = 0 /\ inbox' = <<CommandOf(t)>> /\ replying' = <<>>
          \/ inbox' = <<>> /\ replying' = SubSeq(OwnReply(t), m + 1, Len(OwnReply(t)))
          \/ inbox' = <<>> /\ replying' = <<>> /\ socket' # "open"
      BY <1>1, <1>3 DEF ExchangeAt
    <3>2. Carries(inbound', OwnReply(t), h, m)
      BY <1>6, <1>8
    <3>3. QED BY <2>3, <3>1, <3>2 DEF ExchangeAt
  <2>5. QED BY <1>3, <2>2, <2>3, <2>4
<1>12. CASE g < h /\ h = Len(OwnReply(t))
  <2>1. m = h /\ g < m /\ m = Len(OwnReply(t))
    BY <1>9, <1>12
  <2>2. EndsAt(t, text) = {h - g}
    BY <1>10, <1>12
  <2>3. Ends(t, "ok") /\ got' = [got EXCEPT ![t] = @ \o SubSeq(text, 1, h - g)]
    BY <1>8, <2>2
  <2>4. got[t] \o SubSeq(text, 1, h - g) = OwnReply(t)
    <3>1. SubSeq(text, 1, h - g) = text
      BY <1>6, SubSeqFull
    <3>2. SubSeq(OwnReply(t), 1, h) = OwnReply(t)
      BY <1>9, <1>12, SubSeqFull
    <3>3. QED BY <1>10, <3>1, <3>2
  <2>5. got' = [got EXCEPT ![t] = OwnReply(t)]
    BY <2>3, <2>4
  <2>6. inbox = <<>> /\ replying = <<>>
    <3>1. SubSeq(OwnReply(t), m + 1, Len(OwnReply(t))) = <<>>
      BY <1>9, <2>1, SubSeqEmpty
    <3>2. m # 0
      BY <1>9, <2>1
    <3>3. QED BY <1>3, <3>1, <3>2 DEF ExchangeAt
  <2>7. Unowned'
    <3>1. inbound' \in Seq(Line) /\ Carries(inbound', OwnReply(t), m, m)
      <4>1. n \in 0 .. Len(inbound)
        OBVIOUS
      <4>2. inbound' \in Seq(Line)
        BY <1>4, <1>8, <4>1, TwoParts
      <4>3. QED BY <1>6, <1>8, <2>1, <4>2
    <3>2. m \in 0 .. m /\ m <= Len(OwnReply(t))
      BY <1>9
    <3>3. /\ \A k \in 1 .. Len(inbound') : inbound'[k].of \in {t, Nobody}
          /\ OwnIn(t, inbound') <=> m < m
      BY <1>9, <3>1, <3>2, CarriesOwners
    <3>4. \A k \in DOMAIN inbound' : inbound'[k].of = Nobody
      BY <1>9, <3>1, <3>3 DEF OwnIn
    <3>5. inbox' = <<>> /\ replying' = <<>>
      BY <1>1, <2>6
    <3>6. QED BY <3>4, <3>5 DEF Unowned
  <2>8. QED BY <1>3, <2>1, <2>3, <2>5, <2>6, <2>7
<1>13. QED BY <1>11, <1>12

(* A stream that dies takes with it what is on the way.                    *)
LEMMA DeadStreamStep ==
    ASSUME SessionTypeOK, DeadStream, [SessionNext]_sessionVars
    PROVE  DeadStream'
<1> USE DEF DeadStream
<1>0. inbox \in Seq(Command) /\ replying \in Seq(Line) /\ Users \subseteq Tasks
  BY DEF SessionTypeOK, Command, Tasks
<1>1. ASSUME UNCHANGED socket \/ socket' = "open",
             inbox' = inbox \/ inbox' = <<>>, replying' = replying \/ replying' = <<>>
      PROVE  DeadStream'
  BY <1>1
<1>2. ASSUME NEW t \in Tasks, GiveUp(t), UNCHANGED socket PROVE DeadStream'
  <2>1. Len(inbox') = Len(inbox) /\ Len(replying') = Len(replying)
        /\ inbox' \in Seq(Command) /\ replying' \in Seq(Line)
    BY <1>0, <1>2, DisownedCommands, DisownedLines DEF GiveUp
  <2>2. (inbox = <<>> => inbox' = <<>>) /\ (replying = <<>> => replying' = <<>>)
    BY <1>0, <2>1
  <2>3. QED BY <1>2, <2>1, <2>2
<1>3. ASSUME NEW t \in Tasks, NEW c, NEW then, Writes(t, c, then),
             UNCHANGED <<socket, replying>>
      PROVE  DeadStream'
  BY <1>3 DEF Writes
<1>4. CASE inbox' = <<>> /\ replying' = <<>>
  BY <1>4
<1>5. CASE MatrixTakes \/ MatrixSends
  BY <1>0, <1>5 DEF MatrixTakes, MatrixSends
<1>6. CASE PollStarts \/ (\E t \in Users : CommandStarts(t)) \/ Refused \/ DiscardEnds
           \/ (\E n \in 1 .. Len(inbound) : DiscardReads(n))
           \/ UnloadEnds \/ Broadcast \/ UNCHANGED sessionVars
  <2>1. UNCHANGED <<socket, inbox, replying>>
    BY <1>6 DEF PollStarts, CommandStarts, Refused, DiscardEnds, DiscardReads,
       UnloadEnds, Broadcast, sessionVars, peer
  <2>2. QED BY <1>1, <2>1
<1>7. CASE Opens \/ SetsUpAgain \/ LinkGoes
  BY <1>4, <1>7 DEF Opens, SetsUpAgain, LinkGoes
<1>8. CASE UnloadStarts
  BY <1>1, <1>4, <1>8 DEF UnloadStarts
<1>9. ASSUME NEW t \in Tasks, TaskStep(t) PROVE DeadStream'
  <2>1. CASE Acquires(t) \/ DrainReads(t) \/ ReadFails(t)
             \/ \E n \in 1 .. Len(inbound) : ReadChunk(t, n)
    <3>1. UNCHANGED <<socket, inbox, replying>>
      BY <2>1 DEF Acquires, DrainReads, ReadFails, ReadChunk, peer
    <3>2. QED BY <1>1, <3>1
  <2>2. CASE ReadTimesOut(t)
    BY <1>2, <2>2 DEF ReadTimesOut
  <2>3. CASE DrainEnds(t)
    BY <1>3, <2>3 DEF DrainEnds
  <2>4. QED BY <1>9, <2>1, <2>2, <2>3 DEF TaskStep
<1>10. ASSUME NEW t \in Users, Cancelled(t) \/ DrainCancelled(t) PROVE DeadStream'
  BY <1>0, <1>1, <1>2, <1>3, <1>10 DEF Cancelled, DrainCancelled
<1>11. QED BY <1>5, <1>6, <1>7, <1>8, <1>9, <1>10 DEF SessionNext, MatrixStep, ConnectStep

(* A call has no outcome before it ends.                                   *)
LEMMA OpenCallsStep ==
    ASSUME ReaderInv, SessionTypeOK, OpenCalls, [SessionNext]_sessionVars
    PROVE  OpenCalls'
<1> USE DEF OpenCalls
<1>0. /\ Poller \in Tasks /\ Users \subseteq Tasks
      /\ pc \in [Tasks -> {"idle", "opening", "discarding",
                           "waiting", "draining", "reading", "straying"}]
      /\ outcome \in [Tasks -> {"none", "ok", "failed", "cancelled"}]
  BY DEF Tasks, SessionTypeOK
<1>1. ASSUME UNCHANGED <<pc, outcome>> PROVE OpenCalls'
  BY <1>1
<1>2. ASSUME NEW t \in Tasks, NEW r, Ends(t, r) \/ FailsOutside(t) PROVE OpenCalls'
  BY <1>0, <1>2 DEF Ends, FailsOutside
<1>3. ASSUME NEW t \in Tasks, NEW step, pc' = [pc EXCEPT ![t] = step],
             outcome'[t] = "none", \A u \in Tasks : u # t => outcome'[u] = outcome[u]
      PROVE  OpenCalls'
  BY <1>0, <1>3
<1>4. ASSUME NEW t \in Tasks, Enters(t),
             outcome' = [outcome EXCEPT ![t] = "none"]
             \/ (UNCHANGED outcome /\ pc[t] # "idle")
      PROVE  OpenCalls'
  BY <1>0, <1>3, <1>4 DEF Enters
<1>5. CASE PollStarts
  <2>1. CASE Enters(Poller) /\ outcome' = [outcome EXCEPT ![Poller] = "none"]
    BY <1>0, <1>4, <2>1
  <2>2. CASE FailsOutside(Poller)
    BY <1>0, <1>2, <2>2
  <2>3. CASE /\ pc' = [pc EXCEPT ![Poller] = "opening"]
             /\ outcome' = [outcome EXCEPT ![Poller] = "none"]
    BY <1>0, <1>3, <2>3
  <2>4. QED BY <1>5, <2>1, <2>2, <2>3 DEF PollStarts
<1>6. ASSUME NEW t \in Users, CommandStarts(t) PROVE OpenCalls'
  BY <1>0, <1>2, <1>4, <1>6 DEF CommandStarts
<1>7. ASSUME NEW t \in Tasks, TaskStep(t) PROVE OpenCalls'
  <2>1. CASE Acquires(t)
    <3>1. CASE Ends(t, "failed")
      BY <1>2, <3>1
    <3>2. CASE pc' = [pc EXCEPT ![t] = "draining"] /\ UNCHANGED outcome
      BY <1>0, <2>1, <3>2 DEF Acquires
    <3>3. QED BY <2>1, <3>1, <3>2 DEF Acquires
  <2>2. CASE DrainReads(t)
    BY <1>1, <2>2 DEF DrainReads, calls
  <2>3. CASE DrainEnds(t)
    <3>1. CASE Ends(t, "failed")
      BY <1>2, <3>1
    <3>2. CASE pc' = [pc EXCEPT ![t] = "reading"] /\ UNCHANGED outcome
      BY <1>0, <2>3, <3>2 DEF DrainEnds
    <3>3. QED BY <2>3, <3>1, <3>2 DEF DrainEnds, Writes
  <2>4. ASSUME NEW n \in 1 .. Len(inbound), ReadChunk(t, n) PROVE OpenCalls'
    <3>1. UNCHANGED <<pc, outcome>> \/ Ends(t, "ok") \/ Ends(t, "cancelled")
      BY <2>4 DEF ReadChunk
    <3>2. QED BY <1>1, <1>2, <3>1
  <2>5. CASE ReadFails(t) \/ ReadTimesOut(t)
    BY <1>2, <2>5 DEF ReadFails, ReadTimesOut
  <2>6. QED BY <1>7, <2>1, <2>2, <2>3, <2>4, <2>5 DEF TaskStep
<1>8. CASE ConnectStep
  <2>1. CASE Opens
    BY <1>0, <2>1 DEF Opens
  <2>2. CASE Refused
    BY <1>0, <1>2, <2>2 DEF Refused
  <2>3. ASSUME NEW n \in 1 .. Len(inbound), DiscardReads(n) PROVE OpenCalls'
    BY <1>1, <2>3 DEF DiscardReads
  <2>4. CASE DiscardEnds
    BY <1>0, <1>2, <1>4, <2>4 DEF DiscardEnds
  <2>5. QED BY <1>8, <2>1, <2>2, <2>3, <2>4 DEF ConnectStep
<1>9. CASE SetsUpAgain
  BY <1>0, <1>9 DEF SetsUpAgain
<1>10. CASE UnloadStarts \/ UnloadEnds \/ MatrixStep \/ Broadcast \/ LinkGoes
            \/ UNCHANGED sessionVars
  BY <1>1, <1>10 DEF UnloadStarts, UnloadEnds, MatrixStep, MatrixTakes, MatrixSends,
     Broadcast, LinkGoes, sessionVars, calls
<1>11. ASSUME NEW t \in Users, Cancelled(t) PROVE OpenCalls'
  <2>1. CASE Ends(t, "failed")
    BY <1>0, <1>2, <2>1
  <2>2. CASE /\ pc' = [pc EXCEPT ![t] = "idle"]
             /\ outcome' = [outcome EXCEPT ![t] = "failed"]
    BY <1>0, <2>2
  <2>3. QED BY <1>11, <2>1, <2>2 DEF Cancelled
<1>13. ASSUME NEW t \in Users, DrainCancelled(t) PROVE OpenCalls'
  <2>1. CASE Ends(t, "failed")
    BY <1>0, <1>2, <2>1
  <2>2. CASE pc' = [pc EXCEPT ![t] = "straying"] /\ UNCHANGED outcome
    BY <1>0, <1>13, <2>2 DEF DrainCancelled
  <2>3. QED BY <1>13, <2>1, <2>2 DEF DrainCancelled, Writes
<1>12. QED BY <1>5, <1>6, <1>7, <1>8, <1>9, <1>10, <1>11, <1>13 DEF SessionNext

(* A transaction starts with an empty buffer, and only the read that ends  *)
(* it leaves something there.                                              *)
LEMMA FreshBufferStep ==
    ASSUME ReaderInv, FreshBuffer, [SessionNext]_sessionVars
    PROVE  FreshBuffer'
<1> USE DEF FreshBuffer, OnTheWire, ReaderInv, PcType
<1>0. Poller \in Tasks /\ Users \subseteq Tasks
  BY DEF Tasks
<1>1. CASE buffer' = <<>>
  BY <1>1
<1>2. ASSUME UNCHANGED <<pc, buffer>> PROVE FreshBuffer'
  BY <1>2
<1>3. ASSUME NEW t \in Tasks, NEW step \in {"idle", "opening", "discarding", "waiting"},
             pc' = [pc EXCEPT ![t] = step], UNCHANGED buffer
      PROVE  FreshBuffer'
  BY <1>3
<1>4. ASSUME NEW t \in Tasks, NEW r, Ends(t, r), UNCHANGED buffer PROVE FreshBuffer'
  BY <1>3, <1>4 DEF Ends
<1>5. ASSUME NEW t \in Tasks, FailsOutside(t), UNCHANGED buffer PROVE FreshBuffer'
  BY <1>3, <1>5 DEF FailsOutside
<1>6. ASSUME NEW t \in Tasks, Enters(t) PROVE FreshBuffer'
  BY <1>1, <1>3, <1>6 DEF Enters
<1>15. ASSUME NEW t \in Tasks, NEW c, NEW then, pc[t] = "draining", Writes(t, c, then),
              UNCHANGED buffer
       PROVE  FreshBuffer'
  <2>1. CASE pc' = [pc EXCEPT ![t] = then]
    BY <1>15, <2>1
  <2>2. QED BY <1>4, <1>15, <2>1 DEF Writes
<1>7. CASE PollStarts
  <2>1. \/ Enters(Poller)
        \/ FailsOutside(Poller) /\ UNCHANGED buffer
        \/ pc' = [pc EXCEPT ![Poller] = "opening"] /\ UNCHANGED buffer
    BY <1>7 DEF PollStarts
  <2>2. QED BY <1>0, <1>3, <1>5, <1>6, <2>1
<1>8. ASSUME NEW t \in Users, CommandStarts(t) PROVE FreshBuffer'
  <2>1. Enters(t) \/ (FailsOutside(t) /\ UNCHANGED buffer)
    BY <1>8 DEF CommandStarts
  <2>2. QED BY <1>0, <1>5, <1>6, <2>1
<1>9. ASSUME NEW t \in Tasks, TaskStep(t) PROVE FreshBuffer'
  <2>1. CASE Acquires(t)
    <3>1. buffer' = <<>> \/ (Ends(t, "failed") /\ UNCHANGED buffer)
      BY <2>1 DEF Acquires
    <3>2. QED BY <1>1, <1>4, <3>1
  <2>2. CASE DrainReads(t)
    BY <1>2, <2>2 DEF DrainReads, library, calls
  <2>3. CASE DrainEnds(t)
    BY <1>15, <2>3 DEF DrainEnds
  <2>4. ASSUME NEW n \in 1 .. Len(inbound), ReadChunk(t, n) PROVE FreshBuffer'
    <3>1. /\ OnTheWire(t)
          /\ buffer' = <<>> \/ Ends(t, "ok") \/ Ends(t, "cancelled")
      BY <2>4 DEF ReadChunk, Reading
    <3>2. ASSUME NEW r, Ends(t, r) PROVE FreshBuffer'
      <4>1. \A u \in Tasks : OnTheWire(u) => u = t
        BY <3>1 DEF HolderInv
      <4>2. pc' = [pc EXCEPT ![t] = "idle"]
        BY <3>2 DEF Ends
      <4>3. QED BY <4>1, <4>2
    <3>3. QED BY <1>1, <3>1, <3>2
  <2>5. CASE ReadFails(t) \/ ReadTimesOut(t)
    BY <1>4, <2>5 DEF ReadFails, ReadTimesOut, library
  <2>6. QED BY <1>9, <2>1, <2>2, <2>3, <2>4, <2>5 DEF TaskStep
<1>10. CASE ConnectStep
  <2>1. CASE Opens
    BY <1>1, <2>1 DEF Opens
  <2>2. CASE Refused
    BY <1>0, <1>5, <2>2 DEF Refused, library
  <2>3. ASSUME NEW n \in 1 .. Len(inbound), DiscardReads(n) PROVE FreshBuffer'
    BY <1>2, <2>3 DEF DiscardReads, library
  <2>4. CASE DiscardEnds
    BY <1>0, <1>5, <1>6, <2>4 DEF DiscardEnds
  <2>5. QED BY <1>10, <2>1, <2>2, <2>3, <2>4 DEF ConnectStep
<1>11. CASE SetsUpAgain \/ UnloadEnds
  BY <1>1, <1>11 DEF SetsUpAgain, UnloadEnds
<1>12. CASE UnloadStarts \/ MatrixStep \/ Broadcast \/ LinkGoes \/ UNCHANGED sessionVars
  BY <1>2, <1>12 DEF UnloadStarts, MatrixStep, MatrixTakes, MatrixSends, Broadcast,
     LinkGoes, sessionVars, calls, library
<1>13. ASSUME NEW t \in Users, Cancelled(t) PROVE FreshBuffer'
  <2>1. UNCHANGED buffer /\ (Ends(t, "failed") \/ pc' = [pc EXCEPT ![t] = "idle"])
    BY <1>13 DEF Cancelled, library
  <2>2. QED BY <1>0, <1>3, <1>4, <2>1
<1>16. ASSUME NEW t \in Users, DrainCancelled(t) PROVE FreshBuffer'
  BY <1>0, <1>15, <1>16 DEF DrainCancelled
<1>14. QED BY <1>7, <1>8, <1>9, <1>10, <1>11, <1>12, <1>13, <1>16 DEF SessionNext

(* While a link is up the matrix takes and answers the command of the task *)
(* that reads; when it goes, only what has arrived is left.                *)
LEMMA MatrixExchange ==
    ASSUME CallInv, NEW t \in Tasks, pc[t] = "reading", UNCHANGED got,
           MatrixStep \/ Broadcast \/ LinkGoes \/ UnloadStarts
    PROVE  Exchange(t)'
<1>1. PICK m \in 0 .. Len(OwnReply(t)) : \E g \in 0 .. m : ExchangeAt(t, g, m)
  BY DEF CallInv, Exchanges, Exchange
<1>2. PICK g \in 0 .. m : ExchangeAt(t, g, m)
  BY <1>1
<1>3. /\ OwnReply(t) \in Seq(Line) /\ Len(OwnReply(t)) \in {1, 2}
      /\ m \in Nat /\ g \in Nat /\ m <= Len(OwnReply(t)) /\ g <= m
      /\ inbound \in Seq(Line) /\ replying \in Seq(Line) /\ inbox \in Seq(Command)
  BY OwnReplyLines DEF CallInv, SessionInv, SessionTypeOK, Command
<1>4. /\ got'[t] = SubSeq(OwnReply(t), 1, g)
      /\ Carries(inbound, OwnReply(t), g, m)
  BY <1>2 DEF ExchangeAt
<1>5. ASSUME NEW n \in 0 .. Len(OwnReply(t)), g \in 0 .. n,
             ExchangeAt(t, g, n)'
      PROVE  Exchange(t)'
  BY <1>5 DEF Exchange
<1>6. CASE MatrixTakes
  <2>1. m = 0 /\ inbox = <<CommandOf(t)>>
    BY <1>2, <1>6 DEF ExchangeAt, MatrixTakes
  <2>2. inbox' = <<>> /\ replying' = OwnReply(t) /\ UNCHANGED inbound
    BY <1>6, <2>1 DEF MatrixTakes, OwnReply
  <2>3. replying' = SubSeq(OwnReply(t), m + 1, Len(OwnReply(t)))
    BY <1>3, <2>1, <2>2, SubSeqFull
  <2>4. ExchangeAt(t, g, m)'
    BY <1>4, <2>2, <2>3 DEF ExchangeAt
  <2>5. QED BY <1>5, <2>4
<1>7. CASE MatrixSends
  <2>1. inbox = <<>> /\ replying = SubSeq(OwnReply(t), m + 1, Len(OwnReply(t)))
    BY <1>2, <1>7 DEF ExchangeAt, MatrixSends
  <2>2. m \in 0 .. Len(OwnReply(t)) /\ m < Len(OwnReply(t))
    <3>1. CASE m = Len(OwnReply(t))
      <4>1. SubSeq(OwnReply(t), m + 1, Len(OwnReply(t))) = <<>>
        BY <1>3, <3>1, SubSeqEmpty
      <4>2. QED BY <1>7, <2>1, <4>1 DEF MatrixSends
    <3>2. QED BY <1>3, <3>1
  <2>3. /\ Len(replying) = Len(OwnReply(t)) - m
        /\ \A k \in 1 .. Len(OwnReply(t)) - m : replying[k] = OwnReply(t)[m + k]
    BY <1>3, <2>1, <2>2, TwoParts
  <2>4. Head(replying) = OwnReply(t)[m + 1]
    <3>1. 1 \in 1 .. Len(OwnReply(t)) - m
      BY <1>3, <2>2
    <3>2. Head(replying) = replying[1]
      BY <1>3, <1>7 DEF MatrixSends
    <3>3. QED BY <2>3, <3>1, <3>2
  <2>5. Tail(replying) = SubSeq(OwnReply(t), m + 1 + 1, Len(OwnReply(t)))
    <3>1. m + 1 \in 0 .. Len(OwnReply(t))
      BY <1>3, <2>2
    <3>2. /\ SubSeq(OwnReply(t), m + 1 + 1, Len(OwnReply(t))) \in Seq(Line)
          /\ Len(SubSeq(OwnReply(t), m + 1 + 1, Len(OwnReply(t))))
                = Len(OwnReply(t)) - (m + 1)
          /\ \A k \in 1 .. Len(OwnReply(t)) - (m + 1) :
                SubSeq(OwnReply(t), m + 1 + 1, Len(OwnReply(t)))[k]
                    = OwnReply(t)[m + 1 + k]
      BY <1>3, <3>1, TwoParts
    <3>3. /\ Tail(replying) \in Seq(Line) /\ Len(Tail(replying)) = Len(replying) - 1
          /\ \A k \in 1 .. Len(replying) - 1 : Tail(replying)[k] = replying[k + 1]
      BY <1>3, <1>7, HeadTailProperties DEF MatrixSends
    <3>4. Len(replying) - 1 = Len(OwnReply(t)) - (m + 1)
      BY <1>3, <2>3
    <3>5. ASSUME NEW k \in 1 .. Len(OwnReply(t)) - (m + 1)
          PROVE  Tail(replying)[k] = OwnReply(t)[m + 1 + k]
      <4>1. k + 1 \in 1 .. Len(OwnReply(t)) - m /\ m + (k + 1) = m + 1 + k
        BY <1>3
      <4>2. replying[k + 1] = OwnReply(t)[m + (k + 1)]
        BY <2>3, <4>1
      <4>3. QED BY <3>3, <3>4, <4>1, <4>2
    <3>6. QED BY <3>2, <3>3, <3>4, <3>5, SeqEqual
  <2>6. Carries(Append(inbound, OwnReply(t)[m + 1]), OwnReply(t), g, m + 1)
    <3>1. m + 1 \in 1 .. Len(OwnReply(t))
      BY <1>3, <2>2
    <3>2. QED BY <1>3, <1>4, <3>1, CarriesOneMore
  <2>7. inbound' = Append(inbound, OwnReply(t)[m + 1]) /\ inbox' = <<>>
        /\ replying' = SubSeq(OwnReply(t), m + 1 + 1, Len(OwnReply(t)))
    BY <1>7, <2>1, <2>4, <2>5 DEF MatrixSends
  <2>8. ExchangeAt(t, g, m + 1)'
    BY <1>4, <2>6, <2>7 DEF ExchangeAt
  <2>9. m + 1 \in 0 .. Len(OwnReply(t)) /\ g \in 0 .. m + 1
    BY <1>3, <2>2
  <2>10. QED BY <1>5, <2>8, <2>9
<1>8. CASE Broadcast
  <2>1. Carries(inbound', OwnReply(t), g, m)
    BY <1>3, <1>4, <1>8, CarriesBanner DEF Broadcast
  <2>2. ExchangeAt(t, g, m)'
    BY <1>2, <1>4, <1>8, <2>1 DEF ExchangeAt, Broadcast
  <2>3. QED BY <1>5, <2>2
<1>9. ASSUME inbox' = <<>>, replying' = <<>>, socket' # "open",
             UNCHANGED inbound \/ inbound' = <<>>
      PROVE  Exchange(t)'
  <2>1. CASE UNCHANGED inbound
    <3>1. ExchangeAt(t, g, m)'
      BY <1>4, <1>9, <2>1 DEF ExchangeAt
    <3>2. QED BY <1>5, <3>1
  <2>2. CASE inbound' = <<>>
    <3>1. Carries(<<>>, OwnReply(t), g, g)
      BY <1>3, CarriesNothing
    <3>2. ExchangeAt(t, g, g)'
      BY <1>4, <1>9, <2>2, <3>1 DEF ExchangeAt
    <3>3. g \in 0 .. Len(OwnReply(t)) /\ g \in 0 .. g
      BY <1>3
    <3>4. QED BY <1>5, <3>2, <3>3
  <2>3. QED BY <1>9, <2>1, <2>2
<1>10. CASE LinkGoes
  BY <1>9, <1>10 DEF LinkGoes
<1>11. CASE UnloadStarts
  <2>1. CASE devConnected
    BY <1>9, <1>11, <2>1 DEF UnloadStarts
  <2>2. CASE ~devConnected
    <3>1. ExchangeAt(t, g, m)'
      BY <1>2, <1>4, <1>11, <2>2 DEF UnloadStarts, ExchangeAt
    <3>2. QED BY <1>5, <3>1
  <2>3. QED BY <2>1, <2>2
<1>12. QED BY <1>6, <1>7, <1>8, <1>10, <1>11 DEF MatrixStep

(* What belongs to nobody goes on belonging to nobody while no task reads. *)
LEMMA MatrixUnowned ==
    ASSUME SessionTypeOK, Unowned, MatrixStep \/ Broadcast \/ LinkGoes \/ UnloadStarts
    PROVE  Unowned'
<1>1. inbound \in Seq(Line) /\ replying \in Seq(Line) /\ inbox \in Seq(Command)
  BY DEF SessionTypeOK, Command
<1>2. CASE MatrixTakes
  <2>1. /\ Head(inbox) \in Command /\ Head(inbox).of = Nobody
        /\ \A k \in DOMAIN Tail(inbox) : Tail(inbox)[k].of = Nobody
    <3>1. /\ inbox # <<>> /\ Head(inbox) = inbox[1] /\ 1 \in DOMAIN inbox
          /\ inbox[1] \in Command
      BY <1>1, <1>2 DEF MatrixTakes
    <3>2. /\ Tail(inbox) \in Seq(Command) /\ Len(Tail(inbox)) = Len(inbox) - 1
          /\ \A k \in 1 .. Len(inbox) - 1 : Tail(inbox)[k] = inbox[k + 1]
      BY <1>1, <3>1, HeadTailProperties
    <3>3. \A k \in 1 .. Len(inbox) - 1 : k + 1 \in DOMAIN inbox
      BY <1>1
    <3>4. DOMAIN Tail(inbox) = 1 .. Len(inbox) - 1
      BY <3>2
    <3>5. \A k \in DOMAIN inbox : inbox[k].of = Nobody
      BY DEF Unowned
    <3>6. Head(inbox) \in Command /\ Head(inbox).of = Nobody
      BY <3>1, <3>5
    <3>7. \A k \in 1 .. Len(inbox) - 1 : Tail(inbox)[k].of = Nobody
      BY <3>2, <3>3, <3>5
    <3>8. QED BY <3>4, <3>6, <3>7
  <2>2. \A k \in 1 .. Len(Reply(Head(inbox))) : Reply(Head(inbox))[k].of = Nobody
    <3>1. ASSUME NEW c \in Command, c.of = Nobody
          PROVE  \A k \in 1 .. Len(Reply(c)) : Reply(c)[k].of = Nobody
      <4>1. ASSUME NEW k \in 1 .. Len(Reply(c)) PROVE Reply(c)[k].of = Nobody
        <5>1. Reply(c)[k] = [kind |-> ReplyKinds(c.by)[k], of |-> c.of]
          BY ReplyLines
        <5>2. Reply(c)[k].of = c.of
          BY <5>1
        <5>3. QED BY <3>1, <5>2
      <4>2. QED BY <4>1
    <3>2. QED BY <2>1, <3>1, Zenon
  <2>3. DOMAIN Reply(Head(inbox)) = 1 .. Len(Reply(Head(inbox)))
    <3>1. \A c \in Command : DOMAIN Reply(c) = 1 .. Len(Reply(c))
      BY ReplyLines
    <3>2. QED BY <2>1, <3>1, Zenon
  <2>4. QED BY <1>2, <2>1, <2>2, <2>3 DEF MatrixTakes, Unowned
<1>3. CASE MatrixSends
  <2>1. /\ Head(replying) \in Line /\ Head(replying).of = Nobody
        /\ \A k \in DOMAIN Tail(replying) : Tail(replying)[k].of = Nobody
    BY <1>1, <1>3 DEF MatrixSends, Unowned
  <2>2. \A k \in DOMAIN Append(inbound, Head(replying)) :
            Append(inbound, Head(replying))[k].of = Nobody
    BY <1>1, <2>1 DEF Unowned
  <2>3. QED BY <1>3, <2>1, <2>2 DEF MatrixSends, Unowned
<1>4. CASE Broadcast
  <2>1. \A k \in 1 .. 3 : Banner[k].of = Nobody
    BY BannerLines
  <2>2. /\ inbound \o Banner \in Seq(Line) /\ Len(inbound \o Banner) = Len(inbound) + 3
        /\ \A k \in 1 .. Len(inbound) + 3 : (inbound \o Banner)[k] =
              IF k <= Len(inbound) THEN inbound[k] ELSE Banner[k - Len(inbound)]
    <3>1. Banner \in Seq(Line) /\ Len(Banner) = 3
      BY BannerLines
    <3>2. /\ inbound \o Banner \in Seq(Line)
          /\ Len(inbound \o Banner) = Len(inbound) + Len(Banner)
          /\ \A k \in 1 .. Len(inbound) + Len(Banner) : (inbound \o Banner)[k] =
                IF k <= Len(inbound) THEN inbound[k] ELSE Banner[k - Len(inbound)]
      BY <1>1, <3>1, ConcatProperties
    <3>3. QED BY <3>1, <3>2
  <2>3. \A k \in 1 .. Len(inbound) + 3 : (inbound \o Banner)[k].of = Nobody
    <3>1. ASSUME NEW k \in 1 .. Len(inbound) + 3 PROVE (inbound \o Banner)[k].of = Nobody
      <4>1. CASE k <= Len(inbound)
        <5>1. k \in DOMAIN inbound
          BY <1>1, <4>1
        <5>2. QED BY <2>2, <4>1, <5>1 DEF Unowned
      <4>2. CASE ~(k <= Len(inbound))
        <5>1. k - Len(inbound) \in 1 .. 3
          BY <1>1, <4>2
        <5>2. QED BY <2>1, <2>2, <4>2, <5>1
      <4>3. QED BY <4>1, <4>2
    <3>2. QED BY <3>1
  <2>4. DOMAIN (inbound \o Banner) = 1 .. Len(inbound) + 3
    BY <2>2
  <2>5. QED BY <1>4, <2>3, <2>4 DEF Broadcast, Unowned
<1>5. CASE LinkGoes \/ UnloadStarts
  BY <1>5 DEF LinkGoes, UnloadStarts, Unowned
<1>6. QED BY <1>2, <1>3, <1>4, <1>5 DEF MatrixStep

(* Whoever reads is being answered, and while nobody reads nothing that is *)
(* on the way belongs to a call that could take it for its own.            *)
LEMMA ExchangesStep ==
    ASSUME ~SplitBanners, ~LateReplies, CallInv, [SessionNext]_sessionVars
    PROVE  Exchanges'
<1>0. /\ Poller \in Tasks /\ Users \subseteq Tasks /\ \A t \in Tasks : t \in Users \/ t = Poller
      /\ pc \in [Tasks -> {"idle", "opening", "discarding",
                           "waiting", "draining", "reading", "straying"}]
      /\ got \in [Tasks -> Seq(Line)]
      /\ inbound \in Seq(Line) /\ inbox \in Seq(Command) /\ replying \in Seq(Line)
      /\ SessionTypeOK /\ Exchanges
  BY DEF Tasks, CallInv, SessionInv, SessionTypeOK, Command
<1>1. ASSUME UNCHANGED <<socket, inbound, inbox, replying>>,
             \A u \in Tasks : pc'[u] = "reading" <=> pc[u] = "reading",
             \A u \in Tasks : pc[u] = "reading" => got'[u] = got[u]
      PROVE  Exchanges'
  <2>1. NobodyReads' => Unowned'
    BY <1>0, <1>1 DEF Exchanges, NobodyReads, Unowned
  <2>2. ASSUME NEW u \in Tasks, pc'[u] = "reading" PROVE Exchange(u)'
    <3>1. Exchange(u) /\ got'[u] = got[u]
      BY <1>0, <1>1, <2>2 DEF Exchanges
    <3>2. QED BY <1>1, <3>1 DEF Exchange, ExchangeAt
  <2>3. QED BY <2>1, <2>2 DEF Exchanges
<1>2. ASSUME NEW t \in Tasks, pc[t] # "reading",
             NEW step \in {"idle", "opening", "discarding", "waiting", "draining"},
             pc' = [pc EXCEPT ![t] = step], UNCHANGED <<socket, inbound, inbox, replying>>,
             UNCHANGED got \/ got' = [got EXCEPT ![t] = <<>>]
      PROVE  Exchanges'
  BY <1>0, <1>1, <1>2
<1>3. ASSUME NEW t \in Tasks, pc[t] # "reading", NEW r,
             Enters(t) \/ Ends(t, r) \/ FailsOutside(t), UNCHANGED peer,
             UNCHANGED got \/ got' = [got EXCEPT ![t] = <<>>]
      PROVE  Exchanges'
  BY <1>2, <1>3 DEF Enters, Ends, FailsOutside, peer
<1>4. CASE NobodyReads' /\ Unowned'
  BY <1>4 DEF Exchanges, NobodyReads
<1>5. ASSUME NEW t \in Tasks, OnTheWire(t), NEW r, Ends(t, r)
      PROVE  NobodyReads'
  <2>1. \A u \in Tasks : pc[u] = "reading" => u = t
    BY <1>5, OnlyHolderReads DEF CallInv
  <2>2. QED BY <1>0, <1>5, <2>1 DEF Ends, NobodyReads
<1>6. ASSUME NEW t \in Tasks, pc[t] = "draining" PROVE NobodyReads /\ Unowned
  BY <1>6, NothingAwaited
<1>16. \A t \in Tasks : OnTheWire(t) <=> pc[t] = "draining" \/ Reading(t)
  BY DEF OnTheWire, Reading
<1>17. ASSUME NEW t \in Tasks, Reading(t), Ends(t, "failed"), GiveUp(t) PROVE Exchanges'
  <2>1. Exchange(t) \/ Unowned
    BY <1>0, <1>17, NothingAwaited DEF Reading, Exchanges
  <2>2. Unowned'
    BY <1>0, <1>17, <2>1, GivenUp
  <2>3. QED BY <1>4, <1>5, <1>16, <1>17, <2>2
<1>7. CASE PollStarts
  <2>1. UNCHANGED <<peer, got>> /\ pc[Poller] = "idle"
    BY <1>7 DEF PollStarts
  <2>2. \/ Enters(Poller) \/ FailsOutside(Poller)
        \/ pc' = [pc EXCEPT ![Poller] = "opening"]
    BY <1>7 DEF PollStarts
  <2>3. QED BY <1>0, <1>2, <1>3, <2>1, <2>2 DEF peer
<1>8. ASSUME NEW t \in Users, CommandStarts(t) PROVE Exchanges'
  <2>1. UNCHANGED <<peer, got>> /\ pc[t] = "idle" /\ (Enters(t) \/ FailsOutside(t))
    BY <1>8 DEF CommandStarts
  <2>2. QED BY <1>0, <1>3, <2>1
<1>9. ASSUME NEW t \in Tasks, TaskStep(t) PROVE Exchanges'
  <2>1. CASE Acquires(t)
    <3>1. UNCHANGED <<peer, got>> /\ pc[t] = "waiting"
          /\ (Ends(t, "failed") \/ pc' = [pc EXCEPT ![t] = "draining"])
      BY <2>1 DEF Acquires
    <3>2. QED BY <1>2, <1>3, <3>1 DEF peer
  <2>2. CASE DrainReads(t)
    <3>1. NobodyReads /\ Unowned
      BY <1>6, <2>2 DEF DrainReads
    <3>2. inbound' = <<>> /\ UNCHANGED <<pc, inbox, replying>>
      BY <2>2 DEF DrainReads, calls
    <3>3. QED BY <1>4, <3>1, <3>2 DEF NobodyReads, Unowned
  <2>3. CASE DrainEnds(t)
    <3>1. /\ pc[t] = "draining" /\ inbound = <<>> /\ inbox = <<>> /\ replying = <<>>
          /\ UNCHANGED <<socket, inbound, replying>>
      BY <2>3 DEF DrainEnds
    <3>2. CASE Ends(t, "failed") /\ UNCHANGED inbox
      <4>1. Unowned'
        BY <3>1, <3>2 DEF Unowned
      <4>2. QED BY <1>4, <1>5, <1>16, <3>1, <3>2, <4>1
    <3>3. CASE /\ inbox' = IF socket = "open" THEN Append(inbox, CommandOf(t)) ELSE inbox
               /\ pc' = [pc EXCEPT ![t] = "reading"]
               /\ got' = [got EXCEPT ![t] = <<>>]
      <4>1. \A u \in Tasks : u # t => pc'[u] # "reading"
        BY <1>0, <1>6, <3>1, <3>3 DEF NobodyReads
      <4>2. pc'[t] = "reading" /\ got'[t] = <<>>
        BY <1>0, <3>3
      <4>3. \/ inbox' = <<CommandOf(t)>> \/ (inbox' = <<>> /\ socket' # "open")
        BY <3>1, <3>3
      <4>4. SubSeq(OwnReply(t), 1, 0) = <<>>
        BY SubSeqEmpty
      <4>5. Carries(<<>>, OwnReply(t), 0, 0)
        BY CarriesNothing
      <4>6. ExchangeAt(t, 0, 0)'
        BY <3>1, <4>2, <4>3, <4>4, <4>5 DEF ExchangeAt
      <4>7. 0 \in 0 .. Len(OwnReply(t)) /\ 0 \in 0 .. 0
        BY OwnReplyLines
      <4>8. Exchange(t)'
        BY <4>6, <4>7 DEF Exchange
      <4>9. QED BY <4>1, <4>2, <4>8 DEF Exchanges, NobodyReads
    <3>4. QED BY <2>3, <3>2, <3>3 DEF DrainEnds, Writes
  <2>4. ASSUME NEW n \in 1 .. Len(inbound), ReadChunk(t, n), pc[t] = "reading"
        PROVE  Exchanges'
    <3>1. PICK m \in 0 .. Len(OwnReply(t)) : \E g \in 0 .. m :
              /\ ExchangeAt(t, g, m)
              /\ \/ /\ \E h \in g .. m : ExchangeAt(t, h, m)'
                    /\ got' = [got EXCEPT ![t] = got'[t]]
                    /\ UNCHANGED <<lock, waiters, pc, outcome, entry>>
                    /\ buffer' = <<>>
                 \/ /\ g < m /\ m = Len(OwnReply(t))
                    /\ inbox = <<>>
                    /\ got' = [got EXCEPT ![t] = OwnReply(t)]
                    /\ Ends(t, "ok")
                    /\ Unowned'
      BY <2>4, ReadsItsReply
    <3>2. pc[t] = "reading" /\ OnTheWire(t)
      BY <2>4 DEF OnTheWire
    <3>3. CASE Ends(t, "ok") /\ Unowned'
      BY <1>4, <1>5, <3>2, <3>3
    <3>4. ASSUME NEW g \in 0 .. m, NEW h \in g .. m, ExchangeAt(t, h, m)', UNCHANGED pc
          PROVE  Exchanges'
      <4>1. h \in 0 .. m
        OBVIOUS
      <4>2. Exchange(t)'
        BY <3>4, <4>1 DEF Exchange
      <4>3. \A u \in Tasks : pc[u] = "reading" => u = t
        BY <3>2, OnlyHolderReads DEF CallInv
      <4>4. QED BY <3>2, <3>4, <4>2, <4>3 DEF Exchanges, NobodyReads
    <3>5. QED BY <3>1, <3>3, <3>4
  <2>8. ASSUME NEW n \in 1 .. Len(inbound), ReadChunk(t, n), pc[t] # "reading"
        PROVE  Exchanges'
    <3>1. pc[t] = "straying" /\ OnTheWire(t)
      BY <2>8 DEF ReadChunk, Reading, OnTheWire
    <3>2. Unowned' /\ (UNCHANGED pc \/ Ends(t, "cancelled"))
      BY <2>8, <3>1, ReadsAnyReply
    <3>3. NobodyReads
      BY <3>1, NothingAwaited
    <3>4. NobodyReads'
      BY <1>5, <3>1, <3>2, <3>3 DEF NobodyReads
    <3>5. QED BY <1>4, <3>2, <3>4
  <2>5. CASE ReadFails(t)
    <3>1. /\ Reading(t) /\ inbound = <<>> /\ socket # "open" /\ Ends(t, "failed")
          /\ UNCHANGED <<inbound, inbox, replying>>
      BY <2>5 DEF ReadFails, peer
    <3>2. inbox = <<>> /\ replying = <<>>
      BY <3>1 DEF CallInv, DeadStream
    <3>3. Unowned'
      BY <3>1, <3>2 DEF Unowned
    <3>4. QED BY <1>4, <1>5, <1>16, <3>1, <3>3
  <2>6. CASE ReadTimesOut(t)
    BY <1>17, <2>6 DEF ReadTimesOut
  <2>7. QED BY <1>9, <2>1, <2>2, <2>3, <2>4, <2>5, <2>6, <2>8 DEF TaskStep
<1>10. ASSUME NEW t \in Users, Cancelled(t) PROVE Exchanges'
  <2>1. t \in Tasks /\ UNCHANGED got
    BY <1>0, <1>10 DEF Cancelled
  <2>2. CASE Reading(t) /\ Ends(t, "failed") /\ GiveUp(t)
    BY <1>17, <2>1, <2>2
  <2>3. CASE pc[t] = "waiting" /\ UNCHANGED <<socket, inbound, inbox, replying>>
             /\ (Ends(t, "failed") \/ pc' = [pc EXCEPT ![t] = "idle"])
    BY <1>2, <1>3, <2>1, <2>3 DEF peer
  <2>4. QED BY <1>10, <2>2, <2>3 DEF Cancelled
<1>18. ASSUME NEW t \in Users, DrainCancelled(t) PROVE Exchanges'
  <2>1. /\ t \in Tasks /\ pc[t] = "draining" /\ OnTheWire(t)
        /\ UNCHANGED <<inbound, replying>>
        /\ Writes(t, [by |-> t, of |-> Nobody], "straying")
    BY <1>0, <1>16, <1>18 DEF DrainCancelled
  <2>2. NobodyReads /\ Unowned
    BY <1>6, <2>1
  <2>3. NobodyReads'
    <3>1. CASE pc' = [pc EXCEPT ![t] = "straying"]
      BY <1>0, <2>2, <3>1 DEF NobodyReads
    <3>2. QED BY <1>5, <2>1, <3>1 DEF Writes
  <2>4. CASE inbox' = Append(inbox, [by |-> t, of |-> Nobody])
    <3>1. [by |-> t, of |-> Nobody] \in Command
      BY <2>1 DEF Command
    <3>2. /\ Len(inbox') = Len(inbox) + 1 /\ inbox' \in Seq(Command)
          /\ \A k \in 1 .. Len(inbox) : inbox'[k] = inbox[k]
          /\ inbox'[Len(inbox) + 1] = [by |-> t, of |-> Nobody]
      BY <1>0, <2>4, <3>1, AppendProperties
    <3>3. \A k \in DOMAIN inbox' : k \in DOMAIN inbox \/ k = Len(inbox) + 1
      BY <1>0, <3>2
    <3>4. ASSUME NEW k \in DOMAIN inbox' PROVE inbox'[k].of = Nobody
      <4>1. CASE k = Len(inbox) + 1
        BY <3>2, <4>1
      <4>2. CASE k \in DOMAIN inbox
        <5>1. k \in 1 .. Len(inbox) /\ inbox[k].of = Nobody
          BY <1>0, <2>2, <4>2 DEF Unowned
        <5>2. QED BY <3>2, <5>1
      <4>3. QED BY <3>3, <4>1, <4>2
    <3>5. QED BY <1>4, <2>1, <2>2, <2>3, <3>4 DEF Unowned
  <2>5. CASE UNCHANGED inbox
    BY <1>4, <2>1, <2>2, <2>3, <2>5 DEF Unowned
  <2>6. QED BY <2>1, <2>4, <2>5 DEF Writes
<1>11. CASE ConnectStep
  <2>1. pc[Poller] \in {"opening", "discarding"}
    BY <1>11 DEF ConnectStep, Opens, Refused, DiscardReads, DiscardEnds
  <2>2. NobodyReads /\ Unowned
    BY <1>0, <2>1 DEF CallInv, ReaderInv, LifeInv, NobodyReads, Exchanges
  <2>3. CASE Opens
    <3>1. NobodyReads'
      BY <1>0, <2>2, <2>3 DEF Opens, NobodyReads
    <3>2. \A k \in DOMAIN inbound' : inbound'[k].of = Nobody
      <4>1. \A k \in DOMAIN Banner : Banner[k].of = Nobody
        BY BannerLines
      <4>2. inbound' = <<>> \/ inbound' = Banner
        BY <2>3 DEF Opens
      <4>3. QED BY <4>1, <4>2
    <3>3. inbox' = <<>> /\ replying' = <<>>
      BY <2>3 DEF Opens
    <3>4. QED BY <1>4, <3>1, <3>2, <3>3 DEF Unowned
  <2>4. CASE Refused
    BY <1>0, <1>3, <2>1, <2>4 DEF Refused
  <2>5. ASSUME NEW n \in 1 .. Len(inbound), DiscardReads(n) PROVE Exchanges'
    <3>1. UNCHANGED <<pc, inbox, replying>> /\ inbound' = SubSeq(inbound, n + 1, Len(inbound))
      BY <2>5 DEF DiscardReads
    <3>2. n \in 0 .. Len(inbound)
      OBVIOUS
    <3>3. /\ inbound' \in Seq(Line) /\ Len(inbound') = Len(inbound) - n
          /\ \A k \in 1 .. Len(inbound) - n : inbound'[k] = inbound[n + k]
      BY <1>0, <3>1, <3>2, TwoParts
    <3>4. \A k \in 1 .. Len(inbound) - n : n + k \in DOMAIN inbound
      BY <1>0
    <3>5. DOMAIN inbound' = 1 .. Len(inbound) - n
      BY <3>3
    <3>6. \A k \in DOMAIN inbound' : inbound'[k].of = Nobody
      BY <2>2, <3>3, <3>4, <3>5 DEF Unowned
    <3>7. QED BY <1>4, <2>2, <3>1, <3>6 DEF Unowned, NobodyReads
  <2>6. CASE DiscardEnds
    <3>1. /\ UNCHANGED peer /\ got' = [got EXCEPT ![Poller] = <<>>]
          /\ Enters(Poller) \/ FailsOutside(Poller)
      BY <2>6 DEF DiscardEnds
    <3>2. QED BY <1>0, <1>3, <2>1, <3>1
  <2>7. QED BY <1>11, <2>3, <2>4, <2>5, <2>6 DEF ConnectStep
<1>12. CASE SetsUpAgain
  <2>1. NobodyReads /\ UNCHANGED pc
    BY <1>0, <1>12 DEF SetsUpAgain, CallInv, ReaderInv, LifeInv, NobodyReads
  <2>2. Unowned'
    BY <1>12 DEF SetsUpAgain, Unowned
  <2>3. QED BY <1>4, <2>1, <2>2 DEF NobodyReads
<1>13. CASE MatrixStep \/ Broadcast \/ LinkGoes \/ UnloadStarts
  <2>1. UNCHANGED <<pc, got>>
    BY <1>13 DEF MatrixStep, MatrixTakes, MatrixSends, Broadcast, LinkGoes, UnloadStarts,
       calls
  <2>2. NobodyReads' => Unowned'
    BY <1>0, <1>13, <2>1, MatrixUnowned DEF Exchanges, NobodyReads
  <2>3. \A t \in Tasks : pc'[t] = "reading" => Exchange(t)'
    BY <1>13, <2>1, MatrixExchange
  <2>4. QED BY <2>2, <2>3 DEF Exchanges
<1>14. CASE UnloadEnds \/ UNCHANGED sessionVars
  BY <1>1, <1>14 DEF UnloadEnds, sessionVars, calls, peer
<1>15. QED BY <1>7, <1>8, <1>9, <1>10, <1>11, <1>12, <1>13, <1>14, <1>18 DEF SessionNext

(* A call that succeeds has its reply, and keeps it until the next begins. *)
LEMMA RepliesStep ==
    ASSUME ~SplitBanners, CallInv, [SessionNext]_sessionVars
    PROVE  RepliesAreClean'
<1>0. /\ Poller \in Tasks /\ Users \subseteq Tasks
      /\ pc \in [Tasks -> {"idle", "opening", "discarding",
                           "waiting", "draining", "reading", "straying"}]
      /\ got \in [Tasks -> Seq(Line)]
      /\ outcome \in [Tasks -> {"none", "ok", "failed", "cancelled"}]
      /\ \A t \in Tasks : outcome[t] = "ok" => got[t] = OwnReply(t) /\ pc[t] = "idle"
  BY DEF Tasks, CallInv, SessionInv, SessionTypeOK, RepliesAreClean, OpenCalls, OwnReply
<1>1. ASSUME \A t \in Tasks : outcome'[t] = "ok" =>
                 (outcome[t] = "ok" /\ got'[t] = got[t]) \/ got'[t] = OwnReply(t)
      PROVE  RepliesAreClean'
  BY <1>0, <1>1 DEF RepliesAreClean, OwnReply
<1>2. ASSUME NEW t \in Tasks, Ends(t, "failed") \/ FailsOutside(t), UNCHANGED got
      PROVE  RepliesAreClean'
  BY <1>0, <1>1, <1>2 DEF Ends, FailsOutside
<1>3. ASSUME NEW t \in Tasks, UNCHANGED outcome \/ outcome' = [outcome EXCEPT ![t] = "none"]
                              \/ outcome' = [outcome EXCEPT ![t] = "failed"]
                              \/ outcome' = [outcome EXCEPT ![t] = "cancelled"],
             UNCHANGED got \/ (pc[t] # "idle" /\ got' = [got EXCEPT ![t] = got'[t]])
      PROVE  RepliesAreClean'
  BY <1>0, <1>1, <1>3
<1>4. CASE PollStarts
  BY <1>0, <1>2, <1>3, <1>4 DEF PollStarts
<1>5. ASSUME NEW t \in Users, CommandStarts(t) PROVE RepliesAreClean'
  BY <1>0, <1>2, <1>3, <1>5 DEF CommandStarts
<1>6. ASSUME NEW t \in Tasks, TaskStep(t) PROVE RepliesAreClean'
  <2>1. CASE Acquires(t)
    BY <1>2, <1>3, <2>1 DEF Acquires
  <2>2. CASE DrainReads(t)
    BY <1>3, <2>2 DEF DrainReads, calls
  <2>3. CASE DrainEnds(t)
    <3>1. CASE Ends(t, "failed") /\ UNCHANGED got
      BY <1>2, <3>1
    <3>2. CASE got' = [got EXCEPT ![t] = <<>>] /\ UNCHANGED outcome
      <4>1. got' = [got EXCEPT ![t] = got'[t]] /\ pc[t] # "idle"
        BY <1>0, <2>3, <3>2 DEF DrainEnds
      <4>2. QED BY <1>3, <3>2, <4>1
    <3>3. QED BY <2>3, <3>1, <3>2 DEF DrainEnds, Writes
  <2>4. ASSUME NEW n \in 1 .. Len(inbound), ReadChunk(t, n) PROVE RepliesAreClean'
    <3>1. Reading(t) /\ pc[t] # "idle"
      BY <2>4 DEF ReadChunk, Reading
    <3>2. CASE got' = [got EXCEPT ![t] = OwnReply(t)] /\ Ends(t, "ok")
      BY <1>0, <1>1, <3>2 DEF Ends
    <3>3. CASE pc[t] = "reading"
      <4>1. \/ got' = [got EXCEPT ![t] = got'[t]] /\ UNCHANGED outcome
            \/ got' = [got EXCEPT ![t] = OwnReply(t)] /\ Ends(t, "ok")
        BY <2>4, <3>3, ReadsItsReply
      <4>2. QED BY <1>3, <3>1, <3>2, <4>1
    <3>4. CASE pc[t] = "straying"
      <4>1. /\ got' = [got EXCEPT ![t] = got'[t]]
            /\ UNCHANGED outcome \/ outcome' = [outcome EXCEPT ![t] = "cancelled"]
        BY <2>4, <3>4, ReadsAnyReply DEF Ends
      <4>2. QED BY <1>3, <3>1, <4>1
    <3>5. QED BY <3>1, <3>3, <3>4 DEF Reading
  <2>5. CASE ReadFails(t) \/ ReadTimesOut(t)
    BY <1>2, <2>5 DEF ReadFails, ReadTimesOut
  <2>6. QED BY <1>6, <2>1, <2>2, <2>3, <2>4, <2>5 DEF TaskStep
<1>7. CASE ConnectStep
  <2>1. pc[Poller] # "idle"
    BY <1>7 DEF ConnectStep, Opens, Refused, DiscardReads, DiscardEnds
  <2>2. CASE Opens \/ (\E n \in 1 .. Len(inbound) : DiscardReads(n))
    <3>1. UNCHANGED outcome /\ got' = [got EXCEPT ![Poller] = got'[Poller]]
      BY <1>0, <2>2 DEF Opens, DiscardReads
    <3>2. QED BY <1>0, <1>3, <2>1, <3>1
  <2>3. CASE Refused
    BY <1>0, <1>2, <2>3 DEF Refused
  <2>4. CASE DiscardEnds
    <3>1. got' = [got EXCEPT ![Poller] = got'[Poller]]
      BY <1>0, <2>4 DEF DiscardEnds
    <3>2. UNCHANGED outcome \/ outcome' = [outcome EXCEPT ![Poller] = "failed"]
      BY <2>4 DEF DiscardEnds, FailsOutside
    <3>3. QED BY <1>0, <1>3, <2>1, <3>1, <3>2
  <2>5. QED BY <1>7, <2>2, <2>3, <2>4 DEF ConnectStep
<1>8. CASE SetsUpAgain
  BY <1>0, <1>3, <1>8 DEF SetsUpAgain
<1>9. CASE UnloadStarts \/ UnloadEnds \/ MatrixStep \/ Broadcast \/ LinkGoes
           \/ UNCHANGED sessionVars
  BY <1>0, <1>3, <1>9 DEF UnloadStarts, UnloadEnds, MatrixStep, MatrixTakes, MatrixSends,
     Broadcast, LinkGoes, sessionVars, calls
<1>10. ASSUME NEW t \in Users, Cancelled(t) PROVE RepliesAreClean'
  BY <1>0, <1>2, <1>3, <1>10 DEF Cancelled
<1>12. ASSUME NEW t \in Users, DrainCancelled(t) PROVE RepliesAreClean'
  <2>1. t \in Tasks /\ pc[t] # "idle"
    BY <1>0, <1>12 DEF DrainCancelled
  <2>2. CASE Ends(t, "failed") /\ UNCHANGED got
    BY <1>2, <2>1, <2>2
  <2>3. CASE got' = [got EXCEPT ![t] = <<>>] /\ UNCHANGED outcome
    <3>1. got' = [got EXCEPT ![t] = got'[t]]
      BY <1>0, <2>1, <2>3
    <3>2. QED BY <1>3, <2>1, <2>3, <3>1
  <2>4. QED BY <1>12, <2>2, <2>3 DEF DrainCancelled, Writes
<1>11. QED BY <1>4, <1>5, <1>6, <1>7, <1>8, <1>9, <1>10, <1>12 DEF SessionNext

(* No call has begun at first.                                             *)
LEMMA CallInvStarts == SessionInit => CallInv
<1> SUFFICES ASSUME SessionInit PROVE CallInv
  OBVIOUS
<1>1. ReaderInv /\ SessionInv
  BY SessionStarts
<1>2. DeadStream /\ OpenCalls /\ RepliesAreClean
  BY DEF SessionInit, DeadStream, OpenCalls, RepliesAreClean
<1>3. FreshBuffer /\ Exchanges
  BY DEF SessionInit, FreshBuffer, Exchanges, Unowned
<1>4. QED BY <1>1, <1>2, <1>3 DEF CallInv

(* The whole invariant is inductive.                                       *)
LEMMA CallInvStep ==
    ASSUME ~SplitBanners, ~LateReplies, CallInv, [SessionNext]_sessionVars
    PROVE  CallInv'
<1>1. ReaderInv' /\ SessionInv'
  BY SessionInvStep DEF CallInv
<1>2. DeadStream' /\ OpenCalls' /\ FreshBuffer'
  BY DeadStreamStep, OpenCallsStep, FreshBufferStep DEF CallInv, SessionInv
<1>3. Exchanges' /\ RepliesAreClean'
  BY ExchangesStep, RepliesStep
<1>4. QED BY <1>1, <1>2, <1>3 DEF CallInv

(* A call that succeeds returns the whole reply to its own command and     *)
(* nothing else (tcp.py:45-49, 202-212, 269-338), as long as no banner is  *)
(* cut and nothing of an abandoned call comes late.                        *)
THEOREM RepliesAreTheirOwn ==
    ~SplitBanners /\ ~LateReplies => (SessionSpec => []RepliesAreClean)
<1> SUFFICES ASSUME ~SplitBanners, ~LateReplies PROVE SessionSpec => []RepliesAreClean
  OBVIOUS
<1>1. SessionInit => CallInv
  BY CallInvStarts
<1>2. CallInv /\ [SessionNext]_sessionVars => CallInv'
  BY CallInvStep
<1>3. CallInv => RepliesAreClean
  BY DEF CallInv
<1>4. QED BY <1>1, <1>2, <1>3, PTL DEF SessionSpec
-----------------------------------------------------------------------------
\* The refinement of RequestReply.

\* An abandoned command is still to be obeyed.
StrayWaits == OwnIn(Nobody, inbox)

(* What a task that reads nothing shows of its call.                       *)
LEMMA PhaseOutside ==
    ASSUME NEW t \in Tasks, SessionTypeOK, pc[t] # "reading"
    PROVE  /\ pc[t] = "idle" => Phase(t) = IF outcome[t] = "cancelled" THEN "failed"
                                           ELSE outcome[t]
           /\ pc[t] = "straying" => Phase(t) = "failed"
           /\ pc[t] \in {"opening", "discarding"} => Phase(t) = "none"
           /\ pc[t] \in {"waiting", "draining"} => Phase(t) = "calling"
           /\ Phase(t) \in {"none", "ok", "failed", "calling"}
BY DEF Phase, SessionTypeOK

(* What a task has got of its reply is its own.                            *)
LEMMA OwnPrefix ==
    ASSUME NEW t \in Tasks, NEW g \in 0 .. Len(OwnReply(t))
    PROVE  OwnIn(t, SubSeq(OwnReply(t), 1, g)) <=> 0 < g
<1>1. /\ OwnReply(t) \in Seq(Line) /\ Len(OwnReply(t)) \in Nat
      /\ \A k \in 1 .. Len(OwnReply(t)) : OwnReply(t)[k].of = t
  BY OwnReplyLines
<1>2. /\ SubSeq(OwnReply(t), 1, g) \in Seq(Line) /\ Len(SubSeq(OwnReply(t), 1, g)) = g
      /\ \A k \in 1 .. g : SubSeq(OwnReply(t), 1, g)[k] = OwnReply(t)[k]
  BY <1>1, TwoParts
<1>3. DOMAIN SubSeq(OwnReply(t), 1, g) = 1 .. g
  BY <1>2
<1>4. \A k \in 1 .. g : SubSeq(OwnReply(t), 1, g)[k].of = t
  BY <1>1, <1>2
<1>5. (0 < g => 1 \in 1 .. g) /\ ((\E k \in 1 .. g : TRUE) => 0 < g)
  OBVIOUS
<1>6. QED BY <1>3, <1>4, <1>5 DEF OwnIn

(* What a task that reads shows of its call: whether its command waits,    *)
(* its reply has begun, or both are gone with the link.                    *)
LEMMA PhaseInside ==
    ASSUME SessionTypeOK, NEW t \in Tasks, pc[t] = "reading",
           NEW m \in 0 .. Len(OwnReply(t)), NEW g \in 0 .. m, ExchangeAt(t, g, m)
    PROVE  /\ Phase(t) = IF inbox # <<>> THEN "calling"
                         ELSE IF replying # <<>> \/ 0 < m THEN "served" ELSE "lost"
           /\ ~StrayWaits
<1>1. /\ OwnIn(t, inbox) <=> inbox # <<>>
      /\ OwnIn(t, replying) <=> replying # <<>>
      /\ OwnIn(t, inbound) <=> g < m
      /\ OwnIn(t, got[t]) <=> 0 < g
      /\ ~OwnIn(Nobody, inbox)
  BY ExchangeOwners
<1>2. 0 < m <=> g < m \/ 0 < g
  BY OwnReplyLines
<1>3. QED BY <1>1, <1>2 DEF Phase, StrayWaits

\* A step of RequestReply, in the terms of the session.
AbstractStep == [Abstract!RequestReplyNext]_(Abstract!callVars)
OthersKeep(t) == \A u \in Tasks : u # t => Phase(u)' = Phase(u)

(* When one task alone moves, its phase is all that changes.               *)
LEMMA PhaseOnly ==
    ASSUME NEW t \in Tasks, OthersKeep(t)
    PROVE  [u \in Tasks |-> Phase(u)]' = [[u \in Tasks |-> Phase(u)] EXCEPT ![t] = Phase(t)']
BY DEF OthersKeep

(* The steps of the promise, as they show in the phases.                   *)
LEMMA AbstractSteps ==
    ASSUME NEW t \in Tasks, OthersKeep(t)
    PROVE  /\ Phase(t)' = Phase(t) /\ StrayWaits' = StrayWaits => AbstractStep
           /\ /\ Phase(t) \in {"none", "ok", "failed"}
              /\ Phase(t)' \in {"calling", "failed"} /\ StrayWaits' = StrayWaits
              => AbstractStep
           /\ /\ Phase(t) \in {"none", "ok", "failed"}
              /\ Phase(t)' = "none" /\ (StrayWaits' = StrayWaits \/ ~StrayWaits')
              => AbstractStep
           /\ /\ Phase(t) = "calling" /\ Phase(t)' = "served" /\ ~StrayWaits
              /\ (\A u \in Tasks : Phase(u) # "served") /\ ~StrayWaits'
              => AbstractStep
           /\ /\ Phase(t) = "served" /\ Phase(t)' = "ok" /\ StrayWaits' = StrayWaits
              => AbstractStep
           /\ /\ Phase(t) \in {"calling", "served", "lost"} /\ Phase(t)' = "failed"
              /\ StrayWaits' = StrayWaits \/ (Phase(t) = "calling" /\ StrayWaits')
              => AbstractStep
           /\ /\ Phase(t)' = Phase(t) \/ (Phase(t) \in {"calling", "served"} /\ Phase(t)' = "lost")
              /\ ~StrayWaits'
              => AbstractStep
           /\ /\ Phase(t)' = Phase(t) /\ StrayWaits /\ ~StrayWaits'
              /\ \A u \in Tasks : Phase(u) # "served"
              => AbstractStep
<1> DEFINE ph == [u \in Tasks |-> Phase(u)]
<1>1. ph' = [ph EXCEPT ![t] = Phase(t)']
  BY PhaseOnly
<1>2. ph \in [Tasks -> {Phase(u) : u \in Tasks}] /\ \A u \in Tasks : ph[u] = Phase(u)
  OBVIOUS
<1>3. StrayWaits \in BOOLEAN /\ StrayWaits' \in BOOLEAN
  BY DEF StrayWaits, OwnIn
<1>4. ASSUME \/ Abstract!Call(t) \/ Abstract!Reject(t) \/ Abstract!Serve(t)
             \/ Abstract!Return(t) \/ Abstract!Fail(t) \/ Abstract!Reset(t)
             \/ Abstract!ServeStray \/ Abstract!LoseLink
      PROVE  AbstractStep
  BY <1>4 DEF AbstractStep, Abstract!RequestReplyNext
<1>5. Phase(t)' = Phase(t) => ph' = ph
  BY <1>1, <1>2
<1>6. Phase(t)' = Phase(t) /\ StrayWaits' = StrayWaits => AbstractStep
  BY <1>5 DEF AbstractStep, Abstract!callVars, StrayWaits
<1>7. /\ Phase(t) \in {"none", "ok", "failed"}
      /\ Phase(t)' = "calling" /\ StrayWaits' = StrayWaits
      => Abstract!Call(t)
  BY <1>1, <1>2 DEF Abstract!Call, Abstract!InCall, StrayWaits
<1>8. /\ Phase(t) \in {"none", "ok", "failed"}
      /\ Phase(t)' = "failed" /\ StrayWaits' = StrayWaits
      => Abstract!Reject(t)
  BY <1>1, <1>2 DEF Abstract!Reject, Abstract!InCall, StrayWaits
<1>9. /\ Phase(t) \in {"none", "ok", "failed"}
      /\ Phase(t)' = "none" /\ (StrayWaits' = StrayWaits \/ ~StrayWaits')
      => Abstract!Reset(t)
  BY <1>1, <1>2, <1>3 DEF Abstract!Reset, Abstract!InCall, StrayWaits
<1>10. /\ Phase(t) = "calling" /\ Phase(t)' = "served" /\ ~StrayWaits
       /\ (\A u \in Tasks : Phase(u) # "served") /\ ~StrayWaits'
       => Abstract!Serve(t)
  BY <1>1, <1>2, <1>3 DEF Abstract!Serve, StrayWaits
<1>11. Phase(t) = "served" /\ Phase(t)' = "ok" /\ StrayWaits' = StrayWaits
       => Abstract!Return(t)
  BY <1>1, <1>2 DEF Abstract!Return, StrayWaits
<1>12. /\ Phase(t) \in {"calling", "served", "lost"} /\ Phase(t)' = "failed"
       /\ StrayWaits' = StrayWaits \/ (Phase(t) = "calling" /\ StrayWaits')
       => Abstract!Fail(t)
  BY <1>1, <1>2, <1>3 DEF Abstract!Fail, Abstract!InCall, StrayWaits
<1>13. /\ \/ Phase(t)' = Phase(t)
          \/ Phase(t) \in {"calling", "served"} /\ Phase(t)' = "lost"
       /\ ~StrayWaits'
       => Abstract!LoseLink
  BY <1>1, <1>2, <1>3, <1>5 DEF Abstract!LoseLink, StrayWaits
<1>14. /\ Phase(t)' = Phase(t) /\ StrayWaits /\ ~StrayWaits'
       /\ \A u \in Tasks : Phase(u) # "served"
       => Abstract!ServeStray
  BY <1>2, <1>3, <1>5 DEF Abstract!ServeStray, StrayWaits
<1>15. QED
  BY <1>4, <1>6, <1>7, <1>8, <1>9, <1>10, <1>11, <1>12, <1>13, <1>14

(* Every step of the session is a step of RequestReply, or shows nothing   *)
(* of itself there.                                                        *)
LEMMA PromiseStep ==
    ASSUME ~SplitBanners, ~LateReplies, CallInv, [SessionNext]_sessionVars
    PROVE  AbstractStep
<1>0. /\ Poller \in Tasks /\ Users \subseteq Tasks /\ \A t \in Tasks : t \in Users \/ t = Poller
      /\ pc \in [Tasks -> {"idle", "opening", "discarding",
                           "waiting", "draining", "reading", "straying"}]
      /\ got \in [Tasks -> Seq(Line)]
      /\ outcome \in [Tasks -> {"none", "ok", "failed", "cancelled"}]
      /\ inbound \in Seq(Line) /\ inbox \in Seq(Command) /\ replying \in Seq(Line)
      /\ SessionTypeOK /\ ReaderInv /\ Exchanges /\ DeadStream
  BY DEF Tasks, CallInv, SessionInv, SessionTypeOK, Command
<1>1. ASSUME NEW t \in Tasks,
             pc' = [pc EXCEPT ![t] = pc'[t]],
             outcome' = [outcome EXCEPT ![t] = outcome'[t]],
             got' = [got EXCEPT ![t] = got'[t]],
             UNCHANGED <<inbound, inbox, replying>>
                 \/ \A u \in Tasks : u # t => pc[u] # "reading"
      PROVE  OthersKeep(t)
  <2>1. ASSUME NEW u \in Tasks, u # t PROVE Phase(u)' = Phase(u)
    <3>1. pc'[u] = pc[u] /\ outcome'[u] = outcome[u] /\ got'[u] = got[u]
      BY <1>0, <1>1, <2>1
    <3>2. CASE pc[u] # "reading"
      BY <3>1, <3>2 DEF Phase
    <3>3. CASE UNCHANGED <<inbound, inbox, replying>>
      BY <3>1, <3>3 DEF Phase
    <3>4. QED BY <1>1, <2>1, <3>2, <3>3
  <2>2. QED BY <2>1 DEF OthersKeep
<1>2. ASSUME NEW t \in Tasks
      PROVE  /\ pc'[t] = "idle" /\ outcome'[t] # "cancelled" => Phase(t)' = outcome'[t]
             /\ pc'[t] = "idle" /\ outcome'[t] = "cancelled" => Phase(t)' = "failed"
             /\ pc'[t] = "straying" => Phase(t)' = "failed"
             /\ pc'[t] \in {"opening", "discarding"} => Phase(t)' = "none"
             /\ pc'[t] \in {"waiting", "draining"} => Phase(t)' = "calling"
  BY DEF Phase
<1>3. ASSUME NEW t \in Tasks, OnTheWire(t)
      PROVE  \A u \in Tasks : u # t => pc[u] # "reading"
  BY <1>0, <1>3, OnlyHolderReads
<1>4. UNCHANGED inbox => StrayWaits' = StrayWaits
  BY DEF StrayWaits, OwnIn
\* A call begins, or is refused before it does.
<1>5. ASSUME NEW t \in Tasks, pc[t] \in {"idle", "opening", "discarding"}, UNCHANGED peer,
             UNCHANGED got \/ got' = [got EXCEPT ![t] = <<>>],
             \/ Enters(t) /\ (UNCHANGED outcome \/ outcome' = [outcome EXCEPT ![t] = "none"])
             \/ FailsOutside(t)
      PROVE  AbstractStep
  <2>1. /\ pc' = [pc EXCEPT ![t] = pc'[t]] /\ outcome' = [outcome EXCEPT ![t] = outcome'[t]]
        /\ \/ pc'[t] \in {"waiting", "draining"}
           \/ pc'[t] = "idle" /\ outcome'[t] = "failed"
    BY <1>0, <1>5 DEF Enters, FailsOutside
  <2>2. got' = [got EXCEPT ![t] = got'[t]]
    BY <1>0, <1>5
  <2>3. OthersKeep(t)
    BY <1>1, <1>5, <2>1, <2>2 DEF peer
  <2>4. Phase(t)' \in {"calling", "failed"} /\ Phase(t) \in {"none", "ok", "failed"}
    BY <1>0, <1>2, <1>5, <2>1, PhaseOutside
  <2>5. StrayWaits' = StrayWaits
    BY <1>4, <1>5 DEF peer
  <2>6. QED BY <2>3, <2>4, <2>5, AbstractSteps
\* A call fails.
<1>6. ASSUME NEW t \in Tasks, Phase(t) \in {"calling", "served", "lost"},
             Ends(t, "failed") \/ /\ pc' = [pc EXCEPT ![t] = "idle"]
                                  /\ outcome' = [outcome EXCEPT ![t] = "failed"],
             UNCHANGED got,
             UNCHANGED <<inbound, inbox, replying>>
                 \/ \A u \in Tasks : u # t => pc[u] # "reading",
             StrayWaits' = StrayWaits \/ (Phase(t) = "calling" /\ StrayWaits')
      PROVE  AbstractStep
  <2>1. /\ pc' = [pc EXCEPT ![t] = pc'[t]] /\ outcome' = [outcome EXCEPT ![t] = outcome'[t]]
        /\ pc'[t] = "idle" /\ outcome'[t] = "failed"
    BY <1>0, <1>6 DEF Ends
  <2>2. got' = [got EXCEPT ![t] = got'[t]]
    BY <1>0, <1>6
  <2>3. OthersKeep(t)
    BY <1>1, <1>6, <2>1, <2>2
  <2>4. Phase(t)' = "failed"
    BY <1>2, <2>1
  <2>5. QED BY <1>6, <2>3, <2>4, AbstractSteps
\* A call whose reply is awaited no longer.
<1>7. ASSUME NEW t \in Tasks, pc[t] = "reading", Ends(t, "failed"), GiveUp(t), UNCHANGED got
      PROVE  AbstractStep
  <2>1. PICK m \in 0 .. Len(OwnReply(t)) : \E g \in 0 .. m : ExchangeAt(t, g, m)
    BY <1>0, <1>7 DEF Exchanges, Exchange
  <2>2. PICK g \in 0 .. m : ExchangeAt(t, g, m)
    BY <2>1
  <2>3. /\ Phase(t) = IF inbox # <<>> THEN "calling"
                      ELSE IF replying # <<>> \/ 0 < m THEN "served" ELSE "lost"
        /\ ~StrayWaits
    BY <1>0, <1>7, <2>2, PhaseInside
  <2>4. /\ Disowned(t, inbox) \in Seq(Command) /\ Len(inbox') = Len(inbox)
        /\ inbox' = Disowned(t, inbox)
        /\ \A k \in 1 .. Len(inbox) : inbox'[k].of = IF inbox[k].of = t THEN Nobody
                                                     ELSE inbox[k].of
    BY ZenonT(30), <1>0, <1>7, DisownedCommands DEF GiveUp
  <2>5. StrayWaits' <=> inbox # <<>>
    <3>1. \A k \in 1 .. Len(inbox) : inbox[k].of = t
      BY <1>0, <2>2, ExchangeOwners
    <3>2. \A k \in DOMAIN inbox' : inbox'[k].of = Nobody
      BY <2>4, <3>1
    <3>3. DOMAIN inbox' = 1 .. Len(inbox) /\ (inbox # <<>> <=> 1 \in 1 .. Len(inbox))
      BY <1>0, <2>4
    <3>4. \A n \in Nat : (\E k \in 1 .. n : TRUE) <=> 1 \in 1 .. n
      OBVIOUS
    <3>5. Len(inbox) \in Nat
      BY <1>0
    <3>6. (\E k \in DOMAIN inbox' : TRUE) <=> inbox # <<>>
      BY <3>3, <3>4, <3>5
    <3>7. QED BY <3>2, <3>6 DEF StrayWaits, OwnIn
  <2>6. StrayWaits' = StrayWaits \/ (Phase(t) = "calling" /\ StrayWaits')
    <3>1. StrayWaits \in BOOLEAN /\ StrayWaits' \in BOOLEAN
      BY DEF StrayWaits, OwnIn
    <3>2. QED BY <2>3, <2>5, <3>1
  <2>7. Phase(t) \in {"calling", "served", "lost"}
    BY <2>3
  <2>8. QED BY <1>3, <1>6, <1>7, <2>6, <2>7 DEF OnTheWire
\* Nothing of it shows.
<1>8. ASSUME NEW t \in Tasks, OthersKeep(t), Phase(t)' = Phase(t), StrayWaits' = StrayWaits
      PROVE  AbstractStep
  BY <1>8, AbstractSteps
\* A call that strays goes on, or ends: it has failed in either case.
<1>31. ASSUME NEW t \in Tasks, pc[t] = "straying",
              UNCHANGED <<pc, outcome>> \/ Ends(t, "failed") \/ Ends(t, "cancelled"),
              got' = [got EXCEPT ![t] = got'[t]], StrayWaits' = StrayWaits
       PROVE  AbstractStep
  <2>1. /\ pc' = [pc EXCEPT ![t] = pc'[t]] /\ outcome' = [outcome EXCEPT ![t] = outcome'[t]]
        /\ \/ pc'[t] = "straying"
           \/ pc'[t] = "idle" /\ outcome'[t] \in {"failed", "cancelled"}
    BY <1>0, <1>31 DEF Ends
  <2>2. OthersKeep(t)
    BY <1>1, <1>3, <1>31, <2>1 DEF OnTheWire
  <2>3. Phase(t)' = "failed"
    BY <1>2, <2>1
  <2>4. Phase(t) = "failed"
    BY <1>0, <1>31, PhaseOutside
  <2>5. QED BY <1>8, <1>31, <2>2, <2>3, <2>4
\* What it gives up is nobody's already.
<1>32. ASSUME NEW t \in Tasks, pc[t] = "straying", GiveUp(t)
       PROVE  StrayWaits' = StrayWaits
  <2>1. \A k \in DOMAIN inbox : inbox[k].of = Nobody
    BY <1>32, NothingAwaited DEF Unowned
  <2>2. /\ Len(inbox') = Len(inbox) /\ inbox' \in Seq(Command)
        /\ \A k \in 1 .. Len(inbox) : inbox'[k].of = IF inbox[k].of = t THEN Nobody
                                                     ELSE inbox[k].of
    BY ZenonT(30), <1>0, <1>32, DisownedCommands DEF GiveUp
  <2>3. DOMAIN inbox' = DOMAIN inbox /\ DOMAIN inbox = 1 .. Len(inbox)
    BY <1>0, <2>2
  <2>4. \A k \in DOMAIN inbox' : inbox'[k].of = Nobody
    BY <2>1, <2>2, <2>3
  <2>5. QED BY <2>1, <2>3, <2>4 DEF StrayWaits, OwnIn
<1>9. CASE PollStarts
  <2>1. UNCHANGED <<peer, got>> /\ pc[Poller] = "idle"
    BY <1>9 DEF PollStarts
  <2>2. CASE FailsOutside(Poller)
    BY <1>0, <1>5, <2>1, <2>2
  <2>3. CASE Enters(Poller) /\ outcome' = [outcome EXCEPT ![Poller] = "none"]
    BY <1>0, <1>5, <2>1, <2>3
  <2>4. CASE /\ pc' = [pc EXCEPT ![Poller] = "opening"]
             /\ outcome' = [outcome EXCEPT ![Poller] = "none"]
    <3>1. /\ pc' = [pc EXCEPT ![Poller] = pc'[Poller]]
          /\ outcome' = [outcome EXCEPT ![Poller] = outcome'[Poller]]
          /\ got' = [got EXCEPT ![Poller] = got'[Poller]] /\ pc'[Poller] = "opening"
      BY <1>0, <2>1, <2>4
    <3>2. OthersKeep(Poller)
      BY <1>0, <1>1, <2>1, <3>1 DEF peer
    <3>3. Phase(Poller)' = "none" /\ Phase(Poller) \in {"none", "ok", "failed"}
      BY <1>0, <1>2, <2>1, <3>1, PhaseOutside
    <3>4. StrayWaits' = StrayWaits
      BY <1>4, <2>1 DEF peer
    <3>5. QED BY <1>0, <3>2, <3>3, <3>4, AbstractSteps
  <2>5. QED BY <1>9, <2>2, <2>3, <2>4 DEF PollStarts
<1>10. ASSUME NEW t \in Users, CommandStarts(t) PROVE AbstractStep
  <2>1. /\ t \in Tasks /\ UNCHANGED <<peer, got>> /\ pc[t] = "idle"
        /\ \/ FailsOutside(t)
           \/ Enters(t) /\ outcome' = [outcome EXCEPT ![t] = "none"]
    BY <1>0, <1>10 DEF CommandStarts
  <2>2. QED BY <1>5, <2>1
<1>11. ASSUME NEW t \in Tasks, Acquires(t) PROVE AbstractStep
  <2>1. pc[t] = "waiting" /\ UNCHANGED <<peer, got>> /\ Phase(t) = "calling"
        /\ StrayWaits' = StrayWaits
    BY <1>0, <1>4, <1>11, PhaseOutside DEF Acquires, peer
  <2>2. CASE Ends(t, "failed")
    BY <1>6, <2>1, <2>2 DEF peer
  <2>3. CASE pc' = [pc EXCEPT ![t] = "draining"] /\ UNCHANGED outcome
    <3>1. /\ pc' = [pc EXCEPT ![t] = pc'[t]] /\ outcome' = [outcome EXCEPT ![t] = outcome'[t]]
          /\ got' = [got EXCEPT ![t] = got'[t]] /\ pc'[t] = "draining"
      BY <1>0, <2>1, <2>3
    <3>2. OthersKeep(t) /\ Phase(t)' = "calling"
      BY <1>1, <1>2, <2>1, <3>1 DEF peer
    <3>3. QED BY <1>8, <2>1, <3>2
  <2>4. QED BY <1>11, <2>2, <2>3 DEF Acquires
<1>12. ASSUME NEW t \in Tasks, DrainReads(t) PROVE AbstractStep
  <2>1. pc[t] = "draining" /\ UNCHANGED <<pc, outcome, got, inbox>>
    BY <1>12 DEF DrainReads, calls
  <2>2. OthersKeep(t)
    BY <1>0, <1>1, <1>3, <2>1 DEF OnTheWire
  <2>3. Phase(t)' = Phase(t)
    BY <2>1 DEF Phase
  <2>4. QED BY <1>4, <1>8, <2>1, <2>2, <2>3
<1>13. ASSUME NEW t \in Tasks, DrainEnds(t) PROVE AbstractStep
  <2>1. /\ pc[t] = "draining" /\ inbound = <<>> /\ inbox = <<>> /\ replying = <<>>
        /\ UNCHANGED <<socket, inbound, replying>> /\ Phase(t) = "calling"
    BY <1>0, <1>13, PhaseOutside DEF DrainEnds
  <2>2. CASE Ends(t, "failed") /\ UNCHANGED <<got, inbox>>
    <3>1. StrayWaits' = StrayWaits
      BY <1>4, <2>2
    <3>2. QED BY <1>6, <2>1, <2>2, <3>1
  <2>3. CASE /\ inbox' = IF socket = "open" THEN Append(inbox, CommandOf(t)) ELSE inbox
             /\ pc' = [pc EXCEPT ![t] = "reading"] /\ got' = [got EXCEPT ![t] = <<>>]
             /\ UNCHANGED outcome
    <3>1. /\ pc' = [pc EXCEPT ![t] = pc'[t]] /\ outcome' = [outcome EXCEPT ![t] = outcome'[t]]
          /\ got' = [got EXCEPT ![t] = got'[t]] /\ pc'[t] = "reading" /\ got'[t] = <<>>
      BY <1>0, <2>3
    <3>2. OthersKeep(t)
      BY <1>1, <1>3, <2>1, <3>1 DEF OnTheWire
    <3>3. CASE inbox' = <<CommandOf(t)>>
      <4>1. DOMAIN inbox' = {1} /\ inbox'[1].of = t /\ t # Nobody
        BY <3>3, SessionAssumption DEF CommandOf
      <4>2. Phase(t)' = "calling"
        BY <3>1, <4>1 DEF Phase, OwnIn
      <4>3. ~StrayWaits' /\ ~StrayWaits
        BY <2>1, <4>1 DEF StrayWaits, OwnIn
      <4>4. StrayWaits' = StrayWaits
        BY <4>3 DEF StrayWaits, OwnIn
      <4>5. QED BY <1>8, <2>1, <3>2, <4>2, <4>4
    <3>4. CASE inbox' = <<>>
      <4>1. Phase(t)' = "lost"
        BY <2>1, <3>1, <3>4 DEF Phase, OwnIn
      <4>2. ~StrayWaits'
        BY <3>4 DEF StrayWaits, OwnIn
      <4>3. QED BY <2>1, <3>2, <4>1, <4>2, AbstractSteps
    <3>5. inbox' = <<CommandOf(t)>> \/ inbox' = <<>>
      BY <2>1, <2>3
    <3>6. QED BY <3>3, <3>4, <3>5
  <2>4. QED BY <1>13, <2>2, <2>3 DEF DrainEnds, Writes
<1>14. ASSUME NEW t \in Tasks, NEW n \in 1 .. Len(inbound), ReadChunk(t, n),
              pc[t] = "reading"
       PROVE  AbstractStep
  <2>1. PICK m \in 0 .. Len(OwnReply(t)) : \E g \in 0 .. m :
            /\ ExchangeAt(t, g, m)
            /\ \/ /\ \E h \in g .. m : ExchangeAt(t, h, m)'
                  /\ got' = [got EXCEPT ![t] = got'[t]]
                  /\ UNCHANGED <<lock, waiters, pc, outcome, entry>>
                  /\ buffer' = <<>>
               \/ /\ g < m /\ m = Len(OwnReply(t))
                  /\ inbox = <<>>
                  /\ got' = [got EXCEPT ![t] = OwnReply(t)]
                  /\ Ends(t, "ok")
                  /\ Unowned'
    BY <1>14, ReadsItsReply
  <2>2. PICK g \in 0 .. m :
            /\ ExchangeAt(t, g, m)
            /\ \/ /\ \E h \in g .. m : ExchangeAt(t, h, m)'
                  /\ got' = [got EXCEPT ![t] = got'[t]]
                  /\ UNCHANGED <<lock, waiters, pc, outcome, entry>>
                  /\ buffer' = <<>>
               \/ /\ g < m /\ m = Len(OwnReply(t))
                  /\ inbox = <<>>
                  /\ got' = [got EXCEPT ![t] = OwnReply(t)]
                  /\ Ends(t, "ok")
                  /\ Unowned'
    BY <2>1
  <2>3. /\ pc[t] = "reading" /\ UNCHANGED <<socket, inbox, replying>>
        /\ inbound' = SubSeq(inbound, n + 1, Len(inbound))
    BY <1>14 DEF ReadChunk
  <2>4. /\ Phase(t) = IF inbox # <<>> THEN "calling"
                      ELSE IF replying # <<>> \/ 0 < m THEN "served" ELSE "lost"
        /\ ~StrayWaits
    BY <1>0, <2>2, <2>3, PhaseInside
  <2>5. StrayWaits' = StrayWaits
    BY <1>4, <2>3
  <2>6. m \in Nat /\ g \in Nat /\ Len(OwnReply(t)) \in Nat
    BY OwnReplyLines
  <2>7. CASE Ends(t, "ok") /\ g < m /\ inbox = <<>> /\ got' = [got EXCEPT ![t] = OwnReply(t)]
    <3>1. /\ pc' = [pc EXCEPT ![t] = pc'[t]] /\ outcome' = [outcome EXCEPT ![t] = outcome'[t]]
          /\ got' = [got EXCEPT ![t] = got'[t]] /\ pc'[t] = "idle" /\ outcome'[t] = "ok"
      BY <1>0, <2>7 DEF Ends
    <3>2. OthersKeep(t)
      BY <1>1, <1>3, <2>3, <3>1 DEF OnTheWire
    <3>3. Phase(t) = "served"
      BY <2>4, <2>6, <2>7
    <3>4. Phase(t)' = "ok"
      BY <1>2, <3>1
    <3>5. QED BY <2>5, <3>2, <3>3, <3>4, AbstractSteps
  <2>8. ASSUME NEW h \in g .. m, ExchangeAt(t, h, m)', got' = [got EXCEPT ![t] = got'[t]],
               UNCHANGED <<pc, outcome>>
        PROVE  AbstractStep
    <3>1. /\ pc' = [pc EXCEPT ![t] = pc'[t]] /\ outcome' = [outcome EXCEPT ![t] = outcome'[t]]
      BY <1>0, <2>8
    <3>2. OthersKeep(t)
      BY <1>1, <1>3, <2>3, <2>8, <3>1 DEF OnTheWire
    <3>3. /\ got'[t] = SubSeq(OwnReply(t), 1, h)
          /\ Carries(inbound', OwnReply(t), h, m)
      BY <2>8 DEF ExchangeAt
    <3>4. inbound' \in Seq(Line)
      <4>1. n \in 0 .. Len(inbound)
        OBVIOUS
      <4>2. QED BY <1>0, <2>3, <4>1, TwoParts
    <3>5. h \in 0 .. m /\ h \in 0 .. Len(OwnReply(t)) /\ m <= Len(OwnReply(t)) /\ h \in Nat
      BY <2>6
    <3>6. OwnIn(t, got'[t]) <=> 0 < h
      BY <3>3, <3>5, OwnPrefix
    <3>7. OwnIn(t, inbound') <=> h < m
      BY <2>6, <3>3, <3>4, <3>5, CarriesOwners
    <3>8. OwnIn(t, inbound') \/ OwnIn(t, got'[t]) <=> 0 < m
      BY <2>6, <3>5, <3>6, <3>7
    <3>9. /\ OwnIn(t, inbox) <=> inbox # <<>>
          /\ OwnIn(t, replying) <=> replying # <<>>
      BY <1>0, <2>2, ExchangeOwners
    <3>10. /\ OwnIn(t, inbox') <=> inbox # <<>>
           /\ OwnIn(t, replying') <=> replying # <<>>
      BY <2>3, <3>9
    <3>11. Phase(t)' = IF inbox # <<>> THEN "calling"
                       ELSE IF replying # <<>> \/ 0 < m THEN "served" ELSE "lost"
      BY <2>3, <2>8, <3>8, <3>10 DEF Phase
    <3>12. QED BY <1>8, <2>4, <2>5, <3>2, <3>11
  <2>9. QED BY <2>2, <2>7, <2>8
<1>33. ASSUME NEW t \in Tasks, NEW n \in 1 .. Len(inbound), ReadChunk(t, n),
              pc[t] = "straying"
       PROVE  AbstractStep
  <2>1. /\ UNCHANGED <<pc, outcome>> \/ Ends(t, "cancelled")
        /\ UNCHANGED inbox /\ got' = [got EXCEPT ![t] = got'[t]]
    BY <1>33, ReadsAnyReply
  <2>2. QED BY <1>4, <1>31, <1>33, <2>1
<1>15. ASSUME NEW t \in Tasks, ReadFails(t) PROVE AbstractStep
  <2>1. /\ Reading(t) /\ inbound = <<>> /\ socket # "open" /\ Ends(t, "failed")
        /\ UNCHANGED <<got, inbound, inbox, replying>>
    BY <1>15 DEF ReadFails, peer
  <2>2. inbox = <<>> /\ replying = <<>>
    BY <1>0, <2>1 DEF DeadStream
  <2>3. CASE pc[t] = "reading"
    <3>1. Phase(t) \in {"served", "lost"}
      BY <2>2, <2>3 DEF Phase, OwnIn
    <3>2. QED BY <1>4, <1>6, <2>1, <3>1
  <2>4. CASE pc[t] = "straying"
    <3>1. got' = [got EXCEPT ![t] = got'[t]]
      BY <1>0, <2>1
    <3>2. QED BY <1>4, <1>31, <2>1, <2>4, <3>1
  <2>5. QED BY <2>1, <2>3, <2>4 DEF Reading
\* A call whose reply, or another one's, is awaited no longer.
<1>34. ASSUME NEW t \in Tasks, Reading(t), Ends(t, "failed"), GiveUp(t), UNCHANGED got
       PROVE  AbstractStep
  <2>1. CASE pc[t] = "straying"
    <3>1. got' = [got EXCEPT ![t] = got'[t]]
      BY <1>0, <1>34
    <3>2. QED BY <1>31, <1>32, <1>34, <2>1, <3>1
  <2>2. QED BY <1>7, <1>34, <2>1 DEF Reading
<1>16. ASSUME NEW t \in Tasks, ReadTimesOut(t) PROVE AbstractStep
  BY <1>16, <1>34 DEF ReadTimesOut
<1>17. ASSUME NEW t \in Users, Cancelled(t) PROVE AbstractStep
  <2>1. t \in Tasks /\ UNCHANGED got
    BY <1>0, <1>17 DEF Cancelled
  <2>2. CASE Reading(t) /\ Ends(t, "failed") /\ GiveUp(t)
    BY <1>34, <2>1, <2>2
  <2>3. CASE /\ pc[t] = "waiting" /\ UNCHANGED <<inbound, inbox, replying>>
             /\ Ends(t, "failed") \/ /\ pc' = [pc EXCEPT ![t] = "idle"]
                                     /\ outcome' = [outcome EXCEPT ![t] = "failed"]
    <3>1. Phase(t) = "calling"
      BY <1>0, <2>1, <2>3, PhaseOutside
    <3>2. QED BY <1>4, <1>6, <2>1, <2>3, <3>1
  <2>4. QED BY <1>17, <2>2, <2>3 DEF Cancelled
\* A drain that is cancelled: the call has failed, whatever it still reads.
<1>35. ASSUME NEW t \in Users, DrainCancelled(t) PROVE AbstractStep
  <2>1. /\ t \in Tasks /\ pc[t] = "draining" /\ Phase(t) = "calling"
        /\ UNCHANGED <<inbound, replying>>
    BY <1>0, <1>35, PhaseOutside DEF DrainCancelled
  <2>2. \A u \in Tasks : u # t => pc[u] # "reading"
    BY <1>3, <2>1 DEF OnTheWire
  <2>3. CASE Ends(t, "failed") /\ UNCHANGED <<got, inbox>>
    BY <1>4, <1>6, <2>1, <2>2, <2>3
  <2>4. CASE /\ inbox' = IF socket = "open" THEN Append(inbox, [by |-> t, of |-> Nobody])
                         ELSE inbox
             /\ pc' = [pc EXCEPT ![t] = "straying"] /\ got' = [got EXCEPT ![t] = <<>>]
             /\ UNCHANGED outcome
    <3>1. /\ pc' = [pc EXCEPT ![t] = pc'[t]] /\ outcome' = [outcome EXCEPT ![t] = outcome'[t]]
          /\ got' = [got EXCEPT ![t] = got'[t]] /\ pc'[t] = "straying"
      BY <1>0, <2>1, <2>4
    <3>2. OthersKeep(t) /\ Phase(t)' = "failed"
      BY <1>1, <1>2, <2>1, <2>2, <3>1
    <3>3. StrayWaits' = StrayWaits \/ StrayWaits'
      <4>1. CASE UNCHANGED inbox
        BY <1>4, <4>1
      <4>2. CASE inbox' = Append(inbox, [by |-> t, of |-> Nobody])
        <5>1. [by |-> t, of |-> Nobody] \in Command
          BY <2>1 DEF Command
        <5>2. /\ inbox' \in Seq(Command) /\ Len(inbox') = Len(inbox) + 1
              /\ inbox'[Len(inbox) + 1] = [by |-> t, of |-> Nobody] /\ Len(inbox) \in Nat
          BY <1>0, <4>2, <5>1, AppendProperties
        <5>3. Len(inbox) + 1 \in DOMAIN inbox' /\ inbox'[Len(inbox) + 1].of = Nobody
          BY <5>2
        <5>4. QED BY <5>3 DEF StrayWaits, OwnIn
      <4>3. QED BY <2>4, <4>1, <4>2
    <3>4. QED BY <2>1, <3>2, <3>3, AbstractSteps
  <2>5. QED BY <1>35, <2>3, <2>4 DEF DrainCancelled, Writes
<1>18. CASE ConnectStep
  <2>1. pc[Poller] \in {"opening", "discarding"}
    BY <1>18 DEF ConnectStep, Opens, Refused, DiscardReads, DiscardEnds
  <2>2. \A u \in Tasks : u # Poller => pc[u] # "reading"
    BY <1>0, <2>1 DEF ReaderInv, LifeInv
  <2>3. CASE Opens \/ (\E n \in 1 .. Len(inbound) : DiscardReads(n))
    <3>1. /\ pc' = [pc EXCEPT ![Poller] = pc'[Poller]]
          /\ pc'[Poller] \in {"opening", "discarding"}
          /\ outcome' = [outcome EXCEPT ![Poller] = outcome'[Poller]]
          /\ got' = [got EXCEPT ![Poller] = got'[Poller]]
          /\ UNCHANGED inbox \/ inbox' = <<>>
      BY <1>0, <2>1, <2>3 DEF Opens, DiscardReads
    <3>2. OthersKeep(Poller) /\ Phase(Poller)' = "none" /\ Phase(Poller) = "none"
      BY <1>0, <1>1, <1>2, <2>1, <2>2, <3>1, PhaseOutside
    <3>3. StrayWaits' = StrayWaits \/ ~StrayWaits'
      BY <1>4, <3>1 DEF StrayWaits, OwnIn
    <3>4. QED BY <1>0, <3>2, <3>3, AbstractSteps
  <2>4. CASE Refused
    BY <1>0, <1>5, <2>1, <2>4 DEF Refused
  <2>5. CASE DiscardEnds
    <3>1. /\ UNCHANGED peer /\ got' = [got EXCEPT ![Poller] = <<>>]
          /\ (Enters(Poller) /\ UNCHANGED outcome) \/ FailsOutside(Poller)
      BY <2>5 DEF DiscardEnds
    <3>2. QED BY <1>0, <1>5, <2>1, <3>1
  <2>6. QED BY <1>18, <2>3, <2>4, <2>5 DEF ConnectStep
<1>19. CASE SetsUpAgain
  <2>1. /\ pc[Poller] = "idle" /\ \A u \in Tasks : u # Poller => pc[u] # "reading"
    BY <1>0, <1>19 DEF SetsUpAgain, ReaderInv, LifeInv
  <2>2. /\ pc' = [pc EXCEPT ![Poller] = pc'[Poller]] /\ pc'[Poller] = "idle"
        /\ outcome' = [outcome EXCEPT ![Poller] = outcome'[Poller]]
        /\ got' = [got EXCEPT ![Poller] = got'[Poller]]
        /\ outcome'[Poller] = "none" /\ inbox' = <<>>
    BY <1>0, <1>19, <2>1 DEF SetsUpAgain
  <2>3. /\ OthersKeep(Poller) /\ Phase(Poller)' = "none"
        /\ Phase(Poller) \in {"none", "ok", "failed"}
    BY <1>0, <1>1, <1>2, <2>1, <2>2, PhaseOutside
  <2>4. ~StrayWaits'
    BY <2>2 DEF StrayWaits, OwnIn
  <2>5. QED BY <1>0, <2>3, <2>4, AbstractSteps
\* The matrix and the link: who reads sees it, the others' phases stay.
<1>20. ASSUME UNCHANGED <<pc, outcome, got>>, NobodyReads
       PROVE  \A t \in Tasks : OthersKeep(t) /\ Phase(t)' = Phase(t)
  <2>1. ASSUME NEW u \in Tasks PROVE Phase(u)' = Phase(u)
    BY <1>20, <2>1 DEF NobodyReads, Phase
  <2>2. QED BY <2>1 DEF OthersKeep
<1>21. ASSUME UNCHANGED <<pc, outcome, got>>, NEW t \in Tasks, pc[t] = "reading"
       PROVE  OthersKeep(t)
  BY <1>0, <1>1, <1>3, <1>21 DEF OnTheWire
<1>22. CASE MatrixTakes
  <2>1. /\ UNCHANGED <<pc, outcome, got, inbound>> /\ inbox # <<>> /\ replying = <<>>
        /\ inbox' = Tail(inbox) /\ replying' = Reply(Head(inbox))
    BY <1>0, <1>22 DEF MatrixTakes, calls
  <2>4. CASE NobodyReads
    <3>1. StrayWaits
      <4>1. 1 \in DOMAIN inbox
        BY <1>0, <2>1, EmptySeq
      <4>2. QED BY <1>0, <2>4, <4>1 DEF Exchanges, Unowned, StrayWaits, OwnIn
    <3>2. \A u \in Tasks : Phase(u) # "served"
      BY <1>0, <2>4, PhaseOutside DEF NobodyReads
    <3>3. StrayWaits' = StrayWaits \/ ~StrayWaits'
      BY <3>1 DEF StrayWaits, OwnIn
    <3>4. OthersKeep(Poller) /\ Phase(Poller)' = Phase(Poller)
      BY <1>0, <1>20, <2>1, <2>4
    <3>5. QED BY <1>0, <3>1, <3>2, <3>3, <3>4, AbstractSteps
  <2>5. ASSUME NEW t \in Tasks, pc[t] = "reading" PROVE AbstractStep
    <3>1. PICK m \in 0 .. Len(OwnReply(t)) : \E g \in 0 .. m : ExchangeAt(t, g, m)
      BY <1>0, <2>5 DEF Exchanges, Exchange
    <3>2. PICK g \in 0 .. m : ExchangeAt(t, g, m)
      BY <3>1
    <3>3. Phase(t) = "calling" /\ ~StrayWaits
      BY <1>0, <2>1, <2>5, <3>2, PhaseInside
    <3>4. inbox = <<CommandOf(t)>>
      BY <2>1, <3>2 DEF ExchangeAt
    <3>5. replying' = OwnReply(t) /\ inbox' = <<>>
      BY <2>1, <3>4 DEF OwnReply
    <3>6. OwnIn(t, replying') /\ ~OwnIn(t, inbox') /\ ~StrayWaits'
      <4>1. 1 \in DOMAIN OwnReply(t) /\ OwnReply(t)[1].of = t
        BY OwnReplyLines
      <4>2. QED BY <3>5, <4>1 DEF OwnIn, StrayWaits
    <3>7. Phase(t)' = "served"
      BY <2>1, <2>5, <3>6 DEF Phase
    <3>8. \A u \in Tasks : Phase(u) # "served"
      BY <1>0, <1>3, <2>5, <3>3, PhaseOutside DEF OnTheWire
    <3>9. OthersKeep(t)
      BY <1>21, <2>1, <2>5
    <3>10. QED BY <3>3, <3>6, <3>7, <3>8, <3>9, AbstractSteps
  <2>6. QED BY <2>4, <2>5 DEF NobodyReads
<1>23. CASE MatrixSends
  <2>1. /\ UNCHANGED <<pc, outcome, got, inbox>> /\ replying # <<>>
        /\ inbound' = Append(inbound, Head(replying)) /\ StrayWaits' = StrayWaits
    BY <1>4, <1>23 DEF MatrixSends, calls
  <2>2. CASE NobodyReads
    BY <1>0, <1>8, <1>20, <2>1, <2>2
  <2>3. ASSUME NEW t \in Tasks, pc[t] = "reading" PROVE AbstractStep
    <3>1. PICK m \in 0 .. Len(OwnReply(t)) : \E g \in 0 .. m : ExchangeAt(t, g, m)
      BY <1>0, <2>3 DEF Exchanges, Exchange
    <3>2. PICK g \in 0 .. m : ExchangeAt(t, g, m)
      BY <3>1
    <3>3. inbox = <<>>
      BY <2>1, <3>2 DEF ExchangeAt
    <3>4. Phase(t) = "served"
      BY <1>0, <2>1, <2>3, <3>2, <3>3, PhaseInside
    <3>5. OwnIn(t, inbound') /\ ~OwnIn(t, inbox')
      <4>1. \A k \in 1 .. Len(replying) : replying[k].of = t
        BY <1>0, <3>2, ExchangeOwners
      <4>2. Head(replying) \in Line /\ Head(replying) = replying[1] /\ 1 \in 1 .. Len(replying)
        BY <1>0, <2>1
      <4>3. /\ inbound' \in Seq(Line) /\ Len(inbound') = Len(inbound) + 1
            /\ inbound'[Len(inbound) + 1] = Head(replying)
        BY <1>0, <2>1, <4>2, AppendProperties
      <4>4. Len(inbound) + 1 \in DOMAIN inbound'
        BY <1>0, <4>3
      <4>5. QED BY <2>1, <3>3, <4>1, <4>2, <4>3, <4>4 DEF OwnIn
    <3>6. Phase(t)' = "served"
      BY <2>1, <2>3, <3>5 DEF Phase
    <3>7. QED BY <1>8, <1>21, <2>1, <2>3, <3>4, <3>6
  <2>4. QED BY <2>2, <2>3 DEF NobodyReads
<1>24. CASE Broadcast
  <2>1. /\ UNCHANGED <<pc, outcome, got, inbox, replying>> /\ inbound' = inbound \o Banner
        /\ StrayWaits' = StrayWaits
    BY <1>4, <1>24 DEF Broadcast, calls
  <2>2. CASE NobodyReads
    BY <1>0, <1>8, <1>20, <2>1, <2>2
  <2>3. ASSUME NEW t \in Tasks, pc[t] = "reading" PROVE AbstractStep
    <3>1. OwnIn(t, inbound') <=> OwnIn(t, inbound)
      <4>1. /\ Len(inbound) \in Nat /\ Banner \in Seq(Line) /\ Len(Banner) = 3
            /\ \A k \in 1 .. 3 : Banner[k].of = Nobody
        BY <1>0, BannerLines
      <4>2. /\ inbound \o Banner \in Seq(Line)
            /\ Len(inbound \o Banner) = Len(inbound) + Len(Banner)
            /\ \A k \in 1 .. Len(inbound) + Len(Banner) : (inbound \o Banner)[k] =
                  IF k <= Len(inbound) THEN inbound[k] ELSE Banner[k - Len(inbound)]
        BY <1>0, <4>1, ConcatProperties
      <4>3. DOMAIN inbound' = 1 .. Len(inbound) + 3 /\ DOMAIN inbound = 1 .. Len(inbound)
        BY <1>0, <2>1, <4>1, <4>2
      <4>4. \A k \in 1 .. Len(inbound) + 3 : inbound'[k] =
                IF k <= Len(inbound) THEN inbound[k] ELSE Banner[k - Len(inbound)]
        BY <2>1, <4>1, <4>2
      <4>5. \A k \in 1 .. Len(inbound) : k \in 1 .. Len(inbound) + 3 /\ inbound'[k] = inbound[k]
        BY <4>1, <4>4
      <4>6. ASSUME NEW k \in 1 .. Len(inbound) + 3, inbound'[k].of = t
            PROVE  k \in 1 .. Len(inbound) /\ inbound[k].of = t
        <5>1. CASE k <= Len(inbound)
          BY <4>1, <4>4, <4>6, <5>1
        <5>2. CASE ~(k <= Len(inbound))
          <6>1. k - Len(inbound) \in 1 .. 3
            BY <4>1, <5>2
          <6>2. inbound'[k].of = Nobody
            BY <4>1, <4>4, <5>2, <6>1
          <6>3. QED BY <4>6, <6>2, SessionAssumption
        <5>3. QED BY <5>1, <5>2
      <4>7. QED BY <4>3, <4>5, <4>6 DEF OwnIn
    <3>2. OwnIn(t, inbox') <=> OwnIn(t, inbox)
      BY <2>1
    <3>3. OwnIn(t, replying') <=> OwnIn(t, replying)
      BY <2>1
    <3>4. Phase(t)' = Phase(t)
      BY <2>1, <2>3, <3>1, <3>2, <3>3 DEF Phase
    <3>5. QED BY <1>8, <1>21, <2>1, <2>3, <3>4
  <2>4. QED BY <2>2, <2>3 DEF NobodyReads
\* The link goes, by itself or with the entry.
<1>25. ASSUME UNCHANGED <<pc, outcome, got>>, inbox' = <<>>, replying' = <<>>,
              UNCHANGED inbound \/ inbound' = <<>>
       PROVE  AbstractStep
  <2>1. ~StrayWaits'
    BY <1>25 DEF StrayWaits, OwnIn
  <2>2. CASE NobodyReads
    BY <1>0, <1>20, <1>25, <2>1, <2>2, AbstractSteps
  <2>3. ASSUME NEW t \in Tasks, pc[t] = "reading" PROVE AbstractStep
    <3>1. ~OwnIn(t, inbox') /\ ~OwnIn(t, replying')
      BY <1>25 DEF OwnIn
    <3>2. OwnIn(t, inbound') => OwnIn(t, inbound)
      BY <1>25 DEF OwnIn
    <3>3. /\ Phase(t) \in {"calling", "served", "lost"}
          /\ Phase(t)' \in {"served", "lost"}
          /\ Phase(t)' = "served" => Phase(t) \in {"served", "calling"}
      BY <1>25, <2>3, <3>1, <3>2 DEF Phase
    <3>4. Phase(t)' = "served" => Phase(t) = "served"
      <4>1. PICK m \in 0 .. Len(OwnReply(t)) : \E g \in 0 .. m : ExchangeAt(t, g, m)
        BY <1>0, <2>3 DEF Exchanges, Exchange
      <4>2. PICK g \in 0 .. m : ExchangeAt(t, g, m)
        BY <4>1
      <4>3. ASSUME Phase(t)' = "served", inbox # <<>> PROVE FALSE
        <5>1. m = 0 /\ g = 0
          BY <4>2, <4>3 DEF ExchangeAt
        <5>2. ~OwnIn(t, inbound) /\ ~OwnIn(t, got[t])
          BY <1>0, <4>2, <5>1, ExchangeOwners
        <5>3. ~OwnIn(t, inbound') /\ ~OwnIn(t, got'[t])
          BY <1>25, <3>2, <5>2
        <5>4. Phase(t)' = "lost"
          BY <1>25, <2>3, <3>1, <5>3 DEF Phase
        <5>5. QED BY <4>3, <5>4
      <4>4. inbox = <<>> => Phase(t) # "calling"
        BY <1>0, <2>3, <4>2, PhaseInside
      <4>5. QED BY <3>3, <4>3, <4>4
    <3>5. OthersKeep(t)
      BY <1>21, <1>25, <2>3
    <3>6. Phase(t)' = Phase(t) \/ (Phase(t) \in {"calling", "served"} /\ Phase(t)' = "lost")
      BY <3>3, <3>4
    <3>7. QED BY <2>1, <3>5, <3>6, AbstractSteps
  <2>4. QED BY <2>2, <2>3 DEF NobodyReads
<1>26. ASSUME UNCHANGED <<pc, outcome, got, inbound, inbox, replying>> PROVE AbstractStep
  <2>1. OthersKeep(Poller)
    BY <1>0, <1>1, <1>26
  <2>2. Phase(Poller)' = Phase(Poller) /\ StrayWaits' = StrayWaits
    BY <1>4, <1>26 DEF Phase
  <2>3. QED BY <1>0, <1>8, <2>1, <2>2
<1>27. CASE LinkGoes \/ UnloadStarts
  BY <1>25, <1>26, <1>27 DEF LinkGoes, UnloadStarts, calls
<1>28. CASE UnloadEnds \/ UNCHANGED sessionVars
  BY <1>26, <1>28 DEF UnloadEnds, sessionVars, calls, peer
<1>29. ASSUME NEW t \in Tasks, TaskStep(t) PROVE AbstractStep
  <2>1. ASSUME NEW n \in 1 .. Len(inbound), ReadChunk(t, n) PROVE AbstractStep
    <3>1. Reading(t)
      BY <2>1 DEF ReadChunk
    <3>2. QED BY <1>14, <1>29, <1>33, <2>1, <3>1 DEF Reading
  <2>2. QED BY <1>11, <1>12, <1>13, <1>15, <1>16, <1>29, <2>1 DEF TaskStep
<1>30. QED BY <1>9, <1>10, <1>17, <1>18, <1>19, <1>22, <1>23, <1>24, <1>27, <1>28, <1>29, <1>35
       DEF SessionNext, MatrixStep

(* The session implements RequestReply: the matrix obeys one command at a  *)
(* time, each at most once, none behind an abandoned one, and a call that  *)
(* succeeds was obeyed (base/device.py:91-140, tcp.py:202-267).            *)
THEOREM SendCommandKeepsItsPromise ==
    ~SplitBanners /\ ~LateReplies => (SessionSpec => KeepsItsPromise)
<1> SUFFICES ASSUME ~SplitBanners, ~LateReplies PROVE SessionSpec => KeepsItsPromise
  OBVIOUS
<1>1. SessionInit => CallInv
  BY CallInvStarts
<1>2. CallInv /\ [SessionNext]_sessionVars => CallInv'
  BY CallInvStep
<1>3. SessionInit => Abstract!RequestReplyInit
  BY DEF SessionInit, Abstract!RequestReplyInit, Phase, OwnIn
<1>4. CallInv /\ [SessionNext]_sessionVars =>
          [Abstract!RequestReplyNext]_(Abstract!callVars)
  BY PromiseStep DEF AbstractStep
<1>5. QED
  BY <1>1, <1>2, <1>3, <1>4, PTL DEF SessionSpec, KeepsItsPromise, Abstract!RequestReplySpec
=============================================================================
