----------------------------- MODULE RunProofs -----------------------------
(***************************************************************************)
(* The properties of a history of processes hold for every number of       *)
(* processes, whatever their flags.                                        *)
(***************************************************************************)
EXTENDS RunProperties, RepositoryProofs, CursorProofs, FiniteSetTheorems

(* What holds of 1 and goes from each number to the next holds up to n.    *)
LEMMA UpTo ==
    ASSUME NEW n \in Nat, NEW S, 1 \in S,
           \A i \in 1 .. n : i # n /\ i \in S => i + 1 \in S
    PROVE  \A i \in 1 .. n : i \in S
<1> DEFINE T == {i \in 1 .. n : i \notin S}
<1>1. T \subseteq Nat
  OBVIOUS
<1>2. ASSUME T # {} PROVE FALSE
  <2>1. PICK m \in T : \A x \in T : m <= x
    <3> HIDE DEF T
    <3> QED
      BY <1>1, <1>2, Least
  <2>2. m \in 1 .. n /\ m \notin S /\ m # 1
    BY <2>1
  <2>3. m - 1 \in 1 .. n /\ m - 1 # n /\ m - 1 + 1 = m /\ ~ (m <= m - 1)
    BY <2>2
  <2>4. m - 1 \in S
    BY <2>1, <2>3
  <2> QED
    BY <2>2, <2>3, <2>4
<1> QED
  BY <1>2

-----------------------------------------------------------------------------
(* The list of a --positions text.                                         *)

(* What FlattenSeq computes: the concatenation of every prefix.            *)
Flattens(f, s, n) ==
    f = [i \in 1 .. n |-> IF i = 1 THEN s[i] ELSE f[i - 1] \o s[i]]

LEMMA FlattensOne ==
    ASSUME NEW s PROVE Flattens([i \in 1 .. 1 |-> s[1]], s, 1)
BY DEF Flattens

LEMMA FlattensNext ==
    ASSUME NEW s, NEW f, NEW n \in Nat \ {0}, Flattens(f, s, n)
    PROVE  \E g : Flattens(g, s, n + 1)
<1> DEFINE g == [i \in 1 .. n + 1 |-> IF i = n + 1 THEN f[n] \o s[n + 1] ELSE f[i]]
<1>1. ASSUME NEW i \in 1 .. n + 1
      PROVE  g[i] = IF i = 1 THEN s[i] ELSE g[i - 1] \o s[i]
  <2>1. CASE i = n + 1
    <3>1. i # 1 /\ i - 1 = n /\ n \in 1 .. n + 1 /\ n # n + 1
      BY <2>1
    <3>2. g[i] = f[n] \o s[i] /\ g[n] = f[n]
      BY <2>1, <3>1
    <3> QED
      BY <3>1, <3>2
  <2>2. CASE i # n + 1
    <3>1. i \in 1 .. n
      BY <2>2
    <3>2. g[i] = f[i] /\ f[i] = IF i = 1 THEN s[i] ELSE f[i - 1] \o s[i]
      BY <2>2, <3>1 DEF Flattens
    <3>3. i # 1 => i - 1 \in 1 .. n + 1 /\ i - 1 # n + 1
      BY <3>1
    <3>4. i # 1 => g[i - 1] = f[i - 1]
      BY <3>3
    <3> QED
      BY <3>2, <3>4
  <2> QED
    BY <2>1, <2>2
<1>2. g = [i \in 1 .. n + 1 |-> IF i = 1 THEN s[i] ELSE g[i - 1] \o s[i]]
  <2>1. g = [i \in 1 .. n + 1 |-> g[i]]
    OBVIOUS
  <2> HIDE DEF g
  <2> QED
    BY <1>1, <2>1, Zenon
<1> HIDE DEF g
<1>3. Flattens(g, s, n + 1)
  BY <1>2, Zenon DEF Flattens
<1> QED
  BY <1>3

LEMMA FlattenExists ==
    ASSUME NEW S, NEW s \in Seq(Seq(S)), s # <<>>
    PROVE  \E f : Flattens(f, s, Len(s)) /\ FlattenSeq(s) = f[Len(s)]
<1>1. Len(s) \in Nat /\ Len(s) >= 1 /\ Len(s) # 0
  OBVIOUS
<1> DEFINE T == {i \in 1 .. Len(s) : \E f : Flattens(f, s, i)}
<1>2. 1 \in T
  <2>1. \E f : Flattens(f, s, 1)
    BY FlattensOne, Zenon
  <2> QED
    BY <1>1, <2>1
<1>3. ASSUME NEW i \in 1 .. Len(s), i # Len(s), i \in T PROVE i + 1 \in T
  <2>1. i \in Nat \ {0} /\ i + 1 \in 1 .. Len(s)
    BY <1>1, <1>3
  <2> QED
    BY <1>3, <2>1, FlattensNext
<1>4. \A i \in 1 .. Len(s) : i \in T
  <2> HIDE DEF T
  <2> QED
    BY <1>1, <1>2, <1>3, UpTo
<1>5. PICK g : Flattens(g, s, Len(s))
  BY <1>1, <1>4
<1>6. FlattenSeq(s) = (CHOOSE f : Flattens(f, s, Len(s)))[Len(s)]
  BY <1>1, Zenon DEF Flattens, FlattenSeq
<1> QED
  BY <1>5, <1>6, Zenon

(* The ranges of a text that is accepted.                                  *)
LEMMA TextShape ==
    ASSUME NEW text \in Seq(Token), ~ Rejects(text)
    PROVE  /\ Len(text) \in Nat \ {0} /\ DOMAIN text = 1 .. Len(text)
           /\ \A k \in 1 .. Len(text) :
                /\ text[k][1] \in Nat /\ text[k][2] \in Nat /\ text[k][1] <= text[k][2]
                /\ Span(text[k]) \in Seq(Nat)
                /\ Len(Span(text[k])) = text[k][2] - text[k][1] + 1
                /\ \A i \in 1 .. Len(Span(text[k])) : Span(text[k])[i] = text[k][1] + i - 1
           /\ Range(ListOf(text)) \subseteq WordPositions /\ IsInjective(ListOf(text))
<1>1. Len(text) \in Nat \ {0} /\ DOMAIN text = 1 .. Len(text)
  <2>1. text # <<>>
    BY DEF Rejects
  <2> QED
    BY <2>1
<1>2. Range(ListOf(text)) \subseteq WordPositions /\ IsInjective(ListOf(text))
  BY DEF Rejects, Range, IsInjective
<1>3. ASSUME NEW k \in 1 .. Len(text)
      PROVE  /\ text[k][1] \in Nat /\ text[k][2] \in Nat /\ text[k][1] <= text[k][2]
             /\ Span(text[k]) \in Seq(Nat)
             /\ Len(Span(text[k])) = text[k][2] - text[k][1] + 1
             /\ \A i \in 1 .. Len(Span(text[k])) : Span(text[k])[i] = text[k][1] + i - 1
  <2>1. text[k] \in Nat \X Nat
    <3>1. text[k] \in Token /\ text[k] # Malformed
      BY <1>1 DEF Rejects
    <3> QED
      BY <3>1 DEF Token
  <2>2. ~ (text[k][1] > text[k][2])
    BY <1>1 DEF Rejects
  <2>3. PICK lo \in Nat, hi \in Nat : text[k] = <<lo, hi>>
    BY <2>1
  <2>4. lo <= hi /\ hi - lo + 1 \in Nat
    BY <2>2, <2>3
  <2>5. Span(text[k]) = [i \in 1 .. hi - lo + 1 |-> lo + i - 1]
    BY <2>3 DEF Span
  <2>6. \A i \in 1 .. hi - lo + 1 : lo + i - 1 \in Nat
    BY <2>4
  <2>7. Span(text[k]) \in Seq(Nat) /\ Len(Span(text[k])) = hi - lo + 1
    BY <2>4, <2>5, <2>6
  <2>8. \A i \in 1 .. hi - lo + 1 : Span(text[k])[i] = lo + i - 1
    BY <2>5
  <2>9. text[k][1] = lo /\ text[k][2] = hi
    BY <2>3
  <2> QED
    BY <2>4, <2>7, <2>8, <2>9
<1> QED
  BY <1>1, <1>2, <1>3

(* The values a function takes.                                            *)
LEMMA RangeIs == ASSUME NEW f PROVE Range(f) = {f[x] : x \in DOMAIN f}
BY DEF Range

LEMMA InjectiveIs ==
    ASSUME NEW f, IsInjective(f), NEW a \in DOMAIN f, NEW b \in DOMAIN f, f[a] = f[b]
    PROVE  a = b
BY DEF IsInjective

Values(s) == {s[i] : i \in 1 .. Len(s)}

(* s is where t begins.                                                    *)
Begins(s, t) == Len(s) <= Len(t) /\ \A i \in 1 .. Len(s) : t[i] = s[i]

(* The list of the first k ranges of a text: the positions they name, up   *)
(* to the end of the last one.                                             *)
NamedBy(text, k) == UNION {text[j][1] .. text[j][2] : j \in 1 .. k}
Lists(s, text, k) ==
    /\ s \in Seq(Nat) /\ Len(s) >= 1
    /\ s[Len(s)] = text[k][2]
    /\ Values(s) = NamedBy(text, k)

LEMMA ConcatFacts ==
    ASSUME NEW s \in Seq(Nat), NEW t \in Seq(Nat)
    PROVE  /\ s \o t \in Seq(Nat) /\ Len(s \o t) = Len(s) + Len(t) /\ Begins(s, s \o t)
           /\ \A i \in 1 .. Len(t) : (s \o t)[Len(s) + i] = t[i]
           /\ Values(s \o t)
                = Values(s) \cup Values(t)
<1>1. /\ s \o t \in Seq(Nat) /\ Len(s \o t) = Len(s) + Len(t)
      /\ Len(s) \in Nat /\ Len(t) \in Nat
      /\ \A i \in 1 .. Len(s) : (s \o t)[i] = s[i]
  OBVIOUS
<1>2. \A i \in 1 .. Len(t) : (s \o t)[Len(s) + i] = t[i]
  OBVIOUS
<1>3. ASSUME NEW i \in 1 .. Len(s \o t)
      PROVE  \/ i \in 1 .. Len(s) /\ (s \o t)[i] = s[i]
             \/ i - Len(s) \in 1 .. Len(t) /\ (s \o t)[i] = t[i - Len(s)]
  <2>1. CASE i <= Len(s)
    BY <1>1, <2>1
  <2>2. CASE ~ (i <= Len(s))
    <3>1. i - Len(s) \in 1 .. Len(t) /\ Len(s) + (i - Len(s)) = i
      BY <1>1, <2>2
    <3> QED
      BY <1>2, <3>1
  <2> QED
    BY <2>1, <2>2
<1> DEFINE u == s \o t
<1>4. /\ \A i \in 1 .. Len(s) : i \in 1 .. Len(u)
      /\ \A i \in 1 .. Len(t) : Len(s) + i \in 1 .. Len(u)
  BY <1>1
<1>5. Values(u) \subseteq Values(s) \cup Values(t)
  BY <1>3 DEF Values
<1>6. /\ Values(s) \subseteq Values(u)
      /\ Values(t) \subseteq Values(u)
  BY <1>1, <1>2, <1>4 DEF Values
<1>7. Begins(s, u) /\ Len(u) = Len(s) + Len(t)
  BY <1>1 DEF Begins
<1> QED
  BY <1>1, <1>2, <1>5, <1>6, <1>7

(* A range lists the numbers from its first to its last.                   *)
LEMMA SpanLists ==
    ASSUME NEW lo \in Nat, NEW hi \in Nat, lo <= hi,
           NEW s \in Seq(Nat), Len(s) = hi - lo + 1,
           \A i \in 1 .. Len(s) : s[i] = lo + i - 1
    PROVE  /\ Len(s) >= 1 /\ s[1] = lo /\ s[Len(s)] = hi
           /\ Values(s) = lo .. hi
<1> DEFINE n == Len(s)
<1>1. n = hi - lo + 1 /\ \A i \in 1 .. n : s[i] = lo + i - 1
  OBVIOUS
<1> HIDE DEF n
<1>2. n >= 1 /\ s[1] = lo /\ s[n] = hi
  <2>1. n \in Nat /\ 1 \in 1 .. n /\ n \in 1 .. n /\ lo + 1 - 1 = lo /\ lo + n - 1 = hi
    BY <1>1
  <2> QED
    BY <1>1, <2>1
<1>3. ASSUME NEW i \in 1 .. n PROVE s[i] \in lo .. hi
  <2>1. s[i] = lo + i - 1
    BY <1>1
  <2> QED
    BY <1>1, <2>1
<1>4. ASSUME NEW p \in lo .. hi PROVE p \in Values(s)
  <2>1. p - lo + 1 \in 1 .. n /\ lo + (p - lo + 1) - 1 = p
    BY <1>1
  <2>2. s[p - lo + 1] = p
    BY <1>1, <2>1
  <2> QED
    BY <2>1, <2>2 DEF Values, n
<1> QED
  BY <1>2, <1>3, <1>4 DEF n, Values

LEMMA PieceFacts ==
    ASSUME NEW text \in Seq(Token), ~ Rejects(text), NEW k \in 1 .. Len(text),
           NEW t, t = Span(text[k])
    PROVE  /\ t \in Seq(Nat) /\ Len(t) \in Nat /\ Len(t) >= 1
           /\ t[1] = text[k][1] /\ t[Len(t)] = text[k][2]
           /\ Values(t) = text[k][1] .. text[k][2]
<1>1. /\ text[k][1] \in Nat /\ text[k][2] \in Nat /\ text[k][1] <= text[k][2]
      /\ t \in Seq(Nat) /\ Len(t) = text[k][2] - text[k][1] + 1
      /\ \A i \in 1 .. Len(t) : t[i] = text[k][1] + i - 1
  BY TextShape
<1>2. PICK lo \in Nat, hi \in Nat : lo = text[k][1] /\ hi = text[k][2]
  BY <1>1
<1>3. /\ lo <= hi /\ t \in Seq(Nat) /\ Len(t) = hi - lo + 1
      /\ \A i \in 1 .. Len(t) : t[i] = lo + i - 1
  BY <1>1, <1>2
<1>4. /\ Len(t) >= 1 /\ t[1] = lo /\ t[Len(t)] = hi
      /\ Values(t) = lo .. hi
  BY <1>3, SpanLists
<1>5. t \in Seq(Nat) /\ Len(t) \in Nat
  BY <1>3
<1> QED
  BY <1>2, <1>4, <1>5, Zenon

(* The list of a text, range by range.                                     *)
Grows(f, text) ==
    /\ f[1] = Span(text[1])
    /\ \A k \in 1 .. Len(text) : k # 1 => f[k] = f[k - 1] \o Span(text[k])
LEMMA ListGrows ==
    ASSUME NEW text \in Seq(Token), ~ Rejects(text)
    PROVE  \E f : ListOf(text) = f[Len(text)] /\ Grows(f, text)
<1> DEFINE pieces == [k \in DOMAIN text |-> Span(text[k])]
<1>1. /\ Len(text) \in Nat \ {0} /\ DOMAIN text = 1 .. Len(text)
      /\ \A k \in 1 .. Len(text) : Span(text[k]) \in Seq(Nat)
  BY TextShape
<1>2. pieces \in Seq(Seq(Nat)) /\ Len(pieces) = Len(text) /\ pieces # <<>>
  BY <1>1
<1>3. \A k \in 1 .. Len(text) : pieces[k] = Span(text[k])
  BY <1>1
<1>4. ListOf(text) = FlattenSeq(pieces)
  BY DEF ListOf
<1> HIDE DEF pieces
<1>5. PICK f : Flattens(f, pieces, Len(text)) /\ FlattenSeq(pieces) = f[Len(text)]
  BY <1>2, FlattenExists
<1>6. \A k \in 1 .. Len(text) :
        f[k] = IF k = 1 THEN pieces[k] ELSE f[k - 1] \o pieces[k]
  BY <1>5, Zenon DEF Flattens
<1>7. 1 \in 1 .. Len(text)
  BY <1>1
<1>8. f[1] = Span(text[1])
  BY <1>3, <1>6, <1>7, Zenon
<1>9. \A k \in 1 .. Len(text) : k # 1 => f[k] = f[k - 1] \o Span(text[k])
  BY <1>3, <1>6, Zenon
<1>10. Grows(f, text)
  BY <1>8, <1>9 DEF Grows
<1> QED
  BY <1>4, <1>5, <1>10, Zenon

LEMMA GrowsLists ==
    ASSUME NEW text \in Seq(Token), ~ Rejects(text), NEW f, Grows(f, text)
    PROVE  \A k \in 1 .. Len(text) : Lists(f[k], text, k)
<1>1. Len(text) \in Nat \ {0}
  BY TextShape
<1> DEFINE T == {k \in 1 .. Len(text) : Lists(f[k], text, k)}
<1>2. 1 \in T
  <2>1. 1 \in 1 .. Len(text) /\ 1 .. 1 = {1}
    BY <1>1
  <2>2. NamedBy(text, 1) = text[1][1] .. text[1][2]
    BY <2>1 DEF NamedBy
  <2>3. PICK t : t = Span(text[1])
    OBVIOUS
  <2>4. /\ t \in Seq(Nat) /\ Len(t) >= 1 /\ t[Len(t)] = text[1][2]
        /\ Values(t) = text[1][1] .. text[1][2]
    BY <2>1, <2>3, PieceFacts
  <2>5. f[1] = t
    BY <2>3 DEF Grows
  <2>6. Lists(f[1], text, 1)
    BY <2>2, <2>4, <2>5, Zenon DEF Lists
  <2> QED
    BY <2>1, <2>6
<1>3. ASSUME NEW k \in 1 .. Len(text), k # Len(text), k \in T PROVE k + 1 \in T
  <2>1. k + 1 \in 1 .. Len(text) /\ k + 1 # 1 /\ (k + 1) - 1 = k
        /\ 1 .. k + 1 = (1 .. k) \cup {k + 1}
    BY <1>1, <1>3
  <2>2. PICK s, t, u : s = f[k] /\ t = Span(text[k + 1]) /\ u = f[k + 1]
    OBVIOUS
  <2>3. /\ s \in Seq(Nat) /\ Len(s) >= 1 /\ Len(s) \in Nat
        /\ Values(s) = NamedBy(text, k)
    BY <1>3, <2>2 DEF Lists
  <2>4. /\ t \in Seq(Nat) /\ Len(t) \in Nat /\ Len(t) >= 1 /\ t[Len(t)] = text[k + 1][2]
        /\ Values(t) = text[k + 1][1] .. text[k + 1][2]
    BY <2>1, <2>2, PieceFacts, Zenon
  <2>5. u = s \o t
    BY <2>1, <2>2 DEF Grows
  <2>6. NamedBy(text, k + 1) = NamedBy(text, k) \cup (text[k + 1][1] .. text[k + 1][2])
    BY <2>1 DEF NamedBy
  <2>7. /\ s \o t \in Seq(Nat) /\ Len(s \o t) = Len(s) + Len(t)
        /\ \A i \in 1 .. Len(t) : (s \o t)[Len(s) + i] = t[i]
        /\ Values(s \o t)
             = Values(s) \cup Values(t)
    BY <2>3, <2>4, ConcatFacts
  <2>8. Len(t) \in 1 .. Len(t) /\ Len(s) + Len(t) >= 1
    BY <2>3, <2>4
  <2>9. u[Len(u)] = text[k + 1][2] /\ Len(u) >= 1 /\ u \in Seq(Nat)
    BY <2>4, <2>5, <2>7, <2>8
  <2>10. Values(u) = NamedBy(text, k + 1)
    <3>1. Values(u) = Values(s \o t)
      BY <2>5
    <3> QED
      BY <2>3, <2>4, <2>6, <2>7, <3>1, Zenon
  <2>11. Lists(u, text, k + 1)
    BY <2>9, <2>10 DEF Lists
  <2> QED
    BY <2>1, <2>2, <2>11
<1>4. \A k \in 1 .. Len(text) : k \in T
  <2> HIDE DEF T
  <2> QED
    BY <1>1, <1>2, <1>3, UpTo
<1> QED
  BY <1>4

LEMMA GrowsBegins ==
    ASSUME NEW text \in Seq(Token), ~ Rejects(text), NEW f, Grows(f, text)
    PROVE  \A k \in 1 .. Len(text) : Begins(f[k], f[Len(text)])
<1>1. /\ Len(text) \in Nat \ {0}
      /\ \A k \in 1 .. Len(text) : Span(text[k]) \in Seq(Nat) /\ f[k] \in Seq(Nat)
  BY TextShape, GrowsLists DEF Lists
<1> DEFINE T == {k \in 1 .. Len(text) : \A j \in 1 .. k : Begins(f[j], f[k])}
<1>2. 1 \in T
  <2>1. 1 \in 1 .. Len(text) /\ 1 .. 1 = {1} /\ f[1] \in Seq(Nat)
    BY <1>1
  <2>2. Begins(f[1], f[1])
    BY <2>1 DEF Begins
  <2> QED
    BY <2>1, <2>2
<1>3. ASSUME NEW k \in 1 .. Len(text), k # Len(text), k \in T PROVE k + 1 \in T
  <2>1. k + 1 \in 1 .. Len(text) /\ k + 1 # 1 /\ (k + 1) - 1 = k
        /\ 1 .. k + 1 = (1 .. k) \cup {k + 1} /\ 1 .. k \subseteq 1 .. Len(text)
    BY <1>1, <1>3
  <2>2. f[k + 1] = f[k] \o Span(text[k + 1])
    BY <2>1 DEF Grows
  <2>3. Begins(f[k], f[k + 1])
    BY <1>1, <2>1, <2>2, ConcatFacts
  <2>4. ASSUME NEW j \in 1 .. k PROVE Begins(f[j], f[k + 1])
    <3>1. /\ Begins(f[j], f[k]) /\ f[j] \in Seq(Nat)
          /\ f[k] \in Seq(Nat) /\ f[k + 1] \in Seq(Nat)
      BY <1>1, <1>3, <2>1
    <3> QED
      BY <2>3, <3>1 DEF Begins
  <2>5. Begins(f[k + 1], f[k + 1])
    <3>1. f[k + 1] \in Seq(Nat)
      BY <1>1, <2>1
    <3> QED
      BY <3>1 DEF Begins
  <2> QED
    BY <2>1, <2>4, <2>5
<1>4. \A k \in 1 .. Len(text) : k \in T
  <2> HIDE DEF T
  <2> QED
    BY <1>1, <1>2, <1>3, UpTo
<1>5. Len(text) \in 1 .. Len(text)
  BY <1>1
<1> QED
  BY <1>4, <1>5

(* A text that is accepted lists what its ranges name, one after the other. *)
LEMMA ListFacts ==
    ASSUME NEW text \in Seq(Token), ~ Rejects(text)
    PROVE  LET list == ListOf(text)
           IN  /\ list \in Seq(Nat) /\ Len(list) >= 1
               /\ DOMAIN list = 1 .. Len(list)
               /\ Range(list) = UNION {text[k][1] .. text[k][2] : k \in DOMAIN text}
               /\ \A k \in 2 .. Len(text) :
                    \E m \in 1 .. Len(list) :
                      /\ m + 1 \in 1 .. Len(list)
                      /\ list[m] = text[k - 1][2] /\ list[m + 1] = text[k][1]
<1> DEFINE list == ListOf(text)
<1>1. Len(text) \in Nat \ {0} /\ DOMAIN text = 1 .. Len(text)
  BY TextShape
<1>2. PICK f : list = f[Len(text)] /\ Grows(f, text)
  BY ListGrows
<1>3. /\ \A k \in 1 .. Len(text) : Lists(f[k], text, k)
      /\ \A k \in 1 .. Len(text) : Begins(f[k], list)
  BY <1>2, GrowsLists, GrowsBegins
<1>4. Lists(list, text, Len(text)) /\ Range(list) = {list[x] : x \in DOMAIN list}
  BY <1>1, <1>2, <1>3, RangeIs
<1> HIDE DEF list
<1>5. /\ list \in Seq(Nat) /\ Len(list) >= 1 /\ DOMAIN list = 1 .. Len(list)
      /\ Range(list) = NamedBy(text, Len(text))
  BY <1>4 DEF Lists, Values
<1>6. ASSUME NEW k \in 2 .. Len(text)
      PROVE  \E m \in 1 .. Len(list) :
               /\ m + 1 \in 1 .. Len(list)
               /\ list[m] = text[k - 1][2] /\ list[m + 1] = text[k][1]
  <2>1. k \in 1 .. Len(text) /\ k # 1 /\ k - 1 \in 1 .. Len(text)
    BY <1>1
  <2>9. PICK s, t, u : s = f[k - 1] /\ t = Span(text[k]) /\ u = f[k]
    OBVIOUS
  <2>2. u = s \o t /\ Begins(u, list) /\ Begins(s, list)
    BY <1>2, <1>3, <2>1, <2>9 DEF Grows
  <2>3. s \in Seq(Nat) /\ Len(s) \in Nat /\ Len(s) >= 1 /\ s[Len(s)] = text[k - 1][2]
    BY <1>3, <2>1, <2>9 DEF Lists
  <2>4. t \in Seq(Nat) /\ Len(t) \in Nat /\ Len(t) >= 1 /\ t[1] = text[k][1]
    BY <2>1, <2>9, PieceFacts
  <2>5. /\ u \in Seq(Nat) /\ Len(u) = Len(s) + Len(t)
        /\ \A i \in 1 .. Len(t) : u[Len(s) + i] = t[i]
    BY <2>2, <2>3, <2>4, ConcatFacts
  <2>10. Len(u) <= Len(list) /\ Len(s) <= Len(list)
    BY <2>2, Zenon DEF Begins
  <2>6. /\ Len(s) \in Nat /\ Len(t) \in Nat /\ Len(list) \in Nat /\ 1 \in 1 .. Len(t)
        /\ Len(u) <= Len(list) /\ Len(s) <= Len(list)
    BY <1>5, <2>3, <2>4, <2>10
  <2>7. /\ Len(s) \in 1 .. Len(s) /\ Len(s) \in 1 .. Len(list)
        /\ Len(s) + 1 \in 1 .. Len(u) /\ Len(s) + 1 \in 1 .. Len(list)
    BY <2>3, <2>4, <2>5, <2>6
  <2>8. list[Len(s)] = text[k - 1][2] /\ list[Len(s) + 1] = text[k][1]
    BY <2>2, <2>3, <2>4, <2>5, <2>6, <2>7 DEF Begins
  <2> QED
    BY <2>7, <2>8
<1> QED
  BY <1>1, <1>5, <1>6 DEF NamedBy, list

(* ... each position once, so that its place in the list is known.         *)
LEMMA PlaceIs ==
    ASSUME NEW text \in Seq(Token), ~ Rejects(text),
           NEW list, list = ListOf(text),
           NEW i \in DOMAIN list, NEW p, list[i] = p
    PROVE  (CHOOSE j \in DOMAIN list : list[j] = p) = i
<1>1. IsInjective(list)
  BY TextShape
<1>2. PICK j \in DOMAIN list : j = CHOOSE k \in DOMAIN list : list[k] = p
  OBVIOUS
<1>3. list[j] = p
  BY <1>2, Zenon
<1> QED
  BY <1>1, <1>2, <1>3, InjectiveIs

LEMMA CountedOnce ==
    ASSUME NEW text \in Seq(Token), ~ Rejects(text),
           NEW list, list = ListOf(text)
    PROVE  Len(list) = Cardinality(Range(list))
<1>1. Len(list) \in Nat /\ DOMAIN list = 1 .. Len(list) /\ list \in Seq(Nat)
  BY ListFacts
<1>2. list \in [1 .. Len(list) -> Range(list)]
  BY <1>1, RangeIs
<1>3. list \in Injection(1 .. Len(list), Range(list))
  BY <1>1, <1>2, TextShape, InjectiveIs DEF Injection, IsInjective
<1>4. list \in Surjection(1 .. Len(list), Range(list))
  BY <1>1, <1>2, RangeIs DEF Surjection
<1>5. ExistsBijection(1 .. Len(list), Range(list))
  BY <1>3, <1>4 DEF ExistsBijection, Bijection
<1> QED
  BY <1>1, <1>5, FS_CountingElements

(* The loop visits every position of a text that is accepted, in its       *)
(* order, and none twice.                                                  *)
LEMMA AcceptedOnce ==
    ASSUME NEW text \in Seq(Token), ~ Rejects(text)
    PROVE  LET list == ParsePositions(text)
               place(p) == CHOOSE i \in DOMAIN list : list[i] = p
           IN  /\ Range(list) = UNION {text[k][1] .. text[k][2] : k \in DOMAIN text}
               /\ Len(list) = Cardinality(Range(list))
               /\ \A k \in 2 .. Len(text) : place(text[k - 1][2]) + 1 = place(text[k][1])
<1> DEFINE list == ParsePositions(text)
           place(p) == CHOOSE i \in DOMAIN list : list[i] = p
<1>1. list = ListOf(text)
  BY DEF ParsePositions
<1> HIDE DEF list
<1>2. /\ Range(list) = UNION {text[k][1] .. text[k][2] : k \in DOMAIN text}
      /\ DOMAIN list = 1 .. Len(list)
  BY <1>1, ListFacts
<1>3. Len(list) = Cardinality(Range(list))
  BY <1>1, CountedOnce
<1>4. ASSUME NEW k \in 2 .. Len(text)
      PROVE  place(text[k - 1][2]) + 1 = place(text[k][1])
  <2>1. PICK m \in 1 .. Len(list) :
          /\ m + 1 \in 1 .. Len(list)
          /\ list[m] = text[k - 1][2] /\ list[m + 1] = text[k][1]
    BY <1>1, ListFacts
  <2>2. place(text[k - 1][2]) = m
    BY <1>1, <1>2, <2>1, PlaceIs
  <2>3. place(text[k][1]) = m + 1
    BY <1>1, <1>2, <2>1, PlaceIs
  <2> QED
    BY <2>2, <2>3
<1> QED
  BY <1>2, <1>3, <1>4 DEF list

-----------------------------------------------------------------------------
(* The texts and the configuration of a process.                           *)

LEMMA ValidText ==
    ASSUME NEW text \in ValidTexts, NEW list, list = ParsePositions(text)
    PROVE  /\ Len(list) \in Nat /\ Len(list) >= 1 /\ DOMAIN list = 1 .. Len(list)
           /\ \A i \in DOMAIN list : list[i] \in WordPositions
           /\ \A i, j \in DOMAIN list : list[i] = list[j] => i = j
           /\ \A p : p \in Listed[text] <=> \E i \in DOMAIN list : list[i] = p
           /\ text \in Texts /\ text # NoPositions
<1>1. text \in Texts /\ ~ Rejects(text)
  BY DEF ValidTexts
<1>2. text \in Seq(Token)
  BY <1>1, RunAssumption DEF Texts, Flags
<1>3. list = ListOf(text)
  BY <1>1 DEF ParsePositions
<1>4. /\ Len(list) \in Nat /\ Len(list) >= 1 /\ DOMAIN list = 1 .. Len(list)
      /\ list \in Seq(Nat)
  BY <1>1, <1>2, <1>3, ListFacts
<1>5. /\ Range(list) \subseteq WordPositions /\ Range(list) = {list[i] : i \in DOMAIN list}
      /\ IsInjective(list)
  BY <1>1, <1>2, <1>3, TextShape, RangeIs
<1>6. Listed[text] = Range(list)
  BY <1>3 DEF Listed
<1>7. text # NoPositions
  BY <1>1 DEF Rejects, NoPositions
<1>8. \A i, j \in DOMAIN list : list[i] = list[j] => i = j
  BY <1>5, InjectiveIs
<1> QED
  BY <1>1, <1>4, <1>5, <1>6, <1>7, <1>8

LEMMA DefaultValid == DefaultPositions \in ValidTexts
BY RunAssumption DEF ValidTexts, Texts

LEMMA StartIndex ==
    ASSUME NEW list, DOMAIN list = 1 .. Len(list), Len(list) \in Nat, Len(list) >= 1,
           NEW p
    PROVE  /\ startIndexInPositions(list, p) \in DOMAIN list
           /\ (\E i \in DOMAIN list : list[i] = p) =>
                list[startIndexInPositions(list, p)] = p
           /\ ~ (\E i \in DOMAIN list : list[i] = p) => startIndexInPositions(list, p) = 1
<1>1. 1 \in DOMAIN list
  OBVIOUS
<1>2. CASE \E i \in DOMAIN list : list[i] = p
  <2>1. PICK j \in DOMAIN list : list[j] = p /\ j = CHOOSE i \in DOMAIN list : list[i] = p
    BY <1>2
  <2> QED
    BY <1>2, <2>1 DEF startIndexInPositions
<1>3. CASE ~ (\E i \in DOMAIN list : list[i] = p)
  BY <1>1, <1>3 DEF startIndexInPositions
<1> QED
  BY <1>2, <1>3

-----------------------------------------------------------------------------
(* The store.                                                              *)

(* There is a latest session among those to resume.                        *)
Latter(a, b) ==
    \/ sessions[a].startedAt < sessions[b].startedAt
    \/ sessions[a].startedAt = sessions[b].startedAt /\ a <= b

LEMMA LatestHolds ==
    ASSUME TableOK, SomeResumable
    PROVE  LatestResumable \in DOMAIN sessions /\ Resumable(LatestResumable)
<1>1. /\ DOMAIN sessions = 1 .. lastId /\ lastId \in Nat
      /\ \A id \in DOMAIN sessions : sessions[id].startedAt \in Nat
  BY DEF TableOK, Row
<1> DEFINE Best(n, m) == /\ m \in 1 .. n /\ Resumable(m)
                         /\ \A id \in 1 .. n : Resumable(id) => Latter(id, m)
           T == {n \in 1 .. lastId :
                   (\E id \in 1 .. n : Resumable(id)) => \E m \in 1 .. lastId : Best(n, m)}
<1>2. lastId \in Nat /\ 1 \in 1 .. lastId
  BY <1>1 DEF SomeResumable
<1>3. 1 \in T
  <2>1. 1 .. 1 = {1}
    OBVIOUS
  <2>2. Resumable(1) => Best(1, 1)
    BY <1>1, <1>2, <2>1 DEF Latter
  <2> QED
    BY <1>2, <2>1, <2>2
<1>4. ASSUME NEW n \in 1 .. lastId, n # lastId, n \in T PROVE n + 1 \in T
  <2>1. /\ n + 1 \in 1 .. lastId /\ 1 .. n + 1 = (1 .. n) \cup {n + 1}
        /\ 1 .. n \subseteq DOMAIN sessions /\ \A m \in 1 .. n : m \in Nat /\ m < n + 1
    BY <1>1, <1>4
  <2>2. CASE ~ Resumable(n + 1)
    <3>1. ASSUME NEW m \in 1 .. lastId, Best(n, m) PROVE Best(n + 1, m)
      BY <2>1, <2>2, <3>1
    <3> QED
      BY <1>4, <2>1, <2>2, <3>1
  <2>3. CASE Resumable(n + 1) /\ ~ (\E id \in 1 .. n : Resumable(id))
    <3>1. Latter(n + 1, n + 1)
      BY <1>1, <2>1 DEF Latter
    <3>2. Best(n + 1, n + 1)
      BY <2>1, <2>3, <3>1
    <3> QED
      BY <2>1, <3>2
  <2>4. CASE Resumable(n + 1) /\ \E id \in 1 .. n : Resumable(id)
    <3>1. PICK m \in 1 .. lastId : Best(n, m)
      BY <1>4, <2>4
    <3>2. m \in DOMAIN sessions /\ m \in 1 .. n /\ n + 1 \in DOMAIN sessions
      BY <1>1, <2>1, <3>1
    <3>3. CASE Latter(n + 1, m)
      <4>1. Best(n + 1, m)
        BY <2>1, <3>1, <3>3
      <4> QED
        BY <2>1, <4>1
    <3>4. CASE ~ Latter(n + 1, m)
      <4>1. ASSUME NEW id \in 1 .. n, Latter(id, m) PROVE Latter(id, n + 1)
        BY <1>1, <2>1, <3>2, <3>4, <4>1 DEF Latter
      <4>2. Latter(n + 1, n + 1)
        BY <1>1, <2>1 DEF Latter
      <4>3. Best(n + 1, n + 1)
        BY <2>1, <2>4, <3>1, <4>1, <4>2
      <4> QED
        BY <2>1, <4>3
    <3> QED
      BY <3>3, <3>4
  <2> QED
    BY <2>2, <2>3, <2>4
<1>5. \A n \in 1 .. lastId : n \in T
  <2> HIDE DEF T
  <2> QED
    BY <1>2, <1>3, <1>4, UpTo
<1>6. lastId \in T
  BY <1>2, <1>5
<1>7. PICK m \in 1 .. lastId : Best(lastId, m)
  BY <1>1, <1>6 DEF SomeResumable
<1>8. \E id \in DOMAIN sessions :
        /\ Resumable(id)
        /\ \A other \in DOMAIN sessions :
             Resumable(other) =>
               \/ sessions[other].startedAt < sessions[id].startedAt
               \/ sessions[other].startedAt = sessions[id].startedAt /\ other <= id
  BY <1>1, <1>7 DEF Latter
<1> QED
  BY <1>8, Zenon DEF LatestResumable

-----------------------------------------------------------------------------
(* The parts of the invariant: the sessions, and the process.              *)
WholeList == given \cap {"template", "positions"} = {}
Plain == given \subseteq {"noWalk"}

RowWhole(id) ==
    sessions[id].mode = "sweep" =>
        /\ sessions[id].meta.positions = DefaultPositions
        /\ \A i \in DOMAIN DefaultList :
             DefaultList[i] = sessions[id].sig.position =>
                Before(sessions[id].sig.template, i)
RowsWhole == \A id \in DOMAIN sessions : RowWhole(id)
LoopWhole ==
    InSweep => /\ cfg.positions = DefaultPositions
               /\ ~cancelled => Before(cfg.template, at)

StoreOK ==
    /\ TableOK /\ attempts = <<>> /\ UniqueResumable /\ RowsOK
    /\ NothingForgotten /\ (WholeList => RowsWhole)

VarsOK ==
    /\ pc \in Pcs /\ flags \in FlagSets \cup {NoFlags} /\ IsConfig(cfg)
    /\ pc \in {"retire", "begin", "sweep"} => at \in DOMAIN positions
    /\ last \in {0} \cup DOMAIN sessions
    /\ open # 0 <=> pc \in {"sweep", "walk", "walk end"}
    /\ open # 0 => open \in DOMAIN sessions /\ sessions[open].status = "running"
    /\ cancelled \in BOOLEAN /\ runs \in 0 .. MaxRuns
    /\ given \subseteq DOMAIN NoFlags

ProcessOK ==
    /\ VarsOK /\ Control /\ LastHeld /\ NothingLeft
    /\ WholeList => LoopWhole

LEMMA Parts == IndInv <=> StoreOK /\ ProcessOK
<1>1. TypeOK <=> TableOK /\ attempts = <<>> /\ VarsOK
  BY DEF TypeOK, TableOK, VarsOK
<1>2. WholeSoFar <=> (WholeList => RowsWhole /\ LoopWhole)
  BY DEF WholeSoFar, WholeList, RowsWhole, RowWhole, LoopWhole
<1> QED
  BY <1>1, <1>2 DEF IndInv, StoreOK, ProcessOK

-----------------------------------------------------------------------------
(* Statements that begin no session: they change statuses and progress,    *)
(* take no progress back and make no session resumable.                    *)
Tended ==
    /\ UNCHANGED <<attempts, lastId>> /\ DOMAIN sessions' = DOMAIN sessions
    /\ \A id \in DOMAIN sessions :
         /\ sessions'[id] \in Row /\ RowOK(sessions'[id])
         /\ sessions'[id].sig = sessions[id].sig
         /\ sessions'[id].mode = sessions[id].mode
         /\ sessions'[id].meta = sessions[id].meta
         /\ Exhausted(id) => Exhausted(id)'
         /\ Resumable(id)' => Resumable(id)

LEMMA TendedKeeps ==
    ASSUME StoreOK, Tended, given' = given
    PROVE  /\ StoreOK'
           /\ \A template, i : Before(template, i) => Before(template, i)'
           /\ SomeResumable' => SomeResumable
<1>1. /\ DOMAIN sessions' = DOMAIN sessions /\ attempts' = attempts /\ lastId' = lastId
      /\ \A id \in DOMAIN sessions :
           /\ sessions'[id].sig = sessions[id].sig
           /\ sessions'[id].mode = sessions[id].mode
           /\ sessions'[id].meta = sessions[id].meta
      /\ \A id \in DOMAIN sessions : Exhausted(id) => Exhausted(id)'
      /\ \A id \in DOMAIN sessions : Resumable(id)' => Resumable(id)
  BY DEF Tended
<1>2. TableOK' /\ RowsOK'
  BY <1>1 DEF Tended, StoreOK, TableOK, RowsOK
<1>3. UniqueResumable'
  BY <1>1 DEF StoreOK, UniqueResumable
<1>4. NothingForgotten'
  BY <1>1 DEF StoreOK, NothingForgotten
<1>5. ASSUME NEW template, NEW i, Before(template, i) PROVE Before(template, i)'
  <2>1. ASSUME NEW j \in 1 .. i - 1
        PROVE  \E id \in DOMAIN sessions' :
                 /\ sessions'[id].sig.template = template
                 /\ sessions'[id].sig.position = DefaultList[j]
                 /\ Exhausted(id)'
    <3>1. PICK id \in DOMAIN sessions :
            /\ sessions[id].sig.template = template
            /\ sessions[id].sig.position = DefaultList[j]
            /\ Exhausted(id)
      BY <1>5, <2>1 DEF Before
    <3> QED
      BY <1>1, <3>1
  <2> QED
    BY <2>1 DEF Before
<1>6. ASSUME WholeList' PROVE RowsWhole'
  <2>1. RowsWhole
    BY <1>6 DEF StoreOK, WholeList
  <2>2. ASSUME NEW id \in DOMAIN sessions PROVE RowWhole(id)'
    <3>1. PICK template, position :
            template = sessions[id].sig.template /\ position = sessions[id].sig.position
      OBVIOUS
    <3>2. sessions[id].mode = "sweep" =>
            /\ sessions[id].meta.positions = DefaultPositions
            /\ \A i \in DOMAIN DefaultList :
                 DefaultList[i] = position => Before(template, i)
      BY <2>1, <3>1 DEF RowsWhole, RowWhole
    <3>3. sessions'[id].mode = "sweep" =>
            /\ sessions'[id].meta.positions = DefaultPositions
            /\ \A i \in DOMAIN DefaultList :
                 DefaultList[i] = position => Before(template, i)'
      BY <1>1, <1>5, <3>2
    <3>4. /\ template = sessions'[id].sig.template
          /\ position = sessions'[id].sig.position
      BY <1>1, <3>1
    <3> QED
      BY <3>3, <3>4 DEF RowWhole
  <2> QED
    BY <1>1, <2>2 DEF RowsWhole
<1>7. SomeResumable' => SomeResumable
  BY <1>1 DEF SomeResumable
<1> QED
  BY <1>1, <1>2, <1>3, <1>4, <1>5, <1>6, <1>7 DEF StoreOK

LEMMA TendedSame == ASSUME StoreOK, UNCHANGED storage PROVE Tended
<1>1. UNCHANGED <<attempts, lastId>> /\ sessions' = sessions
  BY DEF storage
<1>2. \A id \in DOMAIN sessions :
        /\ sessions[id] \in Row /\ RowOK(sessions[id])
        /\ Exhausted(id)' = Exhausted(id) /\ Resumable(id)' = Resumable(id)
  BY <1>1 DEF StoreOK, TableOK, RowsOK, Exhausted, Resumable
<1> QED
  BY <1>1, <1>2 DEF Tended

LEMMA TendedMark == ASSUME StoreOK, NEW s, MarkPausedAsCompleted(s) PROVE Tended
<1>1. /\ UNCHANGED <<attempts, lastId>> /\ DOMAIN sessions' = DOMAIN sessions
      /\ \A id \in DOMAIN sessions :
           \/ sessions'[id] = sessions[id]
           \/ sessions'[id] = [sessions[id] EXCEPT !.status = "completed"]
  BY DEF MarkPausedAsCompleted
<1>2. \A id \in DOMAIN sessions :
        /\ sessions'[id] \in Row
        /\ sessions'[id].sig = sessions[id].sig
        /\ sessions'[id].mode = sessions[id].mode
        /\ sessions'[id].meta = sessions[id].meta
        /\ sessions'[id].cursor = sessions[id].cursor
        /\ sessions'[id].last = sessions[id].last
        /\ Resumable(id)' => Resumable(id)
  BY <1>1 DEF StoreOK, TableOK, Row, Statuses, Resumable
<1>3. \A id \in DOMAIN sessions : RowOK(sessions'[id])
  BY <1>2 DEF StoreOK, RowsOK, RowOK
<1>4. \A id \in DOMAIN sessions : Exhausted(id) => Exhausted(id)'
  BY <1>2 DEF Exhausted
<1> QED
  BY <1>1, <1>2, <1>3, <1>4 DEF Tended

LEMMA TendedEnd ==
    ASSUME StoreOK, NEW id0 \in DOMAIN sessions, Resumable(id0),
           NEW status \in {"paused", "completed"}, EndSession(id0, status)
    PROVE  /\ Tended /\ sessions'[id0].status = status
           /\ \A id \in DOMAIN sessions : id # id0 => sessions'[id] = sessions[id]
<1>1. /\ UNCHANGED <<attempts, lastId>> /\ DOMAIN sessions' = DOMAIN sessions
      /\ \A id \in DOMAIN sessions : id # id0 => sessions'[id] = sessions[id]
      /\ sessions'[id0] = [sessions[id0] EXCEPT !.status = status]
      /\ \A id \in DOMAIN sessions : sessions[id] \in Row
  BY DEF EndSession, StoreOK, TableOK
<1>2. /\ sessions'[id0] \in Row /\ sessions'[id0].status = status
      /\ sessions'[id0].sig = sessions[id0].sig
      /\ sessions'[id0].mode = sessions[id0].mode
      /\ sessions'[id0].meta = sessions[id0].meta
      /\ sessions'[id0].cursor = sessions[id0].cursor
      /\ sessions'[id0].last = sessions[id0].last
  BY <1>1 DEF Row, Statuses
<1>3. \A id \in DOMAIN sessions :
        /\ RowOK(sessions'[id]) /\ (Exhausted(id) => Exhausted(id)')
        /\ Resumable(id)' => Resumable(id)
  <2>1. \A id \in DOMAIN sessions : id # id0 =>
          /\ RowOK(sessions'[id]) /\ (Exhausted(id) => Exhausted(id)')
          /\ Resumable(id)' => Resumable(id)
    BY <1>1 DEF StoreOK, RowsOK, Exhausted, Resumable
  <2>2. RowOK(sessions'[id0]) /\ (Exhausted(id0) => Exhausted(id0)')
    BY <1>2 DEF StoreOK, RowsOK, RowOK, Exhausted
  <2> QED
    BY <2>1, <2>2
<1> QED
  BY <1>1, <1>2, <1>3 DEF Tended

LEMMA TendedCheckpoint ==
    ASSUME StoreOK, NEW id0 \in DOMAIN sessions,
           NEW i \in sessions[id0].last + 1 .. WordlistSize - 1, Checkpoint(id0, i)
    PROVE  Tended /\ sessions'[id0].status = sessions[id0].status
<1>1. PICK word \in Int : word = i /\ sessions[id0].last < word /\ word <= WordlistSize - 1
  BY RunAssumption DEF StoreOK, TableOK, Row
<1>2. /\ UNCHANGED <<attempts, lastId>> /\ DOMAIN sessions' = DOMAIN sessions
      /\ \A id \in DOMAIN sessions : id # id0 => sessions'[id] = sessions[id]
      /\ sessions'[id0] = [sessions[id0] EXCEPT !.last = word]
      /\ \A id \in DOMAIN sessions : sessions[id] \in Row
  BY <1>1 DEF Checkpoint, StoreOK, TableOK
<1>3. /\ sessions'[id0] \in Row /\ sessions'[id0].status = sessions[id0].status
      /\ sessions'[id0].sig = sessions[id0].sig
      /\ sessions'[id0].mode = sessions[id0].mode
      /\ sessions'[id0].meta = sessions[id0].meta
      /\ sessions'[id0].cursor = sessions[id0].cursor
  BY <1>2 DEF Row
<1>4. ~ Exhausted(id0)
  <2>1. sessions[id0].last \in Int /\ WordlistSize - 1 \in Int
    BY <1>2, RunAssumption DEF Row
  <2> QED
    BY <1>1, <2>1 DEF Exhausted
<1>5. \A id \in DOMAIN sessions : id # id0 =>
        /\ RowOK(sessions'[id]) /\ (Exhausted(id) => Exhausted(id)')
        /\ Resumable(id)' => Resumable(id)
  BY <1>2 DEF StoreOK, RowsOK, Exhausted, Resumable
<1>6. RowOK(sessions'[id0]) /\ (Resumable(id0)' => Resumable(id0))
  BY <1>3 DEF StoreOK, RowsOK, RowOK, Resumable
<1> QED
  BY <1>2, <1>3, <1>4, <1>5, <1>6 DEF Tended

LEMMA TendedCursor ==
    ASSUME StoreOK, NEW id0 \in DOMAIN sessions, sessions[id0].mode = "walk",
           NEW c \in Odometers, CheckpointCursor(id0, c)
    PROVE  /\ Tended /\ sessions'[id0].status = sessions[id0].status
           /\ sessions'[id0].cursor = c
           /\ \A id \in DOMAIN sessions : id # id0 => sessions'[id] = sessions[id]
<1>1. /\ UNCHANGED <<attempts, lastId>> /\ DOMAIN sessions' = DOMAIN sessions
      /\ \A id \in DOMAIN sessions : id # id0 => sessions'[id] = sessions[id]
      /\ sessions'[id0] = [sessions[id0] EXCEPT !.cursor = c]
      /\ \A id \in DOMAIN sessions : sessions[id] \in Row
  BY DEF CheckpointCursor, StoreOK, TableOK
<1>2. c \in Cursors
  BY ColumnAssumption
<1>3. /\ sessions'[id0] \in Row /\ sessions'[id0].status = sessions[id0].status
      /\ sessions'[id0].sig = sessions[id0].sig
      /\ sessions'[id0].mode = sessions[id0].mode
      /\ sessions'[id0].meta = sessions[id0].meta
      /\ sessions'[id0].cursor = c
      /\ sessions'[id0].last = sessions[id0].last
  BY <1>1, <1>2 DEF Row
<1>4. \A id \in DOMAIN sessions : id # id0 =>
        /\ RowOK(sessions'[id]) /\ (Exhausted(id) => Exhausted(id)')
        /\ Resumable(id)' => Resumable(id)
  BY <1>1 DEF StoreOK, RowsOK, Exhausted, Resumable
<1>5. RowOK(sessions'[id0])
  <2>1. RowOK(sessions[id0]) /\ sessions'[id0].mode # "sweep"
    BY <1>3 DEF StoreOK, RowsOK
  <2> QED
    BY <1>3, <2>1 DEF RowOK
<1>6. (Resumable(id0)' => Resumable(id0)) /\ (Exhausted(id0) => Exhausted(id0)')
  BY <1>3 DEF Resumable, Exhausted
<1> QED
  BY <1>1, <1>3, <1>4, <1>5, <1>6 DEF Tended

(* BeginSession: the session begun is the one of its signature to resume,  *)
(* if there is one.  What is known of its row:                             *)
RowFits(s, m, mode, cur) ==
    \A row : row.sig = s /\ row.meta = m /\ row.mode = mode /\ row.cursor = cur
               => RowOK(row)
(* With the default list, the positions before that of s are exhausted.    *)
SweptUpTo(s, m, mode) ==
    mode = "sweep" =>
        /\ m.positions = DefaultPositions
        /\ \A i \in DOMAIN DefaultList :
             DefaultList[i] = s.position => Before(s.template, i)
(* No other session is to be resumed.                                      *)
OnlyOf(s) == \A id \in DOMAIN sessions : Resumable(id) => id \in ResumableIds(s)

LEMMA BeginKeeps ==
    ASSUME StoreOK, given' = given,
           NEW s \in Signatures, NEW m \in Metas, NEW mode \in Modes,
           NEW cur \in Cursors, NEW now \in Nat, NEW id0,
           id0 = BeginSessionId(s),
           BeginSession([sig |-> s, meta |-> m, mode |-> mode, cursor |-> cur], now),
           RowFits(s, m, mode, cur), Plain => OnlyOf(s), WholeList => SweptUpTo(s, m, mode)
    PROVE  /\ StoreOK'
           /\ \A template, i : Before(template, i) => Before(template, i)'
           /\ DOMAIN sessions \subseteq DOMAIN sessions'
           /\ \A id \in DOMAIN sessions : id # id0 => sessions'[id] = sessions[id]
           /\ id0 \in DOMAIN sessions' /\ id0 # 0
           /\ sessions'[id0].status = "running" /\ sessions'[id0].sig = s
           /\ sessions'[id0].mode = mode /\ sessions'[id0].cursor = cur
           /\ id0 \in DOMAIN sessions => id0 \in ResumableIds(s)
<1>1. TableOK /\ UniqueResumable /\ attempts = <<>>
  BY DEF StoreOK
<1>0. Begun(id0, s, m, mode, cur)
  BY <1>1, BeginFacts
<1>2. /\ TableOK' /\ UniqueResumable' /\ attempts' = attempts
      /\ DOMAIN sessions' = DOMAIN sessions \cup {id0} /\ id0 \in Nat \ {0}
      /\ \A id \in DOMAIN sessions : id # id0 => sessions'[id] = sessions[id]
      /\ sessions'[id0].status = "running" /\ sessions'[id0].sig = s
      /\ sessions'[id0].mode = mode /\ sessions'[id0].cursor = cur
      /\ sessions'[id0].meta = m
      /\ ResumableIds(s) = {} => id0 \notin DOMAIN sessions
      /\ ResumableIds(s) # {} =>
           id0 \in ResumableIds(s) /\ sessions'[id0].last = sessions[id0].last
  BY <1>0 DEF Begun
<1>4. id0 \in DOMAIN sessions =>
        /\ id0 \in ResumableIds(s) /\ Resumable(id0) /\ sessions[id0].sig = s
        /\ sessions'[id0].last = sessions[id0].last
  BY <1>2 DEF ResumableIds
<1>5. RowsOK'
  <2>1. RowOK(sessions'[id0])
    BY <1>2 DEF RowFits
  <2> QED
    BY <1>2, <2>1 DEF StoreOK, RowsOK
<1>6. NothingForgotten'
  <2>1. ASSUME Plain, NEW a \in DOMAIN sessions', Resumable(a)', a # id0 PROVE FALSE
    <3>1. a \in DOMAIN sessions /\ Resumable(a)
      BY <1>2, <2>1 DEF Resumable
    <3>2. a \in ResumableIds(s)
      BY <2>1, <3>1 DEF OnlyOf
    <3>3. id0 \in DOMAIN sessions /\ Resumable(id0)
      BY <1>2, <3>2 DEF ResumableIds
    <3>4. a = id0
      BY <2>1, <3>1, <3>3 DEF StoreOK, NothingForgotten, Plain
    <3> QED
      BY <2>1, <3>4
  <2> QED
    BY <2>1 DEF NothingForgotten, Plain
<1>7. ASSUME NEW id \in DOMAIN sessions
      PROVE  sessions'[id].sig = sessions[id].sig /\ (Exhausted(id) => Exhausted(id)')
  BY <1>2, <1>4, <1>7 DEF Exhausted
<1>8. ASSUME NEW template, NEW i, Before(template, i) PROVE Before(template, i)'
  <2>1. ASSUME NEW j \in 1 .. i - 1
        PROVE  \E id \in DOMAIN sessions' :
                 /\ sessions'[id].sig.template = template
                 /\ sessions'[id].sig.position = DefaultList[j]
                 /\ Exhausted(id)'
    <3>1. PICK id \in DOMAIN sessions :
            /\ sessions[id].sig.template = template
            /\ sessions[id].sig.position = DefaultList[j]
            /\ Exhausted(id)
      BY <1>8, <2>1 DEF Before
    <3> QED
      BY <1>2, <1>7, <3>1
  <2> QED
    BY <2>1 DEF Before
<1>9. ASSUME WholeList' PROVE RowsWhole'
  <2>1. WholeList /\ RowsWhole
    BY <1>9 DEF StoreOK, WholeList
  <2>2. ASSUME NEW id \in DOMAIN sessions, id # id0 PROVE RowWhole(id)'
    <3>1. PICK template, position :
            template = sessions[id].sig.template /\ position = sessions[id].sig.position
      OBVIOUS
    <3>2. sessions[id].mode = "sweep" =>
            /\ sessions[id].meta.positions = DefaultPositions
            /\ \A i \in DOMAIN DefaultList :
                 DefaultList[i] = position => Before(template, i)
      BY <2>1, <3>1 DEF RowsWhole, RowWhole
    <3>3. sessions'[id] = sessions[id]
      BY <1>2, <2>2
    <3>4. /\ sessions'[id].mode = "sweep" =>
               /\ sessions'[id].meta.positions = DefaultPositions
               /\ \A i \in DOMAIN DefaultList :
                    DefaultList[i] = position => Before(template, i)'
          /\ template = sessions'[id].sig.template
          /\ position = sessions'[id].sig.position
      BY <1>8, <3>1, <3>2, <3>3
    <3> QED
      BY <3>4 DEF RowWhole
  <2>3. RowWhole(id0)'
    <3>1. PICK template, position : template = s.template /\ position = s.position
      OBVIOUS
    <3>2. mode = "sweep" =>
            /\ m.positions = DefaultPositions
            /\ \A i \in DOMAIN DefaultList :
                 DefaultList[i] = position => Before(template, i)
      BY <2>1, <3>1 DEF SweptUpTo
    <3>3. /\ sessions'[id0].mode = "sweep" =>
               /\ sessions'[id0].meta.positions = DefaultPositions
               /\ \A i \in DOMAIN DefaultList :
                    DefaultList[i] = position => Before(template, i)'
          /\ template = sessions'[id0].sig.template
          /\ position = sessions'[id0].sig.position
      BY <1>2, <1>8, <3>1, <3>2
    <3> QED
      BY <3>3 DEF RowWhole
  <2> QED
    BY <1>2, <2>2, <2>3 DEF RowsWhole
<1>10. StoreOK'
  BY <1>1, <1>2, <1>5, <1>6, <1>9 DEF StoreOK
<1> QED
  BY <1>2, <1>4, <1>8, <1>10

-----------------------------------------------------------------------------
(* The command line and the configuration.                                 *)

LEMMA GivenFacts ==
    ASSUME NEW f \in FlagSets \cup {NoFlags}
    PROVE  /\ Given(f) \subseteq DOMAIN NoFlags
           /\ f.template \in AllTemplates \cup {None}
           /\ f.positions \in Texts \cup {None} /\ f.settings \in Settings \cup {None}
           /\ f.reset \in BOOLEAN /\ f.skipSweep \in BOOLEAN
           /\ "template" \notin Given(f) => f.template = None
           /\ "positions" \notin Given(f) => f.positions = None
           /\ "settings" \notin Given(f) => f.settings = None
           /\ "reset" \notin Given(f) => f.reset = FALSE
           /\ "skipSweep" \notin Given(f) => f.skipSweep = FALSE
<1>1. /\ NoFlags.template = None /\ NoFlags.positions = None /\ NoFlags.settings = None
      /\ NoFlags.reset = FALSE /\ NoFlags.skipSweep = FALSE /\ NoFlags.noWalk = FALSE
      /\ DOMAIN NoFlags
           = {"template", "positions", "settings", "reset", "noWalk", "skipSweep"}
  BY DEF NoFlags
<1>2. /\ f.template \in AllTemplates \cup {None}
      /\ f.positions \in Texts \cup {None} /\ f.settings \in Settings \cup {None}
      /\ f.reset \in BOOLEAN /\ f.skipSweep \in BOOLEAN
      /\ DOMAIN f = DOMAIN NoFlags
  <2>1. CASE f = NoFlags
    BY <1>1, <2>1
  <2>2. CASE f \in FlagSets
    <3>1. f \in Flags
      BY <2>2, RunAssumption
    <3>2. /\ f.template \in AllTemplates \cup {None}
          /\ f.settings \in Settings \cup {None}
          /\ f.reset \in BOOLEAN /\ f.skipSweep \in BOOLEAN
          /\ DOMAIN f = DOMAIN NoFlags
      BY <1>1, <3>1 DEF Flags, AllTemplates
    <3>3. f.positions \in Texts \cup {None}
      BY <2>2 DEF Texts
    <3> QED
      BY <3>2, <3>3
  <2> QED
    BY <2>1, <2>2
<1>3. \A name \in DOMAIN NoFlags : name \notin Given(f) => f[name] = NoFlags[name]
  BY <1>2 DEF Given
<1>4. Given(f) \subseteq DOMAIN NoFlags
  BY <1>2 DEF Given
<1> QED
  BY <1>1, <1>2, <1>3, <1>4

LEMMA NothingGiven == Given(NoFlags) = {}
BY DEF Given

(* What a process takes over from the session it goes on with.             *)
LEMMA InheritFacts ==
    ASSUME StoreOK, NEW f \in FlagSets \cup {NoFlags},
           NEW id \in {0} \cup DOMAIN sessions,
           NEW c, c = inheritFromSession(f, id), NEW row, row = sessions[id]
    PROVE  /\ c.template \in AllTemplates \cup {None} /\ c.positions \in Texts
           /\ f.settings = None /\ id # 0 => c.settings = row.sig.settings
           /\ f.template = None /\ id # 0 /\ row.mode = "sweep" =>
                c.template = row.meta.template
           /\ f.positions = None /\ id # 0 /\ row.mode = "sweep" =>
                c.positions = row.meta.positions
           /\ f.positions = None /\ (id = 0 \/ row.mode # "sweep") =>
                c.positions = DefaultPositions
           /\ c = [template |-> c.template, positions |-> c.positions,
                   settings |-> c.settings]
<1>1. /\ f.template \in AllTemplates \cup {None}
      /\ f.positions \in Texts \cup {None} /\ f.settings \in Settings \cup {None}
      /\ DefaultPositions \in Texts
  BY GivenFacts DEF Texts
<1>2. /\ None \notin Settings /\ ValidSettings \subseteq Settings
      /\ NoCfg.template = None /\ NoCfg.positions = NoPositions
  BY RunAssumption DEF NoCfg
<1>3. CASE id = 0
  <2>1. c = [template |-> Inherit(f.template, None, None, None),
             positions |-> Inherit(f.positions, NoPositions, NoPositions, DefaultPositions),
             settings |-> Inherit(f.settings, None, None, DefaultSettings)]
    BY <1>2, <1>3 DEF inheritFromSession
  <2>2. /\ c.template = Inherit(f.template, None, None, None)
        /\ c.positions
             = Inherit(f.positions, NoPositions, NoPositions, DefaultPositions)
    BY <2>1
  <2>3. c = [template |-> c.template, positions |-> c.positions, settings |-> c.settings]
    BY <2>1
  <2> QED
    BY <1>1, <1>3, <2>2, <2>3 DEF Inherit
<1>4. CASE id # 0
  <2>1. /\ c = [template |-> Inherit(f.template, row.meta.template, None, None),
                positions |-> Inherit(f.positions, row.meta.positions, NoPositions,
                                      DefaultPositions),
                settings |-> Inherit(f.settings, row.sig.settings, None, DefaultSettings)]
    BY <1>4 DEF inheritFromSession
  <2>2. /\ c.template = Inherit(f.template, row.meta.template, None, None)
        /\ c.positions = Inherit(f.positions, row.meta.positions, NoPositions,
                                 DefaultPositions)
        /\ c.settings = Inherit(f.settings, row.sig.settings, None, DefaultSettings)
    BY <2>1
  <2>3. c = [template |-> c.template, positions |-> c.positions, settings |-> c.settings]
    BY <2>1
  <2>4. RowOK(row) /\ row.mode \in Modes
    BY <1>4 DEF StoreOK, RowsOK, TableOK, Row
  <2>5. row.sig.settings \in ValidSettings
    BY <2>4 DEF RowOK, Modes
  <2>6. CASE row.mode = "sweep"
    <3>1. row.meta.template \in AllTemplates /\ row.meta.positions \in ValidTexts
      BY <2>4, <2>6 DEF RowOK
    <3>2. row.meta.positions \in Texts /\ row.meta.positions # NoPositions
      BY <3>1, ValidText
    <3>3. row.meta.template # None
      BY <3>1, RunAssumption DEF AllTemplates
    <3> QED
      BY <1>1, <1>2, <1>4, <2>2, <2>3, <2>5, <2>6, <3>1, <3>2, <3>3 DEF Inherit
  <2>7. CASE row.mode = "walk"
    <3>1. row.meta.template = None /\ row.meta.positions = NoPositions
      BY <2>4, <2>7 DEF RowOK
    <3> QED
      BY <1>1, <1>2, <1>4, <2>2, <2>3, <2>5, <2>7, <3>1 DEF Inherit
  <2> QED
    BY <2>4, <2>6, <2>7 DEF Modes
<1> QED
  BY <1>3, <1>4

-----------------------------------------------------------------------------
(* The steps.                                                              *)

LEMMA ReturnKeeps == ASSUME IndInv, Return, StoreOK' PROVE IndInv'
<1>1. /\ ProcessOK
      /\ pc' = "idle" /\ flags' = NoFlags /\ cfg' = NoCfg /\ at' = 1 /\ last' = 0
      /\ open' = 0 /\ cancelled' = FALSE /\ runs' = runs /\ given' = given
  BY Parts DEF Return
<1>2. VarsOK'
  <2>1. IsConfig(NoCfg)
    BY RunAssumption DEF IsConfig, NoCfg
  <2>2. IsConfig(cfg)'
    BY <1>1, <2>1 DEF IsConfig
  <2> QED
    BY <1>1, <2>2 DEF ProcessOK, VarsOK, Pcs, Startup
<1>3. Control'
  BY <1>1, NothingGiven DEF Control, InSweep, InWalk, Given
<1>4. LastHeld' /\ NothingLeft' /\ LoopWhole'
  BY <1>1 DEF LastHeld, NothingLeft, LoopWhole, InSweep
<1>5. ProcessOK'
  BY <1>2, <1>3, <1>4 DEF ProcessOK
<1> QED
  BY <1>5, Parts, PTL

(* runE returns and leaves the store alone.                                *)
Quit == Return /\ UNCHANGED storage

LEMMA QuitKeeps == ASSUME IndInv, Quit PROVE IndInv'
<1>1. StoreOK /\ Tended /\ given' = given
  BY Parts, TendedSame DEF Quit, Return
<1>2. StoreOK'
  BY <1>1, TendedKeeps
<1> QED
  BY <1>2, ReturnKeeps DEF Quit

LEMMA InitHolds == ASSUME Init PROVE IndInv
<1>1. /\ sessions = [id \in {} |-> {}] /\ attempts = <<>> /\ lastId = 0
      /\ pc = "idle" /\ flags = NoFlags /\ cfg = NoCfg /\ at = 1 /\ last = 0 /\ open = 0
      /\ cancelled = FALSE /\ runs = 0 /\ given = {}
  BY DEF Init, StorageInit
<1>2. DOMAIN sessions = {} /\ 1 .. lastId = {} /\ lastId \in Nat
  BY <1>1
<1>3. StoreOK
  BY <1>1, <1>2 DEF StoreOK, TableOK, UniqueResumable, RowsOK, NothingForgotten, RowsWhole
<1>4. VarsOK
  <2>1. IsConfig(NoCfg)
    BY RunAssumption DEF IsConfig, NoCfg
  <2>2. 0 \in 0 .. MaxRuns
    BY RunAssumption
  <2> QED
    BY <1>1, <2>1, <2>2 DEF VarsOK, Pcs, Startup
<1>5. Control
  BY <1>1, NothingGiven DEF Control, InSweep, InWalk
<1>6. LastHeld /\ NothingLeft /\ LoopWhole
  BY <1>1 DEF LastHeld, NothingLeft, LoopWhole, InSweep
<1>7. ProcessOK
  BY <1>4, <1>5, <1>6 DEF ProcessOK
<1> QED
  BY <1>3, <1>7, Parts

(* Steps that leave the store alone.                                       *)
LEMMA StoreSame ==
    ASSUME IndInv, UNCHANGED <<sessions, attempts, lastId>>, given \subseteq given'
    PROVE  /\ StoreOK'
           /\ \A template, i : Before(template, i)' <=> Before(template, i)
           /\ \A id : Resumable(id)' <=> Resumable(id)
           /\ SomeResumable' <=> SomeResumable
<1>1. StoreOK
  BY Parts
<1>2. TableOK' /\ UniqueResumable' /\ RowsOK' /\ NothingForgotten' /\ attempts' = <<>>
  BY <1>1 DEF StoreOK, TableOK, UniqueResumable, RowsOK, NothingForgotten, Resumable
<1>3. \A template, i : Before(template, i)' <=> Before(template, i)
  BY DEF Before, Exhausted
<1>4. (WholeList' => WholeList) /\ (RowsWhole => RowsWhole')
  BY <1>3 DEF WholeList, RowsWhole, RowWhole
<1>5. /\ \A id : Resumable(id)' <=> Resumable(id)
      /\ SomeResumable' <=> SomeResumable
  BY DEF Resumable, SomeResumable
<1> QED
  BY <1>1, <1>2, <1>3, <1>4, <1>5 DEF StoreOK

LEMMA InvokeKeeps == ASSUME IndInv, NEW f \in FlagSets, Invoke(f) PROVE IndInv'
<1>1. /\ ProcessOK
      /\ pc = "idle" /\ runs < MaxRuns /\ pc' = "lookup" /\ flags' = f
      /\ runs' = runs + 1 /\ given' = given \cup Given(f)
      /\ UNCHANGED <<sessions, attempts, lastId, cfg, at, last, open, cancelled>>
  BY Parts DEF Invoke, storage
<1>2. StoreOK'
  BY <1>1, StoreSame
<1>3. Given(f) \subseteq DOMAIN NoFlags
  BY GivenFacts
<1>4. VarsOK'
  <2>1. VarsOK /\ runs + 1 \in 0 .. MaxRuns
    BY <1>1, RunAssumption DEF ProcessOK, VarsOK
  <2>2. IsConfig(cfg)'
    BY <1>1, <2>1 DEF VarsOK, IsConfig
  <2> QED
    BY <1>1, <1>3, <2>1, <2>2 DEF VarsOK, Pcs, Startup
<1>5. last' = 0 /\ cancelled' = FALSE
  BY <1>1 DEF ProcessOK, LastHeld, Control, VarsOK
<1>6. Control'
  BY <1>1, <1>5 DEF Control, InSweep, InWalk, Given
<1>7. LastHeld' /\ NothingLeft' /\ LoopWhole'
  BY <1>1, <1>5 DEF LastHeld, NothingLeft, LoopWhole, InSweep
<1>8. ProcessOK'
  BY <1>4, <1>6, <1>7 DEF ProcessOK
<1> QED
  BY <1>2, <1>8, Parts, PTL

LEMMA CancelKeeps == ASSUME IndInv, Cancel PROVE IndInv'
<1>1. /\ ProcessOK /\ pc # "idle" /\ cancelled' = TRUE
      /\ UNCHANGED <<sessions, attempts, lastId, pc, flags, cfg, at, last, open, runs, given>>
  BY Parts DEF Cancel, storage
<1>2. StoreOK' /\ (SomeResumable' <=> SomeResumable)
      /\ \A id : Resumable(id)' <=> Resumable(id)
  BY <1>1, StoreSame
<1>3. VarsOK'
  <2>1. IsConfig(cfg)'
    BY <1>1 DEF ProcessOK, VarsOK, IsConfig
  <2> QED
    BY <1>1, <2>1 DEF ProcessOK, VarsOK, positions
<1>4. Control'
  BY <1>1 DEF ProcessOK, Control, InSweep, InWalk, SweepSig, WalkSig, positions, Given
<1>5. LastHeld'
  BY <1>1, <1>2 DEF ProcessOK, LastHeld, SweepSig, WalkSig, positions, Given
<1>6. NothingLeft' /\ (WholeList' => LoopWhole')
  BY <1>1, <1>2 DEF ProcessOK, NothingLeft, LoopWhole, WholeList, InSweep
<1>7. ProcessOK'
  BY <1>3, <1>4, <1>5, <1>6 DEF ProcessOK
<1> QED
  BY <1>2, <1>7, Parts, PTL

LEMMA RestKeeps == ASSUME IndInv, UNCHANGED vars PROVE IndInv'
<1>1. /\ ProcessOK
      /\ UNCHANGED <<sessions, attempts, lastId, pc, flags, cfg, at, last, open, cancelled,
                     runs, given>>
  BY Parts DEF vars, storage
<1>2. StoreOK' /\ (SomeResumable' <=> SomeResumable)
      /\ \A id : Resumable(id)' <=> Resumable(id)
  BY <1>1, StoreSame
<1>3. VarsOK'
  <2>1. IsConfig(cfg)'
    BY <1>1 DEF ProcessOK, VarsOK, IsConfig
  <2> QED
    BY <1>1, <2>1 DEF ProcessOK, VarsOK, positions
<1>4. Control'
  BY <1>1 DEF ProcessOK, Control, InSweep, InWalk, SweepSig, WalkSig, positions, Given
<1>5. LastHeld'
  BY <1>1, <1>2 DEF ProcessOK, LastHeld, SweepSig, WalkSig, positions, Given
<1>6. NothingLeft' /\ (WholeList' => LoopWhole')
  <2>1. \A template, i : Before(template, i)' <=> Before(template, i)
    BY <1>1, StoreSame
  <2> QED
    BY <1>1, <1>2, <2>1 DEF ProcessOK, NothingLeft, LoopWhole, WholeList, InSweep
<1>7. ProcessOK'
  BY <1>3, <1>4, <1>5, <1>6 DEF ProcessOK
<1> QED
  BY <1>2, <1>7, Parts, PTL

(* The list in force while the loop over the positions is on.              *)
LEMMA ListInForce ==
    ASSUME ProcessOK, InSweep
    PROVE  /\ Len(positions) \in Nat /\ Len(positions) >= 1
           /\ DOMAIN positions = 1 .. Len(positions)
           /\ \A i \in DOMAIN positions : positions[i] \in WordPositions
           /\ \A i, j \in DOMAIN positions : positions[i] = positions[j] => i = j
           /\ at \in 1 .. Len(positions) + 1
<1>1. cfg.positions \in ValidTexts /\ at \in 1 .. Len(positions) + 1
  BY DEF ProcessOK, Control
<1> QED
  BY <1>1, ValidText DEF positions

LEMMA NextPositionKeeps == ASSUME IndInv, NextPosition PROVE IndInv'
<1>1. /\ StoreOK /\ ProcessOK
      /\ pc = "next" /\ at <= Len(positions) /\ ~ cancelled
      /\ pc' = StartOf(FALSE)
      /\ UNCHANGED <<sessions, attempts, lastId, flags, cfg, at, last, open, cancelled, runs,
                     given>>
  BY Parts DEF NextPosition, storage
<1>2. StoreOK' /\ (SomeResumable' <=> SomeResumable)
      /\ \A id : Resumable(id)' <=> Resumable(id)
  BY <1>1, StoreSame
<1>3. \/ pc' = "retire" /\ flags.reset
      \/ pc' = "begin" /\ ~ flags.reset
  BY <1>1 DEF StartOf
<1>4. at \in DOMAIN positions
  BY <1>1, ListInForce DEF InSweep
<1>5. VarsOK'
  <2>1. IsConfig(cfg)'
    BY <1>1 DEF ProcessOK, VarsOK, IsConfig
  <2> QED
    BY <1>1, <1>3, <1>4, <2>1 DEF ProcessOK, VarsOK, positions, Pcs, Startup
<1>6. Control'
  BY <1>1, <1>3 DEF ProcessOK, Control, VarsOK, InSweep, InWalk, positions, Given
<1>7. LastHeld'
  BY <1>1, <1>2, <1>3 DEF ProcessOK, LastHeld, Control, SweepSig, positions, Given
<1>8. NothingLeft' /\ (WholeList' => LoopWhole')
  <2>1. \A template, i : Before(template, i)' <=> Before(template, i)
    BY <1>1, StoreSame
  <2> QED
    BY <1>1, <1>2, <1>3, <2>1 DEF ProcessOK, NothingLeft, LoopWhole, WholeList, InSweep
<1>9. ProcessOK'
  BY <1>5, <1>6, <1>7, <1>8 DEF ProcessOK
<1> QED
  BY <1>2, <1>9, Parts, PTL

LEMMA SweepCompleteKeeps == ASSUME IndInv, SweepComplete PROVE IndInv'
<1>1. CASE ~ WalkNext
  BY <1>1, QuitKeeps DEF SweepComplete, Quit
<1>2. CASE WalkNext
  <2>1. /\ StoreOK /\ ProcessOK
        /\ pc = "next" /\ at > Len(positions) /\ pc' = StartOf(TRUE)
        /\ UNCHANGED <<sessions, attempts, lastId, flags, cfg, at, last, open, cancelled,
                       runs, given>>
    BY <1>2, Parts DEF SweepComplete, storage
  <2>2. StoreOK' /\ (SomeResumable' <=> SomeResumable)
    BY <2>1, StoreSame
  <2>3. \/ pc' = "walk retire" /\ flags.reset
        \/ pc' = "walk begin" /\ ~ flags.reset
    BY <2>1 DEF StartOf
  <2>4. last = 0
    <3>1. at \notin DOMAIN positions
      BY <2>1, ListInForce DEF InSweep
    <3> QED
      BY <2>1, <3>1 DEF ProcessOK, LastHeld
  <2>5. VarsOK'
    <3>1. IsConfig(cfg)'
      BY <2>1 DEF ProcessOK, VarsOK, IsConfig
    <3> QED
      BY <2>1, <2>3, <3>1 DEF ProcessOK, VarsOK, Pcs, Startup
  <2>6. Control'
    BY <2>1, <2>3, <2>4 DEF ProcessOK, Control, VarsOK, InSweep, InWalk, Given
  <2>7. LastHeld' /\ NothingLeft' /\ LoopWhole'
    BY <2>1, <2>2, <2>3, <2>4 DEF ProcessOK, LastHeld, NothingLeft, LoopWhole, InSweep
  <2>8. ProcessOK'
    BY <2>5, <2>6, <2>7 DEF ProcessOK
  <2> QED
    BY <2>2, <2>8, Parts, PTL
<1> QED
  BY <1>1, <1>2

LEMMA RetireKeeps == ASSUME IndInv, Retire \/ WalkRetire PROVE IndInv'
<1>1. PICK s : MarkPausedAsCompleted(s)
  BY DEF Retire, WalkRetire
<1>2. /\ StoreOK /\ ProcessOK
      /\ \/ pc = "retire" /\ pc' = "begin"
         \/ pc = "walk retire" /\ pc' = "walk begin"
      /\ UNCHANGED <<flags, cfg, at, last, open, cancelled, runs, given>>
  BY Parts DEF Retire, WalkRetire
<1>3. /\ StoreOK' /\ \A template, i : Before(template, i) => Before(template, i)'
      /\ DOMAIN sessions' = DOMAIN sessions
  BY <1>1, <1>2, TendedMark, TendedKeeps DEF Tended
<1>4. flags.reset /\ last = 0
  BY <1>2 DEF ProcessOK, Control
<1>5. open = 0 /\ flags \in FlagSets \cup {NoFlags}
  BY <1>2 DEF ProcessOK, VarsOK
<1>6. VarsOK'
  <2>1. IsConfig(cfg)'
    BY <1>2 DEF ProcessOK, VarsOK, IsConfig
  <2> QED
    BY <1>2, <1>4, <1>5, <2>1 DEF ProcessOK, VarsOK, Pcs, Startup, positions
<1>7. Control'
  BY <1>2, <1>4, <1>5 DEF ProcessOK, Control, InSweep, InWalk, Given, positions
<1>8. NothingLeft'
  <2>1. "reset" \in given
    BY <1>2, <1>4, <1>5, GivenFacts DEF ProcessOK, Control
  <2> QED
    BY <1>2, <2>1 DEF NothingLeft
<1>9. LastHeld' /\ (WholeList' => LoopWhole')
  BY <1>2, <1>3, <1>4 DEF ProcessOK, LastHeld, LoopWhole, WholeList, InSweep
<1>10. ProcessOK'
  BY <1>6, <1>7, <1>8, <1>9 DEF ProcessOK
<1> QED
  BY <1>3, <1>10, Parts, PTL

LEMMA SweepOnKeeps == ASSUME IndInv, SweepOn PROVE IndInv'
<1>1. /\ StoreOK /\ ProcessOK /\ pc = "sweep"
      /\ UNCHANGED <<pc, flags, cfg, at, last, open, cancelled, runs, given>>
  BY Parts DEF SweepOn
<1>2. /\ open # 0 /\ last = 0 /\ open \in DOMAIN sessions
      /\ sessions[open].status = "running"
      /\ sessions[open].mode = "sweep" /\ sessions[open].sig = SweepSig
  BY <1>1 DEF ProcessOK, VarsOK, Control
<1>3. Tended /\ sessions'[open].status = sessions[open].status
  BY <1>1, <1>2, TendedCheckpoint DEF SweepOn
<1>4. /\ StoreOK' /\ DOMAIN sessions' = DOMAIN sessions
      /\ \A template, i : Before(template, i) => Before(template, i)'
      /\ sessions'[open].sig = sessions[open].sig
      /\ sessions'[open].mode = sessions[open].mode
  BY <1>1, <1>2, <1>3, TendedKeeps DEF Tended
<1>5. VarsOK'
  <2>1. IsConfig(cfg)'
    BY <1>1 DEF ProcessOK, VarsOK, IsConfig
  <2> QED
    BY <1>1, <1>2, <1>3, <1>4, <2>1 DEF ProcessOK, VarsOK, positions
<1>6. Control'
  BY <1>1, <1>2, <1>4 DEF ProcessOK, Control, InSweep, InWalk, SweepSig, positions, Given
<1>7. LastHeld' /\ NothingLeft' /\ (WholeList' => LoopWhole')
  BY <1>1, <1>2, <1>4 DEF ProcessOK, LastHeld, NothingLeft, LoopWhole, WholeList, InSweep
<1>8. ProcessOK'
  BY <1>5, <1>6, <1>7 DEF ProcessOK
<1> QED
  BY <1>4, <1>8, Parts, PTL

LEMMA SweepEndKeeps == ASSUME IndInv, SweepEnd PROVE IndInv'
<1>1. /\ StoreOK /\ ProcessOK /\ pc = "sweep"
      /\ open # 0 /\ last = 0 /\ open \in DOMAIN sessions
      /\ sessions[open].status = "running" /\ sessions[open].sig = SweepSig
      /\ at \in DOMAIN positions
  BY Parts DEF SweepEnd, ProcessOK, VarsOK, Control
<1>2. PICK status \in {"paused", "completed"} :
        /\ status \in FinalStatuses /\ EndSession(open, status)
        /\ IF status = "paused" THEN Return
           ELSE /\ pc' = "next" /\ at' = at + 1 /\ open' = 0
                /\ UNCHANGED <<flags, cfg, last, cancelled, runs, given>>
  BY DEF SweepEnd, FinalStatuses
<1>3. PICK id0 \in DOMAIN sessions :
        id0 = open /\ given' = given /\ Resumable(id0) /\ sessions[id0].sig = SweepSig
  BY <1>1, <1>2 DEF Return, Resumable
<1>4. /\ Tended /\ sessions'[id0].status = status
      /\ \A id \in DOMAIN sessions : id # id0 => sessions'[id] = sessions[id]
  BY <1>1, <1>2, <1>3, TendedEnd
<1>5. /\ StoreOK' /\ DOMAIN sessions' = DOMAIN sessions
      /\ \A template, i : Before(template, i) => Before(template, i)'
      /\ sessions'[id0].sig = sessions[id0].sig
      /\ Exhausted(id0) => Exhausted(id0)'
  BY <1>1, <1>3, <1>4, TendedKeeps DEF Tended
<1>6. CASE status = "paused"
  BY <1>2, <1>5, <1>6, ReturnKeeps
<1>7. CASE status # "paused"
  <2>1. /\ status = "completed" /\ pc' = "next" /\ at' = at + 1 /\ open' = 0
        /\ UNCHANGED <<flags, cfg, last, cancelled, runs, given>>
    BY <1>2, <1>7
  <2>2. /\ Len(positions) \in Nat /\ DOMAIN positions = 1 .. Len(positions)
        /\ at + 1 \in 1 .. Len(positions) + 1 /\ at \in Nat
    BY <1>1, ListInForce DEF InSweep
  <2>3. VarsOK'
    <3>1. IsConfig(cfg)'
      BY <1>1, <2>1 DEF ProcessOK, VarsOK, IsConfig
    <3> QED
      BY <1>1, <1>5, <2>1, <3>1 DEF ProcessOK, VarsOK, Pcs
  <2>4. Control'
    <3>1. at' \in 1 .. Len(positions') + 1
      BY <2>1, <2>2 DEF positions
    <3> QED
      BY <1>1, <2>1, <3>1 DEF ProcessOK, Control, InSweep, InWalk, Given
  <2>5. NothingLeft'
    <3>1. ASSUME Plain, NEW a \in DOMAIN sessions, Resumable(a)' PROVE FALSE
      <4>1. a # id0
        BY <1>4, <2>1, <3>1 DEF Resumable
      <4>2. Resumable(a)
        BY <1>4, <3>1, <4>1 DEF Resumable
      <4> QED
        BY <1>1, <1>3, <3>1, <4>1, <4>2 DEF StoreOK, NothingForgotten, Plain
    <3> QED
      BY <1>5, <2>1, <3>1 DEF NothingLeft, SomeResumable, Plain
  <2>6. ASSUME WholeList' PROVE LoopWhole'
    <3>1. /\ WholeList /\ cfg.positions = DefaultPositions
          /\ ~ cancelled => Before(cfg.template, at)
      BY <1>1, <2>1, <2>6 DEF ProcessOK, LoopWhole, InSweep, WholeList
    <3>2. PICK template, n, m : template = cfg.template /\ n = at /\ m = at + 1
      OBVIOUS
    <3>3. ASSUME ~ cancelled PROVE Before(template, m)'
      <4>1. Before(template, n)'
        BY <1>5, <3>1, <3>2, <3>3
      <4>2. Exhausted(id0)'
        BY <1>2, <1>3, <1>5, <2>1, <3>3 DEF FinalStatuses
      <4>3. /\ sessions'[id0].sig.template = template
            /\ sessions'[id0].sig.position = DefaultList[n]
        BY <1>3, <1>5, <3>1, <3>2 DEF SweepSig, positions, DefaultList
      <4>4. n \in Nat /\ \A j \in 1 .. m - 1 : j = n \/ j \in 1 .. n - 1
        BY <2>2, <3>2
      <4>5. ASSUME NEW j \in 1 .. m - 1
            PROVE  \E id \in DOMAIN sessions' :
                     /\ sessions'[id].sig.template = template
                     /\ sessions'[id].sig.position = DefaultList[j]
                     /\ Exhausted(id)'
        <5>1. CASE j = n
          BY <1>3, <1>5, <4>2, <4>3, <5>1
        <5>2. CASE j \in 1 .. n - 1
          BY <4>1, <5>2 DEF Before
        <5> QED
          BY <4>4, <5>1, <5>2
      <4> QED
        BY <4>5 DEF Before
    <3>4. cfg' = cfg /\ cancelled' = cancelled /\ template = cfg'.template /\ m = at'
      BY <2>1, <3>2
    <3> QED
      BY <3>1, <3>3, <3>4 DEF LoopWhole
  <2>7. LastHeld'
    BY <1>1, <2>1 DEF LastHeld
  <2>8. ProcessOK'
    BY <2>3, <2>4, <2>5, <2>6, <2>7 DEF ProcessOK
  <2> QED
    BY <1>5, <2>8, Parts, PTL
<1> QED
  BY <1>6, <1>7

(* The walk and its row.                                                   *)
LEMMA WalkRow ==
    ASSUME IndInv, pc \in {"walk", "walk end"}
    PROVE  /\ StoreOK /\ ProcessOK /\ open # 0 /\ last = 0 /\ open \in DOMAIN sessions
           /\ sessions[open].status = "running" /\ Resumable(open)
           /\ sessions[open].mode = "walk" /\ sessions[open].sig = WalkSig
           /\ sessions[open].cursor \in Odometers
<1>1. /\ StoreOK /\ ProcessOK /\ open # 0 /\ last = 0 /\ open \in DOMAIN sessions
      /\ sessions[open].status = "running" /\ Resumable(open)
      /\ sessions[open].mode = "walk" /\ sessions[open].sig = WalkSig
  BY Parts DEF ProcessOK, VarsOK, Control, Resumable
<1>2. RowOK(sessions[open])
  BY <1>1 DEF StoreOK, RowsOK
<1> QED
  BY <1>1, <1>2 DEF RowOK

LEMMA WritesOdometer ==
    ASSUME WalkOn \/ WalkWrap
    PROVE  \E c \in Odometers : CheckpointCursor(open, c)
<1>1. \A c \in Odometers : String(c) = c
  BY DEF String, Odometers
<1> QED
  BY <1>1, ZeroType DEF WalkOn, WalkWrap

LEMMA WalkOnKeeps == ASSUME IndInv, WalkOn \/ WalkWrap PROVE IndInv'
<1>1. /\ pc = "walk" /\ pc' \in {"walk", "walk end"}
      /\ UNCHANGED <<flags, cfg, at, last, open, cancelled, runs, given>>
  BY DEF WalkOn, WalkWrap
<1>2. /\ StoreOK /\ ProcessOK /\ open # 0 /\ last = 0 /\ open \in DOMAIN sessions
      /\ sessions[open].status = "running"
      /\ sessions[open].mode = "walk" /\ sessions[open].sig = WalkSig
  BY <1>1, WalkRow
<1>3. Tended /\ sessions'[open].status = sessions[open].status
  BY <1>2, WritesOdometer, TendedCursor
<1>4. /\ StoreOK' /\ DOMAIN sessions' = DOMAIN sessions
      /\ sessions'[open].sig = sessions[open].sig
      /\ sessions'[open].mode = sessions[open].mode
  BY <1>1, <1>2, <1>3, TendedKeeps DEF Tended
<1>5. VarsOK'
  <2>1. IsConfig(cfg)'
    BY <1>1, <1>2 DEF ProcessOK, VarsOK, IsConfig
  <2> QED
    BY <1>1, <1>2, <1>3, <1>4, <2>1 DEF ProcessOK, VarsOK, Pcs
<1>6. Control'
  BY <1>1, <1>2, <1>4 DEF ProcessOK, Control, InSweep, InWalk, WalkSig, Given
<1>7. LastHeld' /\ NothingLeft' /\ LoopWhole'
  BY <1>1, <1>2 DEF LastHeld, NothingLeft, LoopWhole, InSweep
<1>8. ProcessOK'
  BY <1>5, <1>6, <1>7 DEF ProcessOK
<1> QED
  BY <1>4, <1>8, Parts, PTL

LEMMA WalkEndKeeps == ASSUME IndInv, WalkEnd PROVE IndInv'
<1>1. /\ pc \in {"walk", "walk end"} /\ Return /\ given' = given
      /\ \E status \in {"paused", "completed"} : EndSession(open, status)
  BY DEF WalkEnd, Return
<1>2. StoreOK /\ open \in DOMAIN sessions /\ Resumable(open)
  BY <1>1, WalkRow
<1>3. Tended
  BY <1>1, <1>2, TendedEnd
<1>4. StoreOK'
  BY <1>1, <1>2, <1>3, TendedKeeps
<1> QED
  BY <1>1, <1>4, ReturnKeeps

LEMMA QuitsKeep ==
    ASSUME IndInv,
           \/ Reject \/ SweepInterrupted \/ GenerateFails \/ WalkExhausted
           \/ RunError \/ Crash
    PROVE  IndInv'
<1>1. Quit
  BY DEF Reject, SweepInterrupted, GenerateFails, WalkExhausted, RunError, Crash, Quit
<1> QED
  BY <1>1, QuitKeeps

(* Without flags, the session to be begun is the only one to resume.       *)
LEMMA BeginsHeld ==
    ASSUME IndInv, Plain, pc \in {"begin", "walk begin"}, NEW s,
           s = IF pc = "begin" THEN SweepSig ELSE WalkSig
    PROVE  OnlyOf(s)
<1>1. ASSUME NEW id \in DOMAIN sessions, Resumable(id) PROVE id \in ResumableIds(s)
  <2>1. StoreOK /\ ProcessOK /\ SomeResumable
    BY <1>1, Parts DEF SomeResumable
  <2>2. last # 0 /\ last \in DOMAIN sessions /\ Resumable(last)
    BY <2>1 DEF ProcessOK, VarsOK, NothingLeft, LastHeld, Plain
  <2>3. Given(flags) \cap (Identity \cup {"skipSweep"}) = {}
    BY <2>1 DEF ProcessOK, Control, Plain, Identity
  <2>4. sessions[last].sig = s
    BY <2>1, <2>2, <2>3 DEF ProcessOK, LastHeld
  <2>5. id = last
    BY <1>1, <2>1, <2>2 DEF StoreOK, NothingForgotten, Plain
  <2> QED
    BY <2>2, <2>4, <2>5 DEF ResumableIds
<1> QED
  BY <1>1 DEF OnlyOf

LEMMA BeginSweepKeeps == ASSUME IndInv, NEW now \in Clock, BeginSweep(now) PROVE IndInv'
<1>1. /\ StoreOK /\ ProcessOK /\ pc = "begin" /\ ~ cancelled /\ pc' = "sweep"
      /\ open' = BeginSessionId(SweepSig) /\ last' = 0
      /\ UNCHANGED <<flags, cfg, at, cancelled, runs, given>>
      /\ now \in Nat
  BY Parts, RunAssumption DEF BeginSweep, Opened
<1>2. PICK s, m : s = SweepSig
                  /\ m = [template |-> cfg.template, positions |-> cfg.positions]
  OBVIOUS
<1>3. BeginSession([sig |-> s, meta |-> m, mode |-> "sweep", cursor |-> NoCursor], now)
  <2>1. [sig |-> SweepSig, mode |-> "sweep", cursor |-> NoCursor,
         meta |-> [template |-> cfg.template, positions |-> PositionsSpec]]
          = [sig |-> s, meta |-> m, mode |-> "sweep", cursor |-> NoCursor]
    BY <1>2 DEF PositionsSpec
  <2> QED
    BY <2>1, Zenon DEF BeginSweep
<1>4. /\ cfg.template \in AllTemplates /\ cfg.positions \in ValidTexts
      /\ cfg.settings \in ValidSettings /\ at \in DOMAIN positions
      /\ positions[at] \in WordPositions /\ positions[at] \in Listed[cfg.positions]
      /\ cfg.positions \in Texts
  <2>1. /\ cfg.template \in AllTemplates /\ cfg.positions \in ValidTexts
        /\ cfg.settings \in ValidSettings /\ at \in DOMAIN positions
    BY <1>1 DEF ProcessOK, VarsOK, Control, InSweep
  <2> QED
    BY <2>1, ValidText DEF positions
<1>5. /\ s \in Signatures /\ m \in Metas /\ "sweep" \in Modes /\ NoCursor \in Cursors
  <2>1. s \in [template: AllTemplates, position: WordPositions, settings: Settings]
    BY <1>2, <1>4, RunAssumption DEF SweepSig
  <2>2. m \in [template: AllTemplates \cup {None}, positions: Texts \cup {NoPositions}]
    BY <1>2, <1>4
  <2> QED
    BY <2>1, <2>2, ColumnAssumption DEF Modes
<1>6. RowFits(s, m, "sweep", NoCursor)
  <2>1. /\ m \in [template: AllTemplates, positions: ValidTexts]
        /\ s \in [template: {m.template}, position: Listed[m.positions],
                  settings: ValidSettings]
    BY <1>2, <1>4 DEF SweepSig
  <2> QED
    BY <2>1 DEF RowFits, RowOK
<1>7. Plain => OnlyOf(s)
  BY <1>1, <1>2, BeginsHeld
<1>8. WholeList => SweptUpTo(s, m, "sweep")
  <2>1. ASSUME WholeList, NEW i \in DOMAIN DefaultList, DefaultList[i] = s.position
        PROVE  Before(s.template, i)
    <3>1. /\ cfg.positions = DefaultPositions /\ Before(cfg.template, at)
      BY <1>1, <2>1 DEF ProcessOK, LoopWhole, InSweep
    <3>2. i \in DOMAIN positions /\ positions[i] = positions[at]
      BY <1>2, <2>1, <3>1 DEF positions, DefaultList, SweepSig
    <3>3. i = at
      BY <1>1, <1>4, <3>2, ListInForce DEF InSweep
    <3>4. s.template = cfg.template
      BY <1>2 DEF SweepSig
    <3> QED
      BY <3>1, <3>3, <3>4
  <2>2. WholeList => m.positions = DefaultPositions
    BY <1>1, <1>2 DEF ProcessOK, LoopWhole, InSweep
  <2> QED
    BY <2>1, <2>2 DEF SweptUpTo
<1>9. PICK id0 : id0 = open' /\ id0 = BeginSessionId(s)
  BY <1>1, <1>2
<1>10. /\ StoreOK' /\ \A template, i : Before(template, i) => Before(template, i)'
       /\ id0 \in DOMAIN sessions' /\ id0 # 0
       /\ sessions'[id0].status = "running" /\ sessions'[id0].sig = s
       /\ sessions'[id0].mode = "sweep"
  BY <1>1, <1>3, <1>5, <1>6, <1>7, <1>8, <1>9, BeginKeeps
<1>11. VarsOK'
  <2>1. IsConfig(cfg)'
    BY <1>1 DEF ProcessOK, VarsOK, IsConfig
  <2> QED
    BY <1>1, <1>9, <1>10, <2>1 DEF ProcessOK, VarsOK, positions, Pcs
<1>12. Control'
  <2>1. SweepSig' = s
    BY <1>1, <1>2 DEF SweepSig, positions
  <2>2. sessions'[open'].mode = "sweep" /\ sessions'[open'].sig = SweepSig'
    BY <1>9, <1>10, <2>1
  <2> QED
    BY <1>1, <2>2 DEF ProcessOK, Control, InSweep, InWalk, positions, Given
<1>13. LastHeld' /\ NothingLeft' /\ (WholeList' => LoopWhole')
  BY <1>1, <1>10 DEF ProcessOK, LastHeld, NothingLeft, LoopWhole, WholeList, InSweep
<1>14. ProcessOK'
  BY <1>11, <1>12, <1>13 DEF ProcessOK
<1> QED
  BY <1>10, <1>14, Parts, PTL

(* The cursor a walk resumes after.                                        *)
LEMMA ResumedWalk ==
    ASSUME StoreOK, WasResumed
    PROVE  /\ LatestResumable \in ResumableIds(WalkSig)
           /\ sessions[LatestResumable].mode = "walk"
           /\ sessions[LatestResumable].cursor \in Odometers
           /\ LastCursor = sessions[LatestResumable].cursor
<1>1. PICK id : id = LatestResumable
  OBVIOUS
<1>2. /\ id \in DOMAIN sessions /\ Resumable(id) /\ sessions[id].sig = WalkSig
  BY <1>1, LatestHolds DEF StoreOK, WasResumed
<1>3. RowOK(sessions[id]) /\ sessions[id].mode \in Modes
  BY <1>2 DEF StoreOK, RowsOK, TableOK, Row
<1>4. sessions[id].sig.template = WalkTemplate
  BY <1>2 DEF WalkSig
<1>5. sessions[id].mode # "sweep"
  BY <1>3, <1>4, RunAssumption DEF RowOK, AllTemplates
<1>6. sessions[id].cursor \in Odometers
  BY <1>3, <1>5 DEF RowOK, Modes
<1>7. <<>> \notin Odometers
  BY CursorAssumption DEF Odometers, Slots
<1>8. LastCursor = sessions[id].cursor
  BY <1>1, <1>6, <1>7 DEF LastCursor, ParseCursor
<1> QED
  BY <1>1, <1>2, <1>3, <1>5, <1>6, <1>8 DEF ResumableIds, Modes

(* What BeginWalk begins, and where.                                       *)
BeginsAt(cur, now) ==
    /\ cur = IF WasResumed THEN Inc(LastCursor) ELSE Zero
    /\ BeginSession([sig |-> WalkSig, mode |-> "walk", cursor |-> cur,
                     meta |-> [template |-> None, positions |-> NoPositions]],
                    now)

LEMMA WalkBeginsAt ==
    ASSUME StoreOK, NEW now, BeginWalk(now)
    PROVE  \E cur \in Odometers : BeginsAt(cur, now)
<1>1. PICK cur : cur = IF WasResumed THEN Inc(LastCursor) ELSE Zero
  OBVIOUS
<1>2. cur \in Odometers
  BY <1>1, ResumedWalk, ZeroType, IncType
<1>3. String(cur) = cur
  BY <1>2 DEF String, Odometers
<1>4. String(IF WasResumed THEN Inc(LastCursor) ELSE Zero) = cur
  BY <1>1, <1>3, Zenon
<1>5. BeginSession([sig |-> WalkSig, mode |-> "walk", cursor |-> cur,
                    meta |-> [template |-> None, positions |-> NoPositions]], now)
  BY <1>4, Zenon DEF BeginWalk
<1> QED
  BY <1>1, <1>2, <1>5 DEF BeginsAt

LEMMA BeginWalkKeeps == ASSUME IndInv, NEW now \in Clock, BeginWalk(now) PROVE IndInv'
<1>1. /\ StoreOK /\ ProcessOK /\ pc = "walk begin" /\ ~ cancelled /\ pc' = "walk"
      /\ open' = BeginSessionId(WalkSig) /\ last' = 0
      /\ UNCHANGED <<flags, cfg, at, cancelled, runs, given>>
      /\ now \in Nat
  BY Parts, RunAssumption DEF BeginWalk, Opened
<1>2. PICK cur \in Odometers : BeginsAt(cur, now)
  BY <1>1, WalkBeginsAt
<1>3. PICK s, m : s = WalkSig /\ m = [template |-> None, positions |-> NoPositions]
  OBVIOUS
<1>4. BeginSession([sig |-> s, meta |-> m, mode |-> "walk", cursor |-> cur], now)
  <2>1. [sig |-> WalkSig, mode |-> "walk", cursor |-> cur,
         meta |-> [template |-> None, positions |-> NoPositions]]
          = [sig |-> s, meta |-> m, mode |-> "walk", cursor |-> cur]
    BY <1>3
  <2> QED
    BY <1>2, <2>1, Zenon DEF BeginsAt
<1>5. cfg.settings \in ValidSettings
  BY <1>1 DEF ProcessOK, Control, InWalk
<1>6. /\ s \in Signatures /\ m \in Metas /\ "walk" \in Modes /\ cur \in Cursors
  <2>1. s \in [template: {WalkTemplate}, position: {-1}, settings: Settings]
    BY <1>3, <1>5, RunAssumption DEF WalkSig
  <2>2. m \in [template: AllTemplates \cup {None}, positions: Texts \cup {NoPositions}]
    BY <1>3
  <2> QED
    BY <2>1, <2>2, ColumnAssumption DEF Modes
<1>7. RowFits(s, m, "walk", cur)
  <2>1. s \in [template: {WalkTemplate}, position: {-1}, settings: ValidSettings]
    BY <1>3, <1>5 DEF WalkSig
  <2> QED
    BY <1>2, <1>3, <2>1 DEF RowFits, RowOK
<1>8. Plain => OnlyOf(s)
  BY <1>1, <1>3, BeginsHeld
<1>9. WholeList => SweptUpTo(s, m, "walk")
  BY DEF SweptUpTo
<1>10. PICK id0 : id0 = open' /\ id0 = BeginSessionId(s)
  BY <1>1, <1>3
<1>11. /\ StoreOK' /\ id0 \in DOMAIN sessions' /\ id0 # 0
       /\ sessions'[id0].status = "running" /\ sessions'[id0].sig = s
       /\ sessions'[id0].mode = "walk"
  <2>1. StoreOK /\ given' = given /\ now \in Nat
    BY <1>1
  <2> QED
    BY <1>4, <1>6, <1>7, <1>8, <1>9, <1>10, <2>1, BeginKeeps
<1>12. VarsOK'
  <2>1. IsConfig(cfg)'
    BY <1>1 DEF ProcessOK, VarsOK, IsConfig
  <2> QED
    BY <1>1, <1>10, <1>11, <2>1 DEF ProcessOK, VarsOK, Pcs
<1>13. Control'
  <2>1. WalkSig' = s
    BY <1>1, <1>3 DEF WalkSig
  <2>2. sessions'[open'].mode = "walk" /\ sessions'[open'].sig = WalkSig'
    BY <1>10, <1>11, <2>1
  <2> QED
    BY <1>1, <1>5, <2>2 DEF ProcessOK, Control, InSweep, InWalk, Given
<1>14. LastHeld' /\ NothingLeft' /\ LoopWhole'
  BY <1>1 DEF LastHeld, NothingLeft, LoopWhole, InSweep
<1>15. ProcessOK'
  BY <1>12, <1>13, <1>14 DEF ProcessOK
<1> QED
  BY <1>11, <1>15, Parts, PTL

(* The session that is looked up.                                          *)
LEMMA LatestFacts ==
    ASSUME StoreOK
    PROVE  /\ Latest \in {0} \cup DOMAIN sessions
           /\ Latest # 0 => Resumable(Latest) /\ ~ flags.reset
           /\ SomeResumable /\ ~ flags.reset => Latest # 0
<1>1. 0 \notin DOMAIN sessions
  BY DEF StoreOK, TableOK
<1>2. SomeResumable => LatestResumable \in DOMAIN sessions /\ Resumable(LatestResumable)
  BY LatestHolds DEF StoreOK
<1> QED
  BY <1>1, <1>2 DEF Latest

(* A configuration that Validate lets pass: with nothing given, it is that *)
(* of the session.                                                         *)
Sound(c, row) ==
    /\ c.template \in AllTemplates \cup {None} /\ c.positions \in ValidTexts
    /\ c.settings \in ValidSettings
    /\ c = [template |-> c.template, positions |-> c.positions, settings |-> c.settings]
    /\ Latest # 0 => row.mode \in Modes /\ RowOK(row) /\ Resumable(Latest)
    /\ Given(flags) \cap Identity = {} /\ Latest # 0 => c.settings = row.sig.settings
    /\ Given(flags) \cap {"template", "positions"} = {} /\ Latest # 0
         /\ row.mode = "sweep" =>
           c.template = row.sig.template /\ c.positions = row.meta.positions
    /\ "positions" \notin Given(flags) /\ Latest = 0 => c.positions = DefaultPositions

LEMMA ConfigSound ==
    ASSUME StoreOK, flags \in FlagSets \cup {NoFlags}, NEW c,
           c = inheritFromSession(flags, Latest), Validate(c),
           NEW row, row = sessions[Latest]
    PROVE  Sound(c, row)
<1>1. /\ Latest \in {0} \cup DOMAIN sessions
      /\ Latest # 0 => Resumable(Latest)
  BY LatestFacts
<1>2. /\ c.template \in AllTemplates \cup {None} /\ c.positions \in Texts
      /\ flags.settings = None /\ Latest # 0 => c.settings = row.sig.settings
      /\ flags.template = None /\ Latest # 0 /\ row.mode = "sweep" =>
           c.template = row.meta.template
      /\ flags.positions = None /\ Latest # 0 /\ row.mode = "sweep" =>
           c.positions = row.meta.positions
      /\ flags.positions = None /\ Latest = 0 => c.positions = DefaultPositions
      /\ c = [template |-> c.template, positions |-> c.positions,
              settings |-> c.settings]
  BY <1>1, InheritFacts
<1>3. /\ "template" \notin Given(flags) => flags.template = None
      /\ "positions" \notin Given(flags) => flags.positions = None
      /\ "settings" \notin Given(flags) => flags.settings = None
  BY GivenFacts
<1>4. c.positions \in ValidTexts /\ c.settings \in ValidSettings
  BY <1>2 DEF Validate, ValidTexts
<1>5. Latest # 0 => row.mode \in Modes /\ RowOK(row)
  BY <1>1 DEF StoreOK, RowsOK, TableOK, Row
<1>6. Latest # 0 /\ row.mode = "sweep" => row.sig.template = row.meta.template
  BY <1>5 DEF RowOK
<1> QED
  BY <1>1, <1>2, <1>3, <1>4, <1>5, <1>6 DEF Sound, Identity

LEMMA LookupWalkKeeps ==
    ASSUME IndInv, Lookup, flags.skipSweep \/ IsWalk(Latest)
    PROVE  IndInv'
<1>1. /\ StoreOK /\ ProcessOK /\ pc = "lookup" /\ last' = Latest /\ pc' = StartOf(TRUE)
      /\ UNCHANGED <<sessions, attempts, lastId, flags, at, open, cancelled, runs, given>>
      /\ cfg' = inheritFromSession(flags, Latest) /\ Validate(cfg')
  BY Parts DEF Lookup, LookedUp, storage
<1>2. StoreOK' /\ (SomeResumable' <=> SomeResumable)
      /\ \A id : Resumable(id)' <=> Resumable(id)
  BY <1>1, StoreSame
<1>3. PICK c, row, id : c = cfg' /\ row = sessions[Latest] /\ id = Latest
  OBVIOUS
<1>4. flags \in FlagSets \cup {NoFlags} /\ open = 0
  BY <1>1 DEF ProcessOK, VarsOK
<1>5. Sound(c, row)
  BY <1>1, <1>3, <1>4, ConfigSound
<1>6. /\ id \in {0} \cup DOMAIN sessions
      /\ id # 0 => Resumable(id) /\ ~ flags.reset
      /\ SomeResumable /\ ~ flags.reset => id # 0
  BY <1>1, <1>3, LatestFacts
<1>7. \/ pc' = "walk retire" /\ flags.reset
      \/ pc' = "walk begin" /\ ~ flags.reset
  BY <1>1 DEF StartOf
<1>8. /\ c.template \in AllTemplates \cup {None} /\ c.positions \in Texts
      /\ c.settings \in ValidSettings /\ c.settings \in Settings
  BY <1>5, RunAssumption DEF Sound, ValidTexts
<1>9. VarsOK'
  <2>1. IsConfig(cfg)'
    BY <1>3, <1>8 DEF IsConfig, AllTemplates
  <2> QED
    BY <1>1, <1>3, <1>4, <1>6, <1>7, <2>1 DEF ProcessOK, VarsOK, Pcs, Startup
<1>10. Control'
  BY <1>1, <1>3, <1>4, <1>6, <1>7, <1>8 DEF ProcessOK, Control, InSweep, InWalk, Given
<1>11. LastHeld'
  <2>1. ASSUME id # 0, Given(flags) \cap (Identity \cup {"skipSweep"}) = {}
        PROVE  row.mode = "walk" /\ row.sig = WalkSig'
    <3>1. flags.skipSweep = FALSE
      BY <1>4, <2>1, GivenFacts
    <3>2. row.mode = "walk" /\ RowOK(row)
      BY <1>3, <1>5, <2>1, <3>1 DEF IsWalk, Sound
    <3>3. row.sig.settings = c.settings
      BY <1>3, <1>5, <2>1 DEF Sound
    <3>4. row.sig \in [template: {WalkTemplate}, position: {-1}, settings: ValidSettings]
      BY <3>2 DEF RowOK
    <3>5. row.sig = [template |-> WalkTemplate, position |-> -1, settings |-> c.settings]
      BY <3>3, <3>4
    <3> QED
      BY <1>3, <3>2, <3>5 DEF WalkSig
  <2>2. /\ last' = id /\ flags' = flags /\ sessions'[last'] = row
        /\ id # 0 => Resumable(id)' /\ pc' = "walk begin"
    BY <1>1, <1>2, <1>3, <1>6, <1>7
  <2> QED
    BY <2>1, <2>2 DEF LastHeld, Given
<1>12. NothingLeft'
  <2>1. Plain => flags.reset = FALSE
    BY <1>1, <1>4, GivenFacts DEF ProcessOK, Control, Plain
  <2> QED
    BY <1>1, <1>2, <1>3, <1>6, <2>1 DEF NothingLeft, Plain
<1>13. LoopWhole'
  BY <1>7 DEF LoopWhole, InSweep
<1>14. ProcessOK'
  BY <1>9, <1>10, <1>11, <1>12, <1>13 DEF ProcessOK
<1> QED
  BY <1>2, <1>14, Parts, PTL

LEMMA ResolvesTo ==
    ASSUME NEW template \in AllTemplates \cup {None}, NEW t \in resolveTemplate(template)
    PROVE  t \in AllTemplates /\ (template # None => t = template)
BY DEF resolveTemplate, AllTemplates

LEMMA LookupSweepKeeps ==
    ASSUME IndInv, Lookup, ~ (flags.skipSweep \/ IsWalk(Latest))
    PROVE  IndInv'
<1>1. /\ StoreOK /\ ProcessOK /\ pc = "lookup" /\ last' = Latest /\ pc' = "next"
      /\ UNCHANGED <<sessions, attempts, lastId, flags, open, cancelled, runs, given>>
  BY Parts DEF Lookup, LookedUp, storage
<1>2. /\ StoreOK' /\ (SomeResumable' <=> SomeResumable)
      /\ \A id : Resumable(id)' <=> Resumable(id)
      /\ \A template, i : Before(template, i)' <=> Before(template, i)
  BY <1>1, StoreSame
<1>3. PICK c, row, id, p :
        /\ c = inheritFromSession(flags, Latest) /\ row = sessions[Latest] /\ id = Latest
        /\ p = IF Latest = 0 THEN -1 ELSE sessions[Latest].sig.position
  OBVIOUS
<1>4. flags \in FlagSets \cup {NoFlags} /\ open = 0
  BY <1>1 DEF ProcessOK, VarsOK
<1>5. Validate(c)
  BY <1>3 DEF Lookup
<1>6. Sound(c, row)
  BY <1>1, <1>3, <1>4, <1>5, ConfigSound
<1>7. PICK t \in resolveTemplate(c.template) : cfg' = [c EXCEPT !.template = t]
  BY <1>3 DEF Lookup
<1>8. PICK list : list = ParsePositions(c.positions)
  OBVIOUS
<1>9. at' = startIndexInPositions(list, p)
  BY <1>3, <1>8 DEF Lookup
<1>10. /\ id \in {0} \cup DOMAIN sessions
       /\ id # 0 => Resumable(id) /\ ~ flags.reset /\ row.mode = "sweep" /\ RowOK(row)
       /\ SomeResumable /\ ~ flags.reset => id # 0
  BY <1>1, <1>3, <1>6, LatestFacts DEF IsWalk, Sound, Modes
<1>11. /\ cfg' = [template |-> t, positions |-> c.positions, settings |-> c.settings]
       /\ t \in AllTemplates /\ (c.template # None => t = c.template)
       /\ c.positions \in ValidTexts /\ c.settings \in ValidSettings
  BY <1>6, <1>7, ResolvesTo DEF Sound
<1>12. positions' = list
  BY <1>8, <1>11 DEF positions
<1>13. /\ Len(list) \in Nat /\ Len(list) >= 1 /\ DOMAIN list = 1 .. Len(list)
       /\ \A i \in DOMAIN list : list[i] \in WordPositions
       /\ \A q : q \in Listed[c.positions] <=> \E i \in DOMAIN list : list[i] = q
       /\ c.positions \in Texts
  BY <1>8, <1>11, ValidText
<1>14. PICK n \in DOMAIN list :
         /\ n = at'
         /\ (\E i \in DOMAIN list : list[i] = p) => list[n] = p
         /\ ~ (\E i \in DOMAIN list : list[i] = p) => n = 1
  BY <1>9, <1>13, StartIndex
<1>15. VarsOK'
  <2>1. IsConfig(cfg)'
    BY <1>11, <1>13, RunAssumption DEF IsConfig, AllTemplates
  <2> QED
    BY <1>1, <1>3, <1>4, <1>10, <2>1 DEF ProcessOK, VarsOK, Pcs
<1>16. Control'
  <2>1. at' \in 1 .. Len(positions') + 1
    BY <1>12, <1>13, <1>14
  <2> QED
    BY <1>1, <1>3, <1>4, <1>10, <1>11, <2>1
       DEF ProcessOK, Control, InSweep, InWalk, Given
<1>17. LastHeld'
  <2>1. ASSUME id # 0, Given(flags) \cap (Identity \cup {"skipSweep"}) = {}
        PROVE  row.sig = SweepSig'
    <3>1. /\ c.settings = row.sig.settings /\ c.template = row.sig.template
          /\ c.positions = row.meta.positions
      BY <1>3, <1>6, <1>10, <2>1 DEF Sound, Identity
    <3>2. row.sig \in [template: {row.meta.template}, position: Listed[row.meta.positions],
                       settings: ValidSettings]
      BY <1>10, <2>1 DEF RowOK
    <3>3. row.sig.template \in AllTemplates
      BY <1>10, <2>1, <3>2 DEF RowOK
    <3>4. t = row.sig.template
      BY <1>11, <3>1, <3>3, RunAssumption DEF AllTemplates
    <3>5. p = row.sig.position /\ p \in Listed[c.positions]
      BY <1>3, <2>1, <3>1, <3>2
    <3>6. list[n] = row.sig.position
      BY <1>13, <1>14, <3>5
    <3>7. row.sig = [template |-> t, position |-> list[n], settings |-> c.settings]
      BY <3>1, <3>2, <3>4, <3>6
    <3> QED
      BY <1>11, <1>12, <1>14, <3>7 DEF SweepSig
  <2>2. /\ last' = id /\ flags' = flags /\ sessions'[last'] = row
        /\ id # 0 => Resumable(id)' /\ row.mode = "sweep"
        /\ pc' = "next" /\ at' \in DOMAIN positions'
    <3>1. last' = id /\ flags' = flags /\ sessions'[last'] = row /\ pc' = "next"
      BY <1>1, <1>3
    <3>2. at' \in DOMAIN positions'
      BY <1>12, <1>14
    <3>3. id # 0 => Resumable(id)' /\ row.mode = "sweep"
      BY <1>2, <1>10
    <3> QED
      BY <3>1, <3>2, <3>3
  <2> QED
    BY <2>1, <2>2 DEF LastHeld, Given
<1>18. NothingLeft'
  <2>1. Plain => flags.reset = FALSE
    BY <1>1, <1>4, GivenFacts DEF ProcessOK, Control, Plain
  <2> QED
    BY <1>1, <1>2, <1>3, <1>10, <2>1 DEF NothingLeft, Plain
<1>19. ASSUME WholeList' PROVE LoopWhole'
  <2>1. WholeList /\ Given(flags) \cap {"template", "positions"} = {}
    BY <1>1, <1>19 DEF WholeList, ProcessOK, Control
  <2>2. ASSUME c.positions = DefaultPositions, Before(t, n) PROVE LoopWhole'
    <3>1. Before(t, n)'
      BY <1>2, <2>2
    <3>2. cfg'.template = t /\ cfg'.positions = c.positions /\ at' = n
      BY <1>11, <1>14
    <3> QED
      BY <2>2, <3>1, <3>2 DEF LoopWhole
  <2>3. CASE id = 0
    <3>1. c.positions = DefaultPositions
      BY <1>3, <1>6, <2>1, <2>3 DEF Sound
    <3>2. p = -1
      BY <1>3, <2>3
    <3>3. n = 1
      BY <1>13, <1>14, <3>2 DEF WordPositions
    <3>4. Before(t, n)
      BY <3>3 DEF Before
    <3> QED
      BY <2>2, <3>1, <3>4
  <2>4. CASE id # 0
    <3>1. c.template = row.sig.template /\ c.positions = row.meta.positions
      BY <1>3, <1>6, <1>10, <2>1, <2>4 DEF Sound
    <3>2. c.positions = DefaultPositions /\ list = DefaultList
      BY <1>1, <1>3, <1>8, <1>10, <2>1, <2>4, <3>1
         DEF StoreOK, RowsWhole, RowWhole, DefaultList
    <3>3. /\ row.sig \in [template: {row.meta.template},
                          position: Listed[row.meta.positions], settings: ValidSettings]
          /\ row.meta.template \in AllTemplates
      BY <1>10, <2>4 DEF RowOK
    <3>4. t = row.sig.template
      BY <1>11, <3>1, <3>3, RunAssumption DEF AllTemplates
    <3>5. list[n] = row.sig.position
      BY <1>3, <1>13, <1>14, <2>4, <3>1, <3>3
    <3>6. Before(t, n)
      BY <1>1, <1>3, <1>10, <1>14, <2>1, <2>4, <3>2, <3>4, <3>5
         DEF StoreOK, RowsWhole, RowWhole
    <3> QED
      BY <2>2, <3>2, <3>6
  <2> QED
    BY <2>3, <2>4
<1>20. ProcessOK'
  BY <1>15, <1>16, <1>17, <1>18, <1>19 DEF ProcessOK
<1> QED
  BY <1>2, <1>20, Parts, PTL

LEMMA NextKeeps == ASSUME IndInv, [Next]_vars PROVE IndInv'
<1>1. CASE \E f \in FlagSets : Invoke(f)
  BY <1>1, InvokeKeeps
<1>2. CASE Lookup
  BY <1>2, LookupWalkKeeps, LookupSweepKeeps
<1>3. CASE SweepComplete \/ NextPosition
  BY <1>3, SweepCompleteKeeps, NextPositionKeeps
<1>4. CASE Retire \/ WalkRetire
  BY <1>4, RetireKeeps
<1>5. CASE \E now \in Clock : BeginSweep(now) \/ BeginWalk(now)
  BY <1>5, BeginSweepKeeps, BeginWalkKeeps
<1>6. CASE SweepOn \/ SweepEnd
  BY <1>6, SweepOnKeeps, SweepEndKeeps
<1>7. CASE WalkOn \/ WalkWrap \/ WalkEnd
  BY <1>7, WalkOnKeeps, WalkEndKeeps
<1>8. CASE \/ Reject \/ SweepInterrupted \/ GenerateFails \/ WalkExhausted
           \/ RunError \/ Crash
  BY <1>8, QuitsKeep
<1>9. CASE Cancel
  BY <1>9, CancelKeeps
<1>10. CASE UNCHANGED vars
  BY <1>10, RestKeeps
<1>11. Rest => UNCHANGED vars
  BY DEF Rest
<1> QED
  BY <1>1, <1>2, <1>3, <1>4, <1>5, <1>6, <1>7, <1>8, <1>9, <1>10, <1>11 DEF Next

-----------------------------------------------------------------------------
(* The theorems.                                                           *)

(* Whatever flags the processes have and wherever they are cut off: what   *)
(* every session hands down is valid, the session that was looked up is    *)
(* the one to be begun, without flags there is never a second one to       *)
(* resume, and with the default list the positions before that of any      *)
(* session are exhausted for its template (runE, BeginSession, EndSession  *)
(* and LatestResumable together).                                          *)
THEOREM RunInductive == Spec => []IndInv
<1>1. Init => IndInv
  BY InitHolds
<1>2. IndInv /\ [Next]_vars => IndInv'
  BY NextKeeps
<1> QED
  BY <1>1, <1>2, PTL DEF Spec

(* The types, the index of the position in force, and the row that is open *)
(* while Run or Walk works on it.                                          *)
THEOREM RunTypeCorrect == Spec => []TypeOK
<1>1. IndInv => TypeOK
  BY DEF IndInv
<1> QED
  BY <1>1, RunInductive, PTL

(* Processes run without flags leave at most one session to resume: none   *)
(* is ever forgotten behind a younger one.                                 *)
THEOREM RunNothingForgotten == Spec => []NothingForgotten
<1>1. IndInv => NothingForgotten
  BY DEF IndInv
<1> QED
  BY <1>1, RunInductive, PTL

(* inheritFromSession finds positions and settings in every row that       *)
(* ParsePositions and Validate accept, and the position of a sweep in the  *)
(* list it inherits.                                                       *)
THEOREM RunSessionsHandDown == Spec => []SessionsHandDown
<1>1. IndInv => SessionsHandDown
  <2> SUFFICES ASSUME IndInv, NEW id \in DOMAIN sessions,
                      NEW c, c = inheritFromSession(NoFlags, id),
                      NEW row, row = sessions[id]
               PROVE  /\ c.positions \in ValidTexts /\ c.settings \in ValidSettings
                      /\ row.mode = "sweep" => row.sig.position \in Listed[c.positions]
    BY DEF SessionsHandDown
  <2>1. StoreOK /\ id # 0 /\ RowOK(row) /\ row.mode \in Modes
    BY Parts DEF StoreOK, TableOK, Row, RowsOK
  <2>2. /\ c.settings = row.sig.settings
        /\ row.mode = "sweep" => c.positions = row.meta.positions
        /\ row.mode # "sweep" => c.positions = DefaultPositions
    <3>1. NoFlags.positions = None /\ NoFlags.settings = None
      BY DEF NoFlags
    <3> QED
      BY <2>1, <3>1, InheritFacts
  <2>3. CASE row.mode = "sweep"
    BY <2>1, <2>2, <2>3 DEF RowOK
  <2>4. CASE row.mode = "walk"
    BY <2>1, <2>2, <2>4, DefaultValid DEF RowOK
  <2> QED
    BY <2>1, <2>3, <2>4 DEF Modes
<1> QED
  BY <1>1, RunInductive, PTL

(* The list ParsePositions makes of the text in force holds every position *)
(* the text names, in its order, and none twice.                           *)
THEOREM RunEachPositionOnce == Spec => []EachPositionOnce
<1>1. IndInv => EachPositionOnce
  <2> SUFFICES ASSUME IndInv, pc = "next" PROVE EachPositionOnce
    BY DEF EachPositionOnce
  <2>1. PICK text : text = cfg.positions
    OBVIOUS
  <2>2. text \in Seq(Token) /\ ~ Rejects(text)
    BY <2>1, Parts, RunAssumption
       DEF ProcessOK, Control, InSweep, ValidTexts, Texts, Flags
  <2>3. positions = ParsePositions(text)
    BY <2>1 DEF positions
  <2> QED
    BY <2>1, <2>2, <2>3, AcceptedOnce, Zenon DEF EachPositionOnce
<1> QED
  BY <1>1, RunInductive, PTL

(* The sessions that are begun.                                            *)
Opens == \/ pc = "begin" /\ \E now \in Clock : BeginSweep(now)
         \/ pc = "walk begin" /\ \E now \in Clock : BeginWalk(now)

LEMMA OnlyBeginOpens ==
    ASSUME IndInv, [Next]_vars, open = 0, open' # 0 PROVE Opens
<1>1. pc \notin {"sweep", "walk", "walk end"}
  BY Parts DEF ProcessOK, VarsOK
<1> QED
  BY <1>1 DEF Next, Invoke, Lookup, Reject, SweepComplete, SweepInterrupted, NextPosition,
              Retire, SweepOn, SweepEnd, GenerateFails, WalkRetire, WalkExhausted, WalkOn,
              WalkWrap, WalkEnd, RunError, Cancel, Crash, Rest, Return, vars, Opens,
              BeginSweep, BeginWalk

Resumes ==
    last # 0 /\ open' # 0 /\ open = 0
      /\ Given(flags) \cap (Identity \cup {"skipSweep"}) = {}
    => open' = last

(* Whatever the processes before it did, a process without flags that      *)
(* change the identity of its session resumes the one LatestResumable      *)
(* returned: BeginSession finds it by its signature.                       *)
THEOREM RunResumesLatest == Spec => ResumesLatest
<1>1. ASSUME IndInv, [Next]_vars PROVE Resumes
  <2> SUFFICES ASSUME last # 0, open' # 0, open = 0,
                      Given(flags) \cap (Identity \cup {"skipSweep"}) = {}
               PROVE  open' = last
    BY DEF Resumes
  <2>1. StoreOK /\ ProcessOK /\ Opens
    BY <1>1, Parts, OnlyBeginOpens
  <2>2. PICK s : /\ open' = BeginSessionId(s) /\ sessions[last].sig = s
    BY <2>1 DEF Opens, BeginSweep, BeginWalk, Opened, ProcessOK, LastHeld
  <2>3. last \in ResumableIds(s)
    BY <2>1, <2>2 DEF ProcessOK, VarsOK, LastHeld, ResumableIds
  <2>4. open' \in ResumableIds(s)
    BY <2>1, <2>2, <2>3, LatestIsResumable DEF BeginSessionId, StoreOK
  <2> QED
    BY <2>1, <2>3, <2>4 DEF StoreOK, UniqueResumable, ResumableIds
<1>2. IndInv /\ [Next]_vars => [Resumes]_vars
  BY <1>1
<1>3. ResumesLatest <=> [][Resumes]_vars
  BY PTL DEF ResumesLatest, Resumes
<1> QED
  BY <1>2, <1>3, RunInductive, PTL DEF Spec

WholeSwept ==
    WholeList /\ pc = "next" /\ pc' = StartOf(TRUE) =>
        \A i \in DOMAIN positions :
            \E id \in DOMAIN sessions :
                /\ sessions[id].sig.template = cfg.template
                /\ sessions[id].sig.position = positions[i]
                /\ Exhausted(id)

(* With one list for all processes, the walk follows a sweep only when     *)
(* every position of the list is exhausted for the template, over however  *)
(* many interrupted processes (runE, SweepComplete).                       *)
THEOREM RunWalkAfterWholeSweep == Spec => WalkAfterWholeSweep
<1>1. ASSUME IndInv, [Next]_vars PROVE WholeSwept
  <2> SUFFICES ASSUME WholeList, pc = "next", pc' = StartOf(TRUE),
                      NEW i \in DOMAIN positions
               PROVE  \E id \in DOMAIN sessions :
                        /\ sessions[id].sig.template = cfg.template
                        /\ sessions[id].sig.position = positions[i]
                        /\ Exhausted(id)
    BY DEF WholeSwept
  <2>1. pc' \in {"walk retire", "walk begin"}
    BY DEF StartOf
  <2>2. SweepComplete /\ pc' # "idle"
    BY <1>1, <2>1 DEF Next, Invoke, Lookup, LookedUp, Reject, SweepInterrupted, NextPosition,
                      Retire, BeginSweep, SweepOn, SweepEnd, GenerateFails, WalkRetire,
                      BeginWalk, WalkExhausted, WalkOn, WalkWrap, WalkEnd, RunError, Cancel,
                      Crash, Rest, Return, vars, StartOf
  <2>3. ~ cancelled /\ at > Len(positions)
    BY <2>2 DEF SweepComplete, Return, WalkNext
  <2>4. /\ ProcessOK /\ cfg.positions = DefaultPositions /\ Before(cfg.template, at)
    BY <1>1, <2>3, Parts DEF ProcessOK, LoopWhole, InSweep
  <2>5. i \in 1 .. at - 1 /\ positions[i] = DefaultList[i]
    BY <2>3, <2>4, ListInForce DEF InSweep, positions, DefaultList
  <2> QED
    BY <2>4, <2>5 DEF Before
<1>2. IndInv /\ [Next]_vars => [WholeSwept]_vars
  BY <1>1
<1>3. WalkAfterWholeSweep <=> [][WholeSwept]_vars
  BY PTL DEF WalkAfterWholeSweep, WholeSwept, WholeList
<1> QED
  BY <1>2, <1>3, RunInductive, PTL DEF Spec

LEMMA UptoGrows ==
    ASSUME NEW c \in Odometers, NEW d \in Odometers, Precedes(c, d)
    PROVE  Upto(c) \subseteq Upto(d)
BY PrecedesTransitive DEF Upto

(* The steps that keep the cursors of all walks.                           *)
LEMMA CursorsKept ==
    ASSUME IndInv, [Next]_vars, ~ Opens, ~ WalkOn, ~ WalkWrap
    PROVE  \A id \in DOMAIN sessions : sessions'[id].cursor = sessions[id].cursor
<1>1. CASE \E s : MarkPausedAsCompleted(s)
  <2>1. PICK s : MarkPausedAsCompleted(s)
    BY <1>1
  <2>2. \A id \in DOMAIN sessions :
          \/ sessions'[id] = sessions[id]
          \/ sessions'[id] = [sessions[id] EXCEPT !.status = "completed"]
    BY <2>1 DEF MarkPausedAsCompleted
  <2>3. \A id \in DOMAIN sessions : sessions[id] \in Row
    BY Parts DEF StoreOK, TableOK
  <2> QED
    BY <2>2, <2>3 DEF Row
<1>2. CASE SweepOn \/ SweepEnd \/ WalkEnd
  <2>1. \/ \E word : sessions' = [sessions EXCEPT ![open].last = word]
        \/ \E status : sessions' = [sessions EXCEPT ![open].status = status]
    BY <1>2, Zenon DEF SweepOn, SweepEnd, WalkEnd, Checkpoint, EndSession
  <2>2. \A id \in DOMAIN sessions :
          \/ sessions'[id] = sessions[id]
          \/ \E word : sessions'[id] = [sessions[id] EXCEPT !.last = word]
          \/ \E status : sessions'[id] = [sessions[id] EXCEPT !.status = status]
    BY <2>1
  <2>3. \A id \in DOMAIN sessions : sessions[id] \in Row
    BY Parts DEF StoreOK, TableOK
  <2> QED
    BY <2>2, <2>3 DEF Row
<1>3. CASE UNCHANGED sessions
  BY <1>3
<1>4. \/ \E s : MarkPausedAsCompleted(s)
      \/ SweepOn \/ SweepEnd \/ WalkEnd \/ UNCHANGED sessions
  BY DEF Next, Invoke, Lookup, Reject, SweepComplete, SweepInterrupted, NextPosition,
         Retire, GenerateFails, WalkRetire, WalkExhausted, RunError, Cancel, Crash, Rest,
         vars, storage, Opens, BeginSweep, BeginWalk
<1> QED
  BY <1>1, <1>2, <1>3, <1>4

(* Without flags, the walk that is begun goes on after the last cursor of  *)
(* the row it is begun in.                                                 *)
LEMMA BeginsForward ==
    ASSUME IndInv, Plain, Opens, NEW id \in DOMAIN sessions, sessions[id].mode = "walk"
    PROVE  Upto(sessions[id].cursor) \subseteq Upto(sessions'[id].cursor)
<1>1. /\ StoreOK /\ ProcessOK /\ UniqueResumable /\ TableOK
      /\ RowOK(sessions[id]) /\ sessions[id].cursor \in Odometers
      /\ sessions[id].sig.template = WalkTemplate
  BY Parts DEF StoreOK, RowsOK, RowOK
<1>2. PICK now \in Clock : \/ pc = "begin" /\ BeginSweep(now)
                           \/ pc = "walk begin" /\ BeginWalk(now)
  BY DEF Opens
<1>3. CASE pc = "begin" /\ BeginSweep(now)
  <2>1. BeginSessionId(SweepSig) # id
    <3>1. SweepSig.template # WalkTemplate
      BY <1>1, <1>3, RunAssumption
         DEF ProcessOK, Control, InSweep, SweepSig, AllTemplates
    <3>2. ResumableIds(SweepSig) # {} => BeginSessionId(SweepSig) \in ResumableIds(SweepSig)
      BY <1>1, LatestIsResumable DEF BeginSessionId
    <3>3. ResumableIds(SweepSig) = {} => BeginSessionId(SweepSig) \notin DOMAIN sessions
      BY <1>1 DEF BeginSessionId, TableOK
    <3> QED
      BY <1>1, <3>1, <3>2, <3>3 DEF ResumableIds
  <2>2. sessions'[id] = sessions[id]
    BY <1>3, <2>1 DEF BeginSweep, BeginSession, InsertSession, ReuseSession
  <2> QED
    BY <2>2
<1>4. CASE pc = "walk begin" /\ BeginWalk(now)
  <2>1. PICK cur \in Odometers : BeginsAt(cur, now)
    BY <1>1, <1>4, WalkBeginsAt
  <2>2. CASE BeginSessionId(WalkSig) # id
    <3>1. sessions'[id] = sessions[id]
      BY <2>1, <2>2 DEF BeginsAt, BeginSession, InsertSession, ReuseSession
    <3> QED
      BY <3>1
  <2>3. CASE BeginSessionId(WalkSig) = id
    <3>1. ResumableIds(WalkSig) # {} /\ id \in ResumableIds(WalkSig)
      BY <1>1, <2>3, LatestIsResumable DEF BeginSessionId, TableOK
    <3>2. Resumable(id) /\ sessions[id].sig = WalkSig /\ SomeResumable
      BY <3>1 DEF ResumableIds, SomeResumable
    <3>3. LatestResumable = id
      BY <1>1, <3>2, LatestHolds DEF StoreOK, NothingForgotten, Plain
    <3>4. WasResumed
      BY <3>2, <3>3 DEF WasResumed
    <3>5. LastCursor = sessions[id].cursor /\ ~ Overflows(LastCursor)
      BY <1>1, <1>4, <3>3, <3>4, ResumedWalk DEF BeginWalk
    <3>6. cur = Inc(sessions[id].cursor)
      <4>1. cur = Inc(LastCursor)
        BY <2>1, <3>4, Zenon DEF BeginsAt
      <4> QED
        BY <3>5, <4>1, Zenon
    <3>7. sessions'[id].cursor = cur
      <4>1. sessions[id] \in Row
        BY <1>1 DEF TableOK
      <4> QED
        BY <2>1, <2>3, <3>1, <4>1 DEF BeginsAt, BeginSession, ReuseSession, Row
    <3> QED
      BY <1>1, <3>5, <3>6, <3>7, UptoInc
  <2> QED
    BY <2>2, <2>3
<1> QED
  BY <1>2, <1>3, <1>4

Forwards ==
    Plain =>
        \A id \in DOMAIN sessions :
            sessions[id].mode = "walk" /\ pc' # "walk end" =>
                Upto(sessions[id].cursor) \subseteq Upto(sessions'[id].cursor)

(* Processes without flags never take a walk back until it wraps: a resume *)
(* begins after the cursor of its row and a flush writes a later one       *)
(* (Walk's resume through LatestResumable, CheckpointCursor).              *)
THEOREM RunWalkForward == Spec => WalkForward
<1>1. ASSUME IndInv, [Next]_vars PROVE Forwards
  <2> SUFFICES ASSUME Plain, NEW id \in DOMAIN sessions, sessions[id].mode = "walk",
                      pc' # "walk end"
               PROVE  Upto(sessions[id].cursor) \subseteq Upto(sessions'[id].cursor)
    BY DEF Forwards
  <2>1. CASE Opens
    BY <1>1, <2>1, BeginsForward
  <2>2. CASE WalkOn
    <3>1. open \in DOMAIN sessions /\ sessions[open].cursor \in Odometers
      BY <1>1, <2>2, WalkRow DEF WalkOn
    <3>2. PICK c \in Odometers :
            Precedes(sessions[open].cursor, c) /\ CheckpointCursor(open, c)
      <4>1. PICK c \in Odometers :
              Precedes(sessions[open].cursor, c) /\ CheckpointCursor(open, String(c))
        BY <2>2, Zenon DEF WalkOn
      <4>2. String(c) = c
        BY DEF String, Odometers
      <4>3. CheckpointCursor(open, c)
        BY <4>1, <4>2, Zenon
      <4> QED
        BY <4>1, <4>3
    <3>3. CASE id = open
      <4>1. sessions'[id].cursor = c
        BY <1>1, <3>1, <3>2, <3>3, Parts DEF CheckpointCursor, StoreOK, TableOK, Row
      <4> QED
        BY <3>1, <3>2, <3>3, <4>1, UptoGrows
    <3>4. CASE id # open
      BY <3>2, <3>4 DEF CheckpointCursor
    <3> QED
      BY <3>3, <3>4
  <2>3. CASE ~ Opens /\ ~ WalkOn
    <3>1. ~ WalkWrap
      BY DEF WalkWrap
    <3> QED
      BY <1>1, <2>3, <3>1, CursorsKept
  <2> QED
    BY <2>1, <2>2, <2>3
<1>2. IndInv /\ [Next]_vars => [Forwards]_vars
  BY <1>1
<1>3. WalkForward <=> [][Forwards]_vars
  BY PTL DEF WalkForward, Forwards, Plain
<1> QED
  BY <1>2, <1>3, RunInductive, PTL DEF Spec
=============================================================================
