----------------------- MODULE RequestFlowHookProofs -----------------------
(***************************************************************************)
(* Proofs about RequestFlow: which pre-hooks ran, which post-hooks undo    *)
(* them, and what governance charges, for every number of calls and every  *)
(* list of plugins.                                                        *)
(***************************************************************************)
EXTENDS RequestFlowProofs

-----------------------------------------------------------------------------
(* Which hooks ran.                                                        *)

\* The pre-hooks of the plugins s ran, those among the first n of the list all
\* that run in workspace w; s[k] is at position f[k].
Ran(s, all, w, f, n) ==
  /\ n \in 0..Len(all) /\ f \in [1..Len(s) -> 1..n]
  /\ \A a, b \in 1..Len(s) : a < b => f[a] < f[b]
  /\ \A k \in 1..Len(s) : s[k] = all[f[k]]
  /\ \A j \in 1..n : ShouldRun(all[j], all, w) <=> \E k \in 1..Len(s) : f[k] = j

\* The post-hooks u ran: e of plugins that were not asked, then those of s[t],
\* s[t-1], ... back to the ones after position h.
Undone(s, u, f, t, h, e) ==
  /\ t \in 0..Len(s) /\ e \in 0..Len(u) /\ Len(u) - e <= t
  /\ \A k \in 1..(Len(u) - e) : u[e + k] = s[t + 1 - k]
  /\ \A k \in 1..Len(s) : f[k] <= h <=> k <= t - (Len(u) - e)

\* The post-hooks u are of plugins of the list all beyond position h, in reverse.
Above(u, all, h) ==
  \E g \in [1..Len(u) -> 1..Len(all)] :
    /\ \A i \in 1..Len(u) : g[i] > h /\ u[i] = all[g[i]]
    /\ \A i, j \in 1..Len(u) : i < j => g[i] > g[j]

\* The list the pre-hooks of c ran over.
Hooked(c) == IF skips[c] THEN <<>> ELSE list[mine[c]]

\* How far the pre-hooks came of a stream that was returned.
Reach(c) == IF source[c] = "provider" THEN Len(Hooked(c)) ELSE count[c]

\* A response of the provider is charged when governance's post-hook has run.
Meters(c, t, e) ==
  ~stream[c] /\ ~rejected[c] /\ ~edited[c] /\ own[c] /\ val[c] = "resp" =>
    \A k \in 1..Len(pres[c]) :
      pres[c][k] = Governance => metered[c] > 0 \/ k <= t - (Len(posts[c]) - e)

\* Before the post-hooks: the pre-hooks that ran.
PreRun(c) ==
  /\ pc[c] \in {"pre", "submit", "wait"} => posts[c] = <<>> /\ ~own[c]
  /\ pc[c] = "pre" => \E f : Ran(pres[c], Hooked(c), ws[c], f, hook[c] - 1)
  /\ pc[c] \in {"submit", "wait"} =>
       \E f, n : Ran(pres[c], Hooked(c), ws[c], f, n) /\ (~cut[c] => n = Len(Hooked(c)))

\* The post-hooks of an answer undo the pre-hooks, from the last one on.
PostRun(c) ==
  pc[c] = "post" =>
    \E f, n, t, e : /\ Ran(pres[c], Hooked(c), ws[c], f, n)
                    /\ ~cut[c] => hook[c] <= n /\ e = 0
                    /\ Undone(pres[c], posts[c], f, t, hook[c], e)
                    /\ ~edited[c] => t = Len(pres[c])
                    /\ Meters(c, t, e)

\* The post-hooks of a chunk do.
ChunkRun(c) ==
  source[c] # "none" /\ ~edited[c] =>
    \E f, n : /\ Ran(pres[c], Hooked(c), ws[c], f, n)
              /\ IF cut[c] THEN source[c] = "provider" ELSE n = Reach(c)
              /\ pc[c] = "chunk" =>
                   /\ hook[c] <= Reach(c)
                   /\ \E e : /\ ~cut[c] => e = 0
                             /\ Undone(pres[c], posts[c], f, Len(pres[c]), hook[c], e)

\* Once they are through, the response is charged.
MeteredAtEnd(c) ==
  /\ ~stream[c] /\ pc[c] = "decide" /\ own[c] /\ val[c] = "resp"
  /\ ~edited[c] /\ ~rejected[c]
  => \A k \in 1..Len(pres[c]) : pres[c][k] = Governance => metered[c] > 0

\* As long as no stamp came too late.
HookRun(c) == ~late[c] => PreRun(c) /\ PostRun(c) /\ ChunkRun(c) /\ MeteredAtEnd(c)

\* What is known of every call's hooks.
HookInv == \A c \in Calls : HookRun(c)

-----------------------------------------------------------------------------
(* Which hooks ran: facts about the plugin lists alone.                    *)

\* No pre-hook has run yet.
LEMMA RanNothing ==
  ASSUME NEW all \in Seq(Plugins), NEW w PROVE \E f : Ran(<<>>, all, w, f, 0)
  <1> DEFINE f == [k \in 1..0 |-> 1]
  <1>1. Len(<<>>) = 0 /\ f \in [1..0 -> 1..0] /\ 0 \in 0..Len(all)
    OBVIOUS
  <1>2. Ran(<<>>, all, w, f, 0)
    BY <1>1 DEF Ran
  <1> QED BY <1>2

\* The next plugin is passed over.
LEMMA RanSkip ==
  ASSUME NEW s \in Seq(Plugins), NEW all \in Seq(Plugins), NEW w, NEW f, NEW n \in Nat,
         Ran(s, all, w, f, n), n + 1 <= Len(all), ~ShouldRun(all[n + 1], all, w)
  PROVE  Ran(s, all, w, f, n + 1)
  <1>1. n + 1 \in 0..Len(all) /\ f \in [1..Len(s) -> 1..(n + 1)]
    BY DEF Ran
  <1>2. \A k \in 1..Len(s) : f[k] \in 1..n
    BY DEF Ran
  <1>3. ASSUME NEW j \in 1..(n + 1)
        PROVE  ShouldRun(all[j], all, w) <=> \E k \in 1..Len(s) : f[k] = j
    <2>1. CASE j = n + 1
      BY <1>2, <2>1
    <2>2. CASE j # n + 1
      <3>1. j \in 1..n
        BY <2>2
      <3> QED BY <3>1 DEF Ran
    <2> QED BY <2>1, <2>2
  <1> QED BY <1>1, <1>3 DEF Ran

\* The pre-hook of the next plugin runs.
LEMMA RanOne ==
  ASSUME NEW s \in Seq(Plugins), NEW all \in Seq(Plugins), NEW w, NEW f, NEW n \in Nat,
         Ran(s, all, w, f, n), n + 1 <= Len(all), ShouldRun(all[n + 1], all, w)
  PROVE  \E g : Ran(Append(s, all[n + 1]), all, w, g, n + 1)
  <1> DEFINE m == Len(s) + 1
             g == [k \in 1..m |-> IF k = m THEN n + 1 ELSE f[k]]
             u == Append(s, all[n + 1])
  <1>0. all[n + 1] \in Plugins /\ Len(s) \in Nat
    OBVIOUS
  <1>1. u \in Seq(Plugins) /\ Len(u) = m /\ u[m] = all[n + 1] /\ \A k \in 1..Len(s) : u[k] = s[k]
    BY <1>0
  <1>2. \A k \in 1..Len(s) : f[k] \in 1..n
    BY DEF Ran
  <1>3. \A k \in 1..m : k = m \/ k \in 1..Len(s)
    BY <1>0
  <1>4. g \in [1..m -> 1..(n + 1)]
    BY <1>2, <1>3
  <1>5. /\ g[m] = n + 1 /\ m \in 1..m
        /\ \A k \in 1..Len(s) : g[k] = f[k] /\ k \in 1..m
    BY <1>0
  <1> HIDE DEF g, u, m
  <1>6. \A a, b \in 1..m : a < b => g[a] < g[b]
    <2> SUFFICES ASSUME NEW a \in 1..m, NEW b \in 1..m, a < b PROVE g[a] < g[b]
      OBVIOUS
    <2>1. a \in 1..Len(s)
      BY <1>0, <1>3 DEF m
    <2>2. CASE b = m
      BY <1>2, <1>5, <2>1, <2>2
    <2>3. CASE b \in 1..Len(s)
      BY <1>5, <2>1, <2>3 DEF Ran
    <2> QED BY <1>3, <2>2, <2>3
  <1>7. \A k \in 1..m : u[k] = all[g[k]]
    BY <1>1, <1>3, <1>5 DEF Ran
  <1>8. ASSUME NEW j \in 1..(n + 1)
        PROVE  ShouldRun(all[j], all, w) <=> \E k \in 1..m : g[k] = j
    <2>1. CASE j = n + 1
      BY <1>5, <2>1
    <2>2. CASE j # n + 1
      <3>1. j \in 1..n
        BY <2>2
      <3>2. ShouldRun(all[j], all, w) <=> \E k \in 1..Len(s) : f[k] = j
        BY <3>1 DEF Ran
      <3>3. (\E k \in 1..Len(s) : f[k] = j) <=> \E k \in 1..m : g[k] = j
        BY <1>3, <1>5, <2>2
      <3> QED BY <3>2, <3>3
    <2> QED BY <2>1, <2>2
  <1>9. Ran(u, all, w, g, n + 1)
    BY <1>1, <1>4, <1>6, <1>7, <1>8 DEF Ran
  <1> QED BY <1>9 DEF u

\* A workspace that decides alike for the plugins that were passed.
LEMMA RanStamp ==
  ASSUME NEW s, NEW all, NEW w, NEW v, NEW f, NEW n, Ran(s, all, w, f, n),
         \A j \in 1..n : ShouldRun(all[j], all, w) = ShouldRun(all[j], all, v)
  PROVE  Ran(s, all, v, f, n)
  BY DEF Ran

\* Where the post-hooks start that begin at position h.
LEMMA UndoStart ==
  ASSUME NEW s \in Seq(Plugins), NEW all \in Seq(Plugins), NEW w, NEW f, NEW n \in Nat,
         NEW h \in Nat, Ran(s, all, w, f, n)
  PROVE  \E t : Undone(s, <<>>, f, t, h, 0) /\ (n <= h => t = Len(s))
  <1> DEFINE m == Len(s) + 1
             above == {k \in 1..m : k = m \/ f[k] > h}
  <1>0. Len(s) \in Nat /\ \A k \in 1..Len(s) : f[k] \in 1..n
    BY DEF Ran
  <1>1. above \in SUBSET Nat /\ m \in above
    BY <1>0
  <1>2. PICK x \in above : \A y \in above : x <= y
    BY <1>1, Least
  <1>3. x - 1 \in 0..Len(s) /\ x \in Nat
    BY <1>0
  <1>4. ASSUME NEW k \in 1..Len(s) PROVE f[k] <= h <=> k <= x - 1
    <2>1. CASE k <= x - 1
      BY <1>0, <1>2, <1>3, <2>1
    <2>2. CASE ~(k <= x - 1)
      <3>1. x \in 1..Len(s) /\ f[x] > h
        BY <1>0, <1>3, <2>2
      <3>2. x = k \/ f[x] < f[k]
        BY <1>3, <2>2, <3>1 DEF Ran
      <3> QED BY <1>0, <2>2, <3>1, <3>2
    <2> QED BY <2>1, <2>2
  <1>5. Undone(s, <<>>, f, x - 1, h, 0)
    <2>1. Len(<<>>) = 0 /\ x - 1 \in Nat
      BY <1>3
    <2>2. (x - 1) - (0 - 0) = x - 1 /\ 0 \in 0..0 /\ 0 - 0 <= x - 1 /\ 0 - 0 = 0
      BY <2>1
    <2> QED BY <1>3, <1>4, <2>1, <2>2 DEF Undone
  <1>6. n <= h => x - 1 = Len(s)
    <2> SUFFICES ASSUME n <= h PROVE x = m
      BY <1>0
    <2>1. \A k \in 1..Len(s) : ~(f[k] > h)
      BY <1>0
    <2> QED BY <1>0, <2>1
  <1> QED BY <1>5, <1>6

\* A position whose plugin is passed over.
LEMMA UndoSkip ==
  ASSUME NEW s \in Seq(Plugins), NEW u \in Seq(Plugins), NEW all \in Seq(Plugins), NEW w, NEW f,
         NEW n \in Nat, NEW t, NEW e, NEW h \in 1..Len(all), Ran(s, all, w, f, n),
         Undone(s, u, f, t, h, e), ~ShouldRun(all[h], all, w)
  PROVE  Undone(s, u, f, t, h - 1, e)
  <1>1. \A k \in 1..Len(s) : f[k] \in 1..n /\ f[k] # h
    BY DEF Ran
  <1>2. \A k \in 1..Len(s) : f[k] <= h <=> f[k] <= h - 1
    BY <1>1
  <1> QED BY <1>2 DEF Undone

\* A position whose plugin's post-hook runs: its pre-hook is the last one left.
LEMMA UndoOne ==
  ASSUME NEW s \in Seq(Plugins), NEW u \in Seq(Plugins), NEW all \in Seq(Plugins), NEW w, NEW f,
         NEW n \in Nat, NEW t, NEW e, NEW h \in 1..n, Ran(s, all, w, f, n),
         Undone(s, u, f, t, h, e), ShouldRun(all[h], all, w)
  PROVE  /\ t - (Len(u) - e) \in 1..Len(s) /\ s[t - (Len(u) - e)] = all[h]
         /\ Undone(s, Append(u, all[h]), f, t, h - 1, e)
  <1> DEFINE l == t - (Len(u) - e)
             v == Append(u, all[h])
  <1>0. /\ t \in 0..Len(s) /\ Len(u) \in Nat /\ e \in 0..Len(u) /\ Len(u) - e <= t
        /\ Len(s) \in Nat /\ all[h] \in Plugins
    BY DEF Undone, Ran
  <1>1. PICK k \in 1..Len(s) : f[k] = h
    BY DEF Ran
  <1>2. k <= l
    BY <1>1 DEF Undone
  <1>3. l \in 1..Len(s)
    BY <1>0, <1>2
  <1>4. f[l] <= h
    BY <1>3, <1>0 DEF Undone
  <1>5. \A i \in 1..Len(s) : f[i] \in 1..n
    BY DEF Ran
  <1>6. k = l
    <2>1. k < l => f[k] < f[l]
      BY <1>3 DEF Ran
    <2>2. f[k] = h /\ f[l] \in Nat /\ h \in Nat
      BY <1>1, <1>3, <1>5
    <2>3. l \in Nat /\ k \in Nat
      BY <1>3
    <2> HIDE DEF l
    <2>4. ~(k < l)
      BY <1>4, <2>1, <2>2
    <2> QED BY <1>2, <2>3, <2>4
  <1>7. s[l] = all[h]
    BY <1>1, <1>6 DEF Ran
  <1>8. v \in Seq(Plugins) /\ Len(v) = Len(u) + 1 /\ v[Len(u) + 1] = all[h]
        /\ \A i \in 1..Len(u) : v[i] = u[i]
    BY <1>0
  <1>9. \A i \in 1..(Len(v) - e) : v[e + i] = s[t + 1 - i]
    <2> SUFFICES ASSUME NEW i \in 1..(Len(v) - e) PROVE v[e + i] = s[t + 1 - i]
      OBVIOUS
    <2>1. CASE i = Len(u) - e + 1
      <3>1. t + 1 - i = l /\ e + i = Len(u) + 1
        BY <1>0, <2>1
      <3> QED BY <1>7, <1>8, <3>1
    <2>2. CASE i # Len(u) - e + 1
      <3>1. i \in 1..(Len(u) - e) /\ e + i \in 1..Len(u)
        BY <1>0, <1>8, <2>2
      <3> QED BY <1>8, <3>1 DEF Undone
    <2> QED BY <2>1, <2>2
  <1>10. ASSUME NEW i \in 1..Len(s) PROVE f[i] <= h - 1 <=> i <= t - (Len(v) - e)
    <2>1. i < l => f[i] < f[l]
      BY <1>3 DEF Ran
    <2>2. i > l => ~(f[i] <= h)
      BY <1>0, <1>3 DEF Undone
    <2>3. f[l] = h /\ f[i] \in Nat /\ h \in Nat
      BY <1>1, <1>5, <1>6
    <2> QED BY <1>0, <1>3, <1>8, <2>1, <2>2, <2>3
  <1>11. t \in 0..Len(s) /\ e \in 0..Len(v) /\ Len(v) - e <= t
    BY <1>0, <1>3, <1>8
  <1>12. Undone(s, v, f, t, h - 1, e)
    BY <1>9, <1>10, <1>11 DEF Undone
  <1> QED BY <1>3, <1>7, <1>12

\* A position beyond the pre-hooks: nothing is undone yet, and nothing by this.
LEMMA UndoExtra ==
  ASSUME NEW s \in Seq(Plugins), NEW u \in Seq(Plugins), NEW all \in Seq(Plugins), NEW w, NEW f,
         NEW n \in Nat, NEW t, NEW e, NEW h \in 1..Len(all), Ran(s, all, w, f, n), h > n,
         Undone(s, u, f, t, h, e)
  PROVE  Undone(s, Append(u, all[h]), f, t, h - 1, e + 1)
  <1> DEFINE v == Append(u, all[h])
  <1>0. /\ t \in 0..Len(s) /\ Len(u) \in Nat /\ e \in 0..Len(u) /\ Len(u) - e <= t
        /\ Len(s) \in Nat /\ all[h] \in Plugins
    BY DEF Undone
  <1>1. \A k \in 1..Len(s) : f[k] \in 1..n
    BY DEF Ran
  <1>2. \A k \in 1..Len(s) : f[k] <= h /\ f[k] <= h - 1
    BY <1>1
  <1>3. \A k \in 1..Len(s) : k <= t - (Len(u) - e)
    BY <1>2 DEF Undone
  <1>4. Len(u) = e
    <2>1. CASE Len(s) = 0
      BY <1>0, <2>1
    <2>2. CASE Len(s) # 0
      <3>1. Len(s) <= t - (Len(u) - e)
        BY <1>0, <1>3, <2>2
      <3> QED BY <1>0, <3>1
    <2> QED BY <2>1, <2>2
  <1>5. Len(v) = e + 1
    BY <1>0, <1>4
  <1>6. Len(v) - (e + 1) = 0 /\ e + 1 \in 0..Len(v) /\ t - 0 = t /\ t - (Len(u) - e) = t
    BY <1>0, <1>4, <1>5
  <1> HIDE DEF v
  <1>7. \A k \in 1..Len(s) : f[k] <= h - 1 <=> k <= t - (Len(v) - (e + 1))
    BY <1>2, <1>3, <1>6
  <1>8. Undone(s, v, f, t, h - 1, e + 1)
    BY <1>0, <1>6, <1>7 DEF Undone
  <1> QED BY <1>8 DEF v

\* The post-hooks are through: as many ran as were to be undone.
LEMMA UndoEnd ==
  ASSUME NEW s \in Seq(Plugins), NEW u \in Seq(Plugins), NEW all, NEW w, NEW f, NEW n \in Nat,
         NEW t, NEW e, Ran(s, all, w, f, n), Undone(s, u, f, t, 0, e)
  PROVE  Len(u) - e = t
  <1>1. /\ t \in 0..Len(s) /\ Len(u) \in Nat /\ e \in 0..Len(u) /\ Len(u) - e <= t
        /\ Len(s) \in Nat
    BY DEF Undone
  <1>2. \A k \in 1..Len(s) : f[k] \in 1..n /\ ~(f[k] <= 0)
    BY DEF Ran
  <1>3. \A k \in 1..Len(s) : ~(k <= t - (Len(u) - e))
    BY <1>2 DEF Undone
  <1>4. CASE t = 0
    BY <1>1, <1>4
  <1>5. CASE t # 0
    <2>1. 1 \in 1..Len(s) /\ ~(1 <= t - (Len(u) - e))
      BY <1>1, <1>3, <1>5
    <2> QED BY <1>1, <2>1
  <1> QED BY <1>4, <1>5

\* No post-hook has run yet.
LEMMA AboveNothing ==
  ASSUME NEW all \in Seq(Plugins), NEW h PROVE Above(<<>>, all, h)
  <1> DEFINE g == [k \in 1..0 |-> 1]
  <1>1. Len(<<>>) = 0 /\ g \in [1..0 -> 1..Len(all)] /\ \A i \in 1..0 : FALSE
    OBVIOUS
  <1> HIDE DEF g
  <1> QED BY <1>1 DEF Above

\* The next position is passed over, or its post-hook runs.
LEMMA AboveNext ==
  ASSUME NEW u \in Seq(Plugins), NEW all \in Seq(Plugins), NEW h \in 1..Len(all), Above(u, all, h)
  PROVE  Above(u, all, h - 1) /\ Above(Append(u, all[h]), all, h - 1)
  <1> DEFINE m == Len(u) + 1
             v == Append(u, all[h])
  <1>0. Len(u) \in Nat /\ Len(all) \in Nat /\ all[h] \in Plugins /\ h \in Nat
    OBVIOUS
  <1>1. PICK g \in [1..Len(u) -> 1..Len(all)] :
          /\ \A i \in 1..Len(u) : g[i] > h /\ u[i] = all[g[i]]
          /\ \A i, j \in 1..Len(u) : i < j => g[i] > g[j]
    BY DEF Above
  <1>2. \A i \in 1..Len(u) : g[i] \in Nat /\ g[i] > h - 1
    BY <1>0, <1>1
  <1>3. Above(u, all, h - 1)
    BY <1>1, <1>2 DEF Above
  <1> DEFINE x == [k \in 1..m |-> IF k = m THEN h ELSE g[k]]
  <1>4. /\ v \in Seq(Plugins) /\ Len(v) = m /\ v[m] = all[h]
        /\ \A k \in 1..Len(u) : v[k] = u[k]
    BY <1>0
  <1>5. \A k \in 1..m : k = m \/ k \in 1..Len(u)
    BY <1>0
  <1>6. x \in [1..m -> 1..Len(all)] /\ x[m] = h /\ \A k \in 1..Len(u) : x[k] = g[k]
    <2>1. \A k \in 1..m : (IF k = m THEN h ELSE g[k]) \in 1..Len(all)
      BY <1>5
    <2> QED BY <1>0, <2>1
  <1> HIDE DEF x, v
  <1>7. \A i \in 1..m : x[i] > h - 1 /\ v[i] = all[x[i]]
    BY <1>0, <1>1, <1>2, <1>4, <1>5, <1>6
  <1>8. \A i, j \in 1..m : i < j => x[i] > x[j]
    <2> SUFFICES ASSUME NEW i \in 1..m, NEW j \in 1..m, i < j PROVE x[i] > x[j]
      OBVIOUS
    <2>1. i \in 1..Len(u)
      BY <1>0
    <2>2. CASE j = m
      BY <1>1, <1>6, <2>1, <2>2
    <2>3. CASE j \in 1..Len(u)
      BY <1>1, <1>6, <2>1, <2>3
    <2> QED BY <1>5, <2>2, <2>3
  <1>9. Above(v, all, h - 1)
    BY <1>4, <1>6, <1>7, <1>8 DEF Above
  <1> QED BY <1>3, <1>9 DEF v

\* Of a list without repetition no post-hook runs twice, and the one of the next
\* position has not run.
LEMMA AboveOnce ==
  ASSUME NEW u \in Seq(Plugins), NEW all \in Seq(Plugins), NEW h \in 0..Len(all), ListedOnce(all),
         Above(u, all, h)
  PROVE  /\ \A i, j \in 1..Len(u) : u[i] = u[j] => i = j
         /\ h > 0 => \A i \in 1..Len(u) : u[i] # all[h]
  <1>1. PICK g \in [1..Len(u) -> 1..Len(all)] :
          /\ \A i \in 1..Len(u) : g[i] > h /\ u[i] = all[g[i]]
          /\ \A i, j \in 1..Len(u) : i < j => g[i] > g[j]
    BY DEF Above
  <1>2. ASSUME NEW i \in 1..Len(u), NEW j \in 1..Len(u), u[i] = u[j] PROVE i = j
    <2>1. g[i] = g[j] /\ g[i] \in Nat
      BY <1>1, <1>2 DEF ListedOnce
    <2>2. ~(i < j) /\ ~(j < i)
      BY <1>1, <2>1
    <2> QED BY <2>2
  <1>3. ASSUME h > 0, NEW i \in 1..Len(u), u[i] = all[h] PROVE FALSE
    <2>1. h \in 1..Len(all) /\ g[i] \in 1..Len(all) /\ all[g[i]] = all[h]
      BY <1>1, <1>3
    <2>2. g[i] = h
      BY <2>1 DEF ListedOnce
    <2> QED BY <1>1, <2>1, <2>2
  <1> QED BY <1>2, <1>3
-----------------------------------------------------------------------------
(* Which hooks ran: the steps of a call.                                   *)

\* What the steps are proved from.
FlowInv == BaseInv /\ TargetInv /\ MarkInv /\ PoolInv /\ RangeInv /\ ListInv

\* The list the hooks ran over stays as it is, in use or not, as long as the
\* call has it and no plugin changed.
LEMMA HookedStays ==
  ASSUME FlowInv, [Next]_vars, NEW c \in Calls,
         pc[c] \in Holding \/ (source[c] # "none" /\ ~edited[c])
  PROVE  mine[c] \in Pipelines /\ list'[mine[c]] = list[mine[c]]
  <1>0. BaseInv /\ PoolInv /\ ListInv
    BY DEF FlowInv
  <1>1. mine[c] \in Pipelines
    BY <1>0 DEF BaseInv, InHand
  <1>2. CASE pc[c] \in Holding
    BY <1>0, <1>1, <1>2, InUseStays DEF HoldsMine
  <1>3. CASE source[c] # "none" /\ ~edited[c]
    <2>1. list[mine[c]] = plugins
      BY <1>0, <1>1, <1>3, FlowAssumption DEF ListInv, Fresh
    <2> QED BY <1>0, <1>1, <2>1, ListMoves
  <1> QED BY <1>1, <1>2, <1>3

\* The list a call's hooks ran over is a list of plugins.
LEMMA HookedType ==
  ASSUME BaseInv, NEW c \in Calls, mine[c] \in Pipelines
  PROVE  Hooked(c) \in Seq(Plugins) /\ Len(Hooked(c)) \in Nat
  <1>1. Hooked(c) \in Seq(Plugins)
    BY DEF Hooked, BaseInv, TypeOK
  <1> QED BY <1>1

\* Nothing that HookRun(c) is about changes.
HookSame(c) ==
  /\ pc'[c] = pc[c] /\ skips'[c] = skips[c] /\ stream'[c] = stream[c] /\ mine'[c] = mine[c]
  /\ hook'[c] = hook[c] /\ pres'[c] = pres[c] /\ posts'[c] = posts[c] /\ count'[c] = count[c]
  /\ cut'[c] = cut[c] /\ val'[c] = val[c] /\ own'[c] = own[c]
  /\ ws'[c] = ws[c] /\ late'[c] = late[c] /\ metered'[c] = metered[c]
  /\ rejected'[c] = rejected[c] /\ source'[c] = source[c]
  /\ edited[c] => edited'[c]

\* A call that does not take the step.
LEMMA HookElse ==
  ASSUME FlowInv, [Next]_vars, NEW c \in Calls, HookRun(c), HookSame(c)
  PROVE  HookRun(c)'
  <1> SUFFICES ASSUME ~late[c]
               PROVE  PreRun(c)' /\ PostRun(c)' /\ ChunkRun(c)' /\ MeteredAtEnd(c)'
    BY DEF HookRun, HookSame
  <1>0. PreRun(c) /\ PostRun(c) /\ ChunkRun(c) /\ MeteredAtEnd(c)
    BY DEF HookRun
  <1>1. pc[c] \in Holding \/ (source[c] # "none" /\ ~edited[c]) => Hooked(c)' = Hooked(c)
    BY HookedStays DEF HookSame, Hooked
  <1>2. PreRun(c)'
    BY <1>0, <1>1 DEF PreRun, HookSame, Holding
  <1>3. PostRun(c)'
    <2> SUFFICES ASSUME pc[c] = "post"
                 PROVE  PostRun(c)'
      BY DEF PostRun, HookSame
    <2>1. PICK f, n, t, e : /\ Ran(pres[c], Hooked(c), ws[c], f, n)
                            /\ ~cut[c] => hook[c] <= n /\ e = 0
                            /\ Undone(pres[c], posts[c], f, t, hook[c], e)
                            /\ ~edited[c] => t = Len(pres[c])
                            /\ Meters(c, t, e)
      BY <1>0 DEF PostRun
    <2>2. Meters(c, t, e)'
      BY <2>1 DEF Meters, HookSame
    <2>3. Hooked(c)' = Hooked(c)
      BY <1>1 DEF Holding
    <2> QED BY <2>1, <2>2, <2>3 DEF PostRun, HookSame
  <1>4. ChunkRun(c)'
    <2>1. source[c] # "none" /\ ~edited[c] => Reach(c)' = Reach(c)
      BY <1>1 DEF Reach, HookSame
    <2> QED BY <1>0, <1>1, <2>1 DEF ChunkRun, HookSame
  <1>5. MeteredAtEnd(c)'
    BY <1>0 DEF MeteredAtEnd, HookSame
  <1> QED BY <1>2, <1>3, <1>4, <1>5

\* A call that leaves its attempt without a response, or is not in one.
LEMMA HookIdle ==
  ASSUME NEW c \in Calls, source'[c] = "none", pc'[c] \notin Holding,
         pc'[c] = "decide" => val'[c] # "resp"
  PROVE  HookRun(c)'
  BY DEF HookRun, PreRun, PostRun, ChunkRun, MeteredAtEnd, Holding

\* A pipeline is taken: no hook has run.
LEMMA HookTry ==
  ASSUME FlowInv, [Next]_vars, NEW d \in Calls, TryProvider(d) PROVE HookRun(d)'
  <1> USE CallDomains DEF FlowInv
  <1>0. InHand(d) /\ Fresh(d)
    BY DEF BaseInv, ListInv
  <1>1. pc[d] = "try" /\ source[d] = "none" /\ UNCHANGED <<source, own>>
    BY <1>0 DEF TryProvider, InHand, Returned, streamVars
  <1>2. CASE val' = [val EXCEPT ![d] = "err"] /\ Goto(d, "decide")
    <2>1. pc'[d] = "decide" /\ val'[d] = "err"
      BY <1>1, <1>2 DEF Goto
    <2> QED BY <1>1, <2>1, HookIdle DEF Holding
  <1>3. CASE \E p \in free : GetPluginPipeline(p) /\ mine' = [mine EXCEPT ![d] = p]
                             /\ hook' = [hook EXCEPT ![d] = 1] /\ Goto(d, "pre")
                             /\ UNCHANGED <<pres, posts>>
    <2>1. pc'[d] = "pre" /\ hook'[d] = 1 /\ pres'[d] = <<>> /\ posts'[d] = <<>> /\ ~own'[d]
      BY <1>0, <1>1, <1>3 DEF Goto, Fresh
    <2>2. Hooked(d)' \in Seq(Plugins)
      <3>1. BaseInv'
        BY BaseStep
      <3>2. mine'[d] \in Pipelines /\ list' \in [Pipelines -> Seq(Plugins)]
        BY <2>1, <3>1 DEF BaseInv, InHand, Holding, TypeOK
      <3> QED BY <3>2 DEF Hooked
    <2>3. \E f : Ran(<<>>, Hooked(d)', ws'[d], f, 0)
      BY <2>2, RanNothing
    <2>4. PreRun(d)'
      BY <2>1, <2>3 DEF PreRun
    <2> QED BY <1>1, <2>1, <2>4 DEF HookRun, PostRun, ChunkRun, MeteredAtEnd
  <1> QED BY <1>2, <1>3 DEF TryProvider

\* What the pre-hooks know before the next one: which ran, and over which list.
LEMMA PreHookKnows ==
  ASSUME FlowInv, [Next]_vars, NEW d \in Calls, HookRun(d), pc[d] = "pre"
  PROVE  /\ Hooked(d) \in Seq(Plugins) /\ Len(Hooked(d)) \in Nat /\ ListOf(d) = Hooked(d)
         /\ list'[mine[d]] = list[mine[d]] /\ source[d] = "none"
         /\ hook[d] - 1 \in Nat /\ hook[d] <= Len(Hooked(d)) + 1
         /\ ~late[d] => posts[d] = <<>> /\ ~own[d]
         /\ ~late[d] => \E f : Ran(pres[d], Hooked(d), ws[d], f, hook[d] - 1)
         /\ late[d] => ws[d] # None
         /\ pres[d] \in Seq(Plugins)
  <1>0. BaseInv /\ InHand(d) /\ InRange(d) /\ Fresh(d)
    BY DEF FlowInv, BaseInv, RangeInv, ListInv
  <1>1. mine[d] \in Pipelines /\ list'[mine[d]] = list[mine[d]]
    BY HookedStays DEF Holding
  <1>2. Hooked(d) \in Seq(Plugins) /\ Len(Hooked(d)) \in Nat
    BY <1>0, <1>1, HookedType
  <1>3. ListOf(d) = Hooked(d)
    BY DEF ListOf, Using, Hooked
  <1>4. hook[d] - 1 \in Nat /\ hook[d] <= Len(Hooked(d)) + 1
    <2>1. hook[d] \in Nat /\ hook[d] > 0
      BY <1>0 DEF BaseInv, TypeOK, InHand
    <2> QED BY <1>0, <1>3, <2>1 DEF InRange
  <1>5. source[d] = "none" /\ (late[d] => ws[d] # None)
    BY <1>0 DEF InHand, Returned, Fresh
  <1>6. ~late[d] => /\ posts[d] = <<>> /\ ~own[d]
                    /\ \E f : Ran(pres[d], Hooked(d), ws[d], f, hook[d] - 1)
    BY DEF HookRun, PreRun
  <1>7. pres[d] \in Seq(Plugins)
    BY <1>0 DEF BaseInv, TypeOK
  <1> QED BY <1>1, <1>2, <1>3, <1>4, <1>5, <1>6, <1>7

\* A pre-hook runs or is passed over.
LEMMA HookPre ==
  ASSUME FlowInv, [Next]_vars, NEW d \in Calls, HookRun(d), PreHook(d) PROVE HookRun(d)'
  <1> USE CallDomains DEF FlowInv
  <1>0. pc[d] = "pre" /\ hook[d] <= Len(ListOf(d))
    BY DEF PreHook
  <1> DEFINE H == Hooked(d)
             k == hook[d]
  <1>k. /\ H \in Seq(Plugins) /\ Len(H) \in Nat /\ ListOf(d) = H
        /\ list'[mine[d]] = list[mine[d]] /\ source[d] = "none"
        /\ k - 1 \in Nat
        /\ ~late[d] => posts[d] = <<>> /\ ~own[d]
        /\ ~late[d] => \E f : Ran(pres[d], H, ws[d], f, k - 1)
        /\ late[d] => ws[d] # None
        /\ pres[d] \in Seq(Plugins)
    BY <1>0, PreHookKnows
  <1>1. /\ mine'[d] = mine[d] /\ skips'[d] = skips[d] /\ source'[d] = "none" /\ posts' = posts
        /\ own' = own
    BY <1>k DEF PreHook, streamVars
  <1>2. Hooked(d)' = H
    BY <1>1, <1>k DEF Hooked
  <1>3. k <= Len(H) /\ (k - 1) + 1 = k /\ k \in Nat
    <2>1. k \in Nat
      BY DEF BaseInv, TypeOK
    <2> QED BY <1>0, <1>k, <2>1
  <1> HIDE DEF H, k
  <1>4. CASE ~ShouldRun(H[k], H, ws[d])
    <2>1. /\ hook'[d] = k + 1 /\ pc'[d] = "pre" /\ pres'[d] = pres[d] /\ ws'[d] = ws[d]
          /\ late'[d] = late[d]
      BY <1>4, <1>k, <1>0 DEF PreHook, H, k
    <2>2. ASSUME ~late[d] PROVE PreRun(d)'
      <3>1. PICK f : Ran(pres[d], H, ws[d], f, k - 1)
        BY <1>k, <2>2
      <3>2. Ran(pres[d], H, ws[d], f, (k - 1) + 1)
        BY <1>3, <1>4, <1>k, <3>1, RanSkip
      <3>3. hook'[d] - 1 = (k - 1) + 1
        BY <1>3, <2>1
      <3> QED BY <1>1, <1>2, <1>k, <2>1, <2>2, <3>2, <3>3 DEF PreRun
    <2> QED BY <1>1, <2>1, <2>2 DEF HookRun, PostRun, ChunkRun, MeteredAtEnd
  <1>5. CASE ShouldRun(H[k], H, ws[d])
    <2>1. /\ pres'[d] = Append(pres[d], H[k]) /\ Stamp(d, H[k]) /\ PreHookOutcome(d, H[k])
      BY <1>5, <1>k DEF PreHook, H, k
    <2>2. ASSUME ~late'[d]
          PROVE  ~late[d] /\ \A j \in 1..k : ShouldRun(H[j], H, ws[d]) = ShouldRun(H[j], H, ws'[d])
      <3>1. CASE UNCHANGED <<ws, late>>
        BY <2>2, <3>1
      <3>2. CASE /\ ws[d] = None
                 /\ \E w \in Workspaces :
                      /\ ws' = [ws EXCEPT ![d] = w]
                      /\ late' = [late EXCEPT ![d] = \E j \in 1..k :
                                    ShouldRun(H[j], H, None) # ShouldRun(H[j], H, w)]
        BY <1>k, <2>2, <3>2
      <3> QED BY <1>k, <2>1, <3>1, <3>2 DEF Stamp, k
    <2>3. ASSUME ~late'[d] PROVE \E g : Ran(pres'[d], H, ws'[d], g, k)
      <3>1. PICK f : Ran(pres[d], H, ws[d], f, k - 1)
        BY <1>k, <2>2, <2>3
      <3>2. PICK g : Ran(Append(pres[d], H[(k - 1) + 1]), H, ws[d], g, (k - 1) + 1)
        BY <1>3, <1>5, <1>k, <3>1, RanOne
      <3>3. Ran(pres'[d], H, ws[d], g, k)
        BY <1>3, <2>1, <3>2
      <3>4. Ran(pres'[d], H, ws'[d], g, k)
        BY <2>2, <2>3, <3>3, RanStamp
      <3> QED BY <3>4
    <2>4. CASE pc'[d] = "pre" /\ hook'[d] = k + 1
      <3>1. (k + 1) - 1 = k
        BY <1>3
      <3>2. ~late'[d] => PreRun(d)'
        BY <1>1, <1>2, <1>k, <2>2, <2>3, <2>4, <3>1 DEF PreRun
      <3> QED BY <1>1, <2>4, <3>2 DEF HookRun, PostRun, ChunkRun, MeteredAtEnd
    <2>5. CASE pc'[d] = "post" /\ hook'[d] = k
      <3>1. ASSUME ~late'[d] PROVE PostRun(d)'
        <4>1. PICK g : Ran(pres'[d], H, ws'[d], g, k)
          BY <2>3, <3>1
        <4>2. pres'[d] \in Seq(Plugins) /\ posts'[d] = <<>>
          BY <1>1, <1>3, <1>k, <2>1, <2>2, <3>1
        <4>3. PICK t : Undone(pres'[d], <<>>, g, t, k, 0) /\ (k <= k => t = Len(pres'[d]))
          BY <1>3, <1>k, <4>1, <4>2, UndoStart
        <4>4. Meters(d, t, 0)'
          BY <1>1, <1>k, <2>2, <3>1 DEF Meters
        <4> QED BY <1>2, <1>3, <2>5, <4>1, <4>2, <4>3, <4>4 DEF PostRun
      <3> QED BY <1>1, <2>5, <3>1 DEF HookRun, PreRun, ChunkRun, MeteredAtEnd
    <2> QED BY <1>0, <2>1, <2>4, <2>5 DEF PreHookOutcome, Goto, k
  <1> QED BY <1>4, <1>5

\* A pre-hook answers a stream with a stream of its own.
LEMMA HookShortCircuit ==
  ASSUME FlowInv, [Next]_vars, NEW d \in Calls, HookRun(d), StreamShortCircuit(d) PROVE HookRun(d)'
  <1> USE CallDomains DEF FlowInv
  <1>0. pc[d] = "pre" /\ hook[d] <= Len(ListOf(d)) /\ stream[d] /\ hook[d] \in Nat
    BY DEF StreamShortCircuit, BaseInv, TypeOK
  <1> DEFINE H == Hooked(d)
             k == hook[d]
  <1>k. /\ H \in Seq(Plugins) /\ Len(H) \in Nat /\ ListOf(d) = H
        /\ list'[mine[d]] = list[mine[d]] /\ k - 1 \in Nat
        /\ ~late[d] => \E f : Ran(pres[d], H, ws[d], f, k - 1)
        /\ pres[d] \in Seq(Plugins)
    BY <1>0, PreHookKnows
  <1>1. /\ mine'[d] = mine[d] /\ skips'[d] = skips[d] /\ source'[d] = "cached" /\ late' = late
        /\ ws' = ws /\ pc'[d] = "decide" /\ count'[d] = k /\ stream'[d] /\ ~cut'[d]
    BY <1>0 DEF StreamShortCircuit, Leave, Goto, ctxVars
  <1>2. Hooked(d)' = H
    BY <1>1, <1>k DEF Hooked
  <1>3. k <= Len(H) /\ (k - 1) + 1 = k /\ k \in Nat
    BY <1>0, <1>k
  <1>4. ShouldRun(H[k], H, ws[d]) /\ pres'[d] = Append(pres[d], H[k])
    BY <1>k DEF StreamShortCircuit
  <1> HIDE DEF H, k
  <1>5. ASSUME ~late[d] PROVE ChunkRun(d)'
    <2>1. PICK f : Ran(pres[d], H, ws[d], f, k - 1)
      BY <1>k, <1>5
    <2>2. PICK g : Ran(Append(pres[d], H[(k - 1) + 1]), H, ws[d], g, (k - 1) + 1)
      BY <1>3, <1>4, <1>k, <2>1, RanOne
    <2>3. Ran(pres'[d], H, ws[d], g, k)
      BY <1>3, <1>4, <2>2
    <2>4. Reach(d)' = k
      BY <1>1 DEF Reach
    <2> QED BY <1>1, <1>2, <2>3, <2>4 DEF ChunkRun
  <1> QED BY <1>1, <1>5 DEF HookRun, PreRun, PostRun, MeteredAtEnd

\* The pre-hooks are through, the message is queued, or the attempt ends here.
LEMMA HookSubmit ==
  ASSUME FlowInv, [Next]_vars, NEW d \in Calls, HookRun(d), PreHooksDone(d) \/ Submit(d)
  PROVE  HookRun(d)'
  <1> USE CallDomains DEF FlowInv
  <1>0. InHand(d)
    BY DEF BaseInv
  <1>1. /\ pc[d] \in {"pre", "submit"} /\ source[d] = "none" /\ source' = source /\ at' = at
        /\ mine' = mine /\ skips' = skips /\ pres' = pres /\ posts' = posts /\ ws' = ws
        /\ late' = late /\ own' = own /\ cut' = cut
    BY <1>0 DEF PreHooksDone, Submit, InHand, Returned, streamVars, hookVars, ctxVars
  <1>2. CASE Leave(d, "err")
    <2>1. pc'[d] = "decide" /\ val'[d] = "err"
      BY <1>1, <1>2 DEF Goto, Leave
    <2> QED BY <1>1, <2>1, HookIdle DEF Holding
  <1>3. CASE pc'[d] \in {"submit", "wait"}
    <2>1. Hooked(d)' = Hooked(d)
      BY <1>1, HookedStays DEF Holding, Hooked
    <2>2. ASSUME ~late[d]
          PROVE  \E f, n : /\ Ran(pres[d], Hooked(d), ws[d], f, n)
                           /\ ~cut[d] => n = Len(Hooked(d))
      <3>1. CASE pc[d] = "submit"
        BY <2>2, <3>1 DEF HookRun, PreRun
      <3>2. CASE pc[d] = "pre"
        <4>1. /\ Len(Hooked(d)) \in Nat /\ ListOf(d) = Hooked(d) /\ hook[d] <= Len(Hooked(d)) + 1
              /\ \E f : Ran(pres[d], Hooked(d), ws[d], f, hook[d] - 1)
          BY <2>2, <3>2, PreHookKnows
        <4>2. hook[d] \in Nat /\ (~cut[d] => hook[d] > Len(ListOf(d)))
          BY <3>2 DEF BaseInv, TypeOK, PreHooksDone, Submit
        <4>3. ~cut[d] => hook[d] - 1 = Len(Hooked(d))
          BY <4>1, <4>2
        <4> QED BY <4>1, <4>3
      <3> QED BY <1>1, <3>1, <3>2
    <2>3. ~late[d] => posts[d] = <<>> /\ ~own[d]
      BY <1>1 DEF HookRun, PreRun
    <2>4. ~late[d] => PreRun(d)'
      BY <1>1, <1>3, <2>1, <2>2, <2>3 DEF PreRun
    <2> QED BY <1>1, <1>3, <2>4 DEF HookRun, PostRun, ChunkRun, MeteredAtEnd
  <1> QED BY <1>2, <1>3 DEF PreHooksDone, Submit, Goto

\* The caller walks away.
LEMMA HookCancelled ==
  ASSUME FlowInv, NEW d \in Calls, WaitCancelled(d) PROVE HookRun(d)'
  <1> USE CallDomains DEF FlowInv
  <1>0. InHand(d)
    BY DEF BaseInv
  <1>1. source[d] = "none" /\ source' = source /\ at' = at
    BY <1>0 DEF WaitCancelled, InHand, Returned, streamVars
  <1>2. pc'[d] = "decide" /\ val'[d] = "cancelled"
    BY DEF Goto, Leave, WaitCancelled
  <1> QED BY <1>1, <1>2, HookIdle DEF Holding

\* The answer arrives: the post-hooks begin where the pre-hooks ended.
LEMMA HookAnswer ==
  ASSUME FlowInv, [Next]_vars, NEW d \in Calls, HookRun(d), TakeAnswer(d) PROVE HookRun(d)'
  <1> USE CallDomains DEF FlowInv
  <1>0. InHand(d) /\ Fresh(d)
    BY DEF BaseInv, ListInv
  <1>1. /\ pc[d] = "wait" /\ source[d] = "none" /\ at' = at /\ stream' = stream
        /\ mine' = mine /\ skips' = skips /\ pres' = pres /\ posts' = posts /\ ws' = ws
        /\ late' = late /\ edited' = edited /\ cut' = cut
    BY <1>0 DEF TakeAnswer, InHand, Returned, ctxVars, listVars
  <1> DEFINE H == Hooked(d)
  <1>2. /\ mine[d] \in Pipelines /\ Hooked(d)' = H
    BY <1>1, HookedStays DEF Holding, Hooked
  <1>3. H \in Seq(Plugins) /\ Len(H) \in Nat /\ pres[d] \in Seq(Plugins)
    BY <1>2, HookedType DEF BaseInv, TypeOK
  <1>4. ListOf(d) = H
    BY <1>1 DEF ListOf, Using, Hooked
  <1>r. ~late[d] => /\ posts[d] = <<>>
                    /\ \E f, n : /\ Ran(pres[d], H, ws[d], f, n)
                                 /\ ~cut[d] => n = Len(H)
    BY <1>1 DEF HookRun, PreRun
  <1>5. CASE stream[d] /\ answer[d] = "resp"
    <2>1. source'[d] = "provider" /\ pc'[d] = "decide"
      BY <1>5 DEF TakeAnswer, Leave, Goto
    <2>2. Reach(d)' = Len(H)
      BY <1>2, <2>1 DEF Reach
    <2>3. ~late[d] => ChunkRun(d)'
      BY <1>1, <1>2, <1>r, <2>1, <2>2 DEF ChunkRun
    <2> QED BY <1>1, <1>5, <2>1, <2>3 DEF HookRun, PreRun, PostRun, MeteredAtEnd
  <1>6. CASE ~(stream[d] /\ answer[d] = "resp")
    <2> DEFINE n == IF stream[d] THEN Len(plugins) ELSE count[d]
               h == RunFrom(n, H)
    <2>1. pc'[d] = "post" /\ hook'[d] = h /\ source' = source
      BY <1>4, <1>6 DEF TakeAnswer, Goto
    <2>2. n \in Nat
      BY DEF BaseInv, TypeOK
    <2>3. ~edited[d] => h = Len(H)
      <3> SUFFICES ASSUME ~edited[d] PROVE h = Len(H)
        OBVIOUS
      <3>1. list[mine[d]] = plugins /\ n = Len(plugins)
        BY <1>0, <1>1, <1>2, FlowAssumption DEF Fresh
      <3>2. CASE skips[d]
        <4>1. H = <<>> /\ Len(H) = 0
          BY <3>2 DEF Hooked
        <4> QED BY <2>2, <4>1 DEF RunFrom
      <3>3. CASE ~skips[d]
        <4>1. H = plugins
          BY <3>1, <3>3 DEF Hooked
        <4> QED BY <3>1, <4>1, <1>3 DEF RunFrom
      <3> QED BY <3>2, <3>3
    <2>4. h \in Nat /\ h <= Len(H)
      BY <1>3, <2>2, RunFromType
    <2> HIDE DEF H, h, n
    <2>5. ASSUME ~late[d] PROVE PostRun(d)'
      <3>1. PICK f, m : Ran(pres[d], H, ws[d], f, m) /\ (~cut[d] => m = Len(H))
        BY <1>r, <2>5
      <3>0. m \in Nat /\ m <= Len(H)
        BY <1>3, <3>1 DEF Ran
      <3>2. PICK t : Undone(pres[d], <<>>, f, t, h, 0) /\ (m <= h => t = Len(pres[d]))
        BY <1>3, <2>4, <3>0, <3>1, UndoStart
      <3>3. ~edited[d] => t = Len(pres[d])
        BY <2>3, <3>0, <3>2
      <3>4. posts[d] = <<>> /\ Len(<<>>) = 0 /\ Len(pres[d]) \in Nat
        BY <1>3, <1>r, <2>5
      <3>5. ASSUME ~edited[d], NEW k \in 1..Len(pres[d]) PROVE k <= t - (Len(posts'[d]) - 0)
        BY <1>1, <3>3, <3>4, <3>5
      <3>6. Meters(d, t, 0)'
        BY <1>1, <3>5 DEF Meters
      <3>7. ~cut[d] => h <= m
        BY <2>4, <3>1
      <3> QED BY <1>1, <1>2, <2>1, <3>1, <3>2, <3>3, <3>4, <3>6, <3>7 DEF PostRun, H
    <2> QED BY <1>1, <2>1, <2>5 DEF HookRun, PreRun, ChunkRun, MeteredAtEnd
  <1> QED BY <1>5, <1>6

\* A post-hook of an answer runs or is passed over: the last pre-hook that has
\* no post-hook yet is undone.
LEMMA HookPost ==
  ASSUME FlowInv, [Next]_vars, NEW d \in Calls, HookRun(d), PostHook(d), pc[d] = "post"
  PROVE  HookRun(d)'
  <1> USE CallDomains DEF FlowInv
  <1>0. InHand(d) /\ InRange(d)
    BY DEF BaseInv, RangeInv
  <1>1. /\ source[d] = "none" /\ source' = source /\ at' = at /\ stream' = stream /\ pc' = pc
        /\ mine' = mine /\ skips' = skips /\ pres' = pres /\ ws' = ws /\ rejected' = rejected
        /\ late' = late /\ edited' = edited /\ cut' = cut
    BY <1>0 DEF PostHook, InHand, Returned, streamVars, ctxVars, listVars
  <1> DEFINE H == Hooked(d)
             h == hook[d]
  <1>2. mine[d] \in Pipelines /\ Hooked(d)' = H
    BY <1>1, HookedStays DEF Holding, Hooked
  <1>3. /\ H \in Seq(Plugins) /\ pres[d] \in Seq(Plugins) /\ posts[d] \in Seq(Plugins)
        /\ Len(posts[d]) \in Nat /\ Len(H) \in Nat
    <2>1. H \in Seq(Plugins) /\ Len(H) \in Nat
      BY <1>2, HookedType
    <2>2. pres[d] \in Seq(Plugins) /\ posts[d] \in Seq(Plugins)
      BY DEF BaseInv, TypeOK
    <2> QED BY <2>1, <2>2
  <1>4. ListOf(d) = H /\ h \in Nat /\ h > 0 /\ h <= Len(H)
    <2>1. ListOf(d) = H
      BY DEF ListOf, Using, Hooked
    <2>2. h \in Nat /\ h > 0
      BY DEF BaseInv, TypeOK, PostHook
    <2> QED BY <1>0, <2>1, <2>2 DEF InRange
  <1>5. hook'[d] = h - 1
    BY <1>3, <1>4 DEF PostHook
  <1> SUFFICES ASSUME ~late[d] PROVE PostRun(d)'
    BY <1>1 DEF HookRun, PreRun, ChunkRun, MeteredAtEnd
  <1>6. PICK f, n, t, e : /\ Ran(pres[d], H, ws[d], f, n)
                          /\ ~cut[d] => h <= n /\ e = 0
                          /\ Undone(pres[d], posts[d], f, t, h, e)
                          /\ ~edited[d] => t = Len(pres[d])
                          /\ Meters(d, t, e)
    BY DEF HookRun, PostRun
  <1>7. /\ n \in Nat /\ h \in 1..Len(H) /\ (~cut[d] => h - 1 <= n) /\ t \in Nat /\ e \in Nat
    <2>1. n \in 0..Len(H) /\ t \in 0..Len(pres[d]) /\ e \in 0..Len(posts[d])
      BY <1>6 DEF Ran, Undone
    <2> QED BY <1>3, <1>4, <1>6, <2>1
  <1>8. CASE ~ShouldRun(H[h], H, ws[d])
    <2>1. posts'[d] = posts[d] /\ metered'[d] = metered[d] /\ val'[d] = val[d] /\ own'[d] = own[d]
      BY <1>3, <1>4, <1>8 DEF PostHook
    <2> HIDE DEF H, h
    <2>2. Undone(pres[d], posts[d], f, t, h - 1, e)
      BY <1>3, <1>6, <1>7, <1>8, UndoSkip
    <2>3. Meters(d, t, e)'
      BY <1>1, <1>6, <2>1 DEF Meters
    <2> QED BY <1>1, <1>2, <1>5, <1>6, <1>7, <2>1, <2>2, <2>3 DEF PostRun
  <1>9. CASE ShouldRun(H[h], H, ws[d])
    <2>1. posts'[d] = Append(posts[d], H[h]) /\ Meter(d, H[h])
      BY <1>3, <1>4, <1>9 DEF PostHook
    <2>v. ~own'[d] \/ (own'[d] = own[d] /\ val'[d] = val[d])
      BY <1>3, <1>4, <1>9 DEF PostHook
    <2>0. H[h] \in Plugins
      BY <1>3, <1>4
    <2> HIDE DEF H, h
    <2>3. Len(posts'[d]) = Len(posts[d]) + 1
      BY <1>3, <2>0, <2>1
    <2>m. metered[d] \in Nat /\ DOMAIN metered = Calls
      BY DEF BaseInv, TypeOK
    <2>4. /\ metered[d] > 0 => metered'[d] > 0
          /\ H[h] = Governance /\ ~rejected[d] /\ ~stream[d] /\ own[d] /\ val[d] = "resp" =>
               metered'[d] > 0
      BY <2>1, <2>m DEF Meter, Chargeable
    <2>5. CASE h <= n
      <3>0. h \in 1..n
        BY <1>7, <2>5
      <3>1. /\ t - (Len(posts[d]) - e) \in 1..Len(pres[d])
            /\ pres[d][t - (Len(posts[d]) - e)] = H[h]
            /\ Undone(pres[d], Append(posts[d], H[h]), f, t, h - 1, e)
        BY <1>3, <1>6, <1>7, <1>9, <3>0, UndoOne
      <3>2. ASSUME NEW k \in 1..Len(pres[d]), pres[d][k] = Governance,
                   ~rejected[d], ~stream[d], own[d], val[d] = "resp",
                   metered[d] > 0 \/ k <= t - (Len(posts[d]) - e)
            PROVE  metered'[d] > 0 \/ k <= t - (Len(posts'[d]) - e)
        <4>1. CASE k = t - (Len(posts[d]) - e)
          BY <2>4, <3>1, <3>2, <4>1
        <4>2. CASE k # t - (Len(posts[d]) - e)
          <5>1. k \in Nat /\ t \in Nat /\ Len(posts[d]) \in Nat /\ e \in Nat
            BY <1>3, <1>7
          <5>2. k <= t - (Len(posts[d]) - e) => k <= t - ((Len(posts[d]) + 1) - e)
            BY <4>2, <5>1
          <5> QED BY <2>3, <2>4, <3>2, <5>2
        <4> QED BY <4>1, <4>2
      <3>3. Meters(d, t, e)'
        BY <1>1, <1>6, <2>v, <3>2 DEF Meters
      <3> QED BY <1>1, <1>2, <1>5, <1>6, <1>7, <2>1, <3>1, <3>3 DEF PostRun
    <2>6. CASE ~(h <= n)
      <3>0. cut[d] /\ h > n
        BY <1>6, <1>7, <2>6
      <3>1. Undone(pres[d], Append(posts[d], H[h]), f, t, h - 1, e + 1)
        BY <1>3, <1>6, <1>7, <3>0, UndoExtra
      <3>2. t - (Len(posts'[d]) - (e + 1)) = t - (Len(posts[d]) - e)
        BY <1>3, <1>7, <2>3
      <3>3. Meters(d, t, e + 1)'
        BY <1>1, <1>6, <2>v, <2>4, <3>2 DEF Meters
      <3> QED BY <1>1, <1>2, <1>5, <1>6, <2>1, <3>0, <3>1, <3>3 DEF PostRun
    <2> QED BY <2>5, <2>6
  <1> QED BY <1>8, <1>9

\* What is known of a stream that is being fed and met no change of the plugins:
\* the list its hooks run over.
LEMMA ChunkKnows ==
  ASSUME FlowInv, NEW d \in Calls, HookRun(d), source[d] # "none", ~edited[d], ~late[d]
  PROVE  /\ Hooked(d) \in Seq(Plugins) /\ Len(Hooked(d)) \in Nat
         /\ mine[d] \in Pipelines /\ list[mine[d]] = plugins
         /\ source[d] = "provider" => list[theirs[d]] = plugins
         /\ pc[d] = "chunk" => ListOf(d) = Hooked(d)
         /\ Reach(d) \in 0..Len(Hooked(d))
         /\ pres[d] \in Seq(Plugins) /\ posts[d] \in Seq(Plugins)
  <1>0. BaseInv /\ InHand(d) /\ Fresh(d)
    BY DEF FlowInv, BaseInv, ListInv
  <1>1. mine[d] \in Pipelines
    BY <1>0 DEF InHand
  <1>2. list[mine[d]] = plugins /\ (source[d] = "provider" => list[theirs[d]] = plugins)
    BY <1>0, <1>1, FlowAssumption DEF Fresh, InHand
  <1>3. Hooked(d) \in Seq(Plugins) /\ Len(Hooked(d)) \in Nat
    BY <1>0, <1>1, HookedType
  <1>4. ListOf(d) = Hooked(d)
    BY <1>2 DEF ListOf, Using, Feeding, Hooked
  <1>5. Reach(d) \in 0..Len(Hooked(d))
    <2>1. PICK f, n : /\ Ran(pres[d], Hooked(d), ws[d], f, n)
                      /\ IF cut[d] THEN source[d] = "provider" ELSE n = Reach(d)
      BY DEF HookRun, ChunkRun
    <2>2. CASE cut[d]
      BY <1>3, <2>1, <2>2 DEF Reach
    <2>3. CASE ~cut[d]
      BY <2>1, <2>3 DEF Ran
    <2> QED BY <2>2, <2>3
  <1> QED BY <1>0, <1>1, <1>2, <1>3, <1>4, <1>5 DEF BaseInv, TypeOK

\* A post-hook of a chunk does the same.
LEMMA HookChunk ==
  ASSUME FlowInv, [Next]_vars, NEW d \in Calls, HookRun(d), PostHook(d), pc[d] = "chunk"
  PROVE  HookRun(d)'
  <1> USE CallDomains DEF FlowInv
  <1>1. /\ source' = source /\ at' = at /\ stream' = stream /\ pc' = pc
        /\ mine' = mine /\ skips' = skips /\ pres' = pres /\ ws' = ws /\ count' = count
        /\ late' = late /\ edited' = edited /\ list' = list
    BY DEF PostHook, streamVars, ctxVars, listVars, poolVars
  <1>c. cut' = cut
    BY DEF PostHook
  <1> SUFFICES ASSUME ~late[d], source[d] # "none", ~edited[d] PROVE ChunkRun(d)'
    BY <1>1 DEF HookRun, PreRun, PostRun, ChunkRun, MeteredAtEnd
  <1> DEFINE H == Hooked(d)
             h == hook[d]
             r == Reach(d)
  <1>2. Hooked(d)' = H /\ Reach(d)' = r
    BY <1>1 DEF Hooked, Reach
  <1>3. /\ H \in Seq(Plugins) /\ Len(H) \in Nat /\ ListOf(d) = H /\ r \in 0..Len(H)
        /\ pres[d] \in Seq(Plugins) /\ posts[d] \in Seq(Plugins)
    BY ChunkKnows
  <1>6. PICK f, n, e : /\ Ran(pres[d], H, ws[d], f, n) /\ h <= r
                       /\ IF cut[d] THEN source[d] = "provider" ELSE n = r
                       /\ ~cut[d] => e = 0
                       /\ Undone(pres[d], posts[d], f, Len(pres[d]), h, e)
    BY DEF HookRun, ChunkRun
  <1>7. h \in Nat /\ r \in Nat /\ h - 1 <= r /\ h \in 1..Len(H) /\ h <= Len(H) /\ n \in Nat
    <2>1. h \in Nat /\ h > 0
      BY DEF BaseInv, TypeOK, PostHook
    <2>2. n \in 0..Len(H)
      BY <1>6 DEF Ran
    <2> HIDE DEF r, h, H
    <2> QED BY <1>3, <1>6, <2>1, <2>2
  <1>5. hook'[d] = h - 1
    BY <1>3, <1>7 DEF PostHook
  <1>8. CASE ~ShouldRun(H[h], H, ws[d])
    <2>1. posts'[d] = posts[d]
      BY <1>3, <1>7, <1>8 DEF PostHook
    <2> HIDE DEF H, h, r
    <2>2. Undone(pres[d], posts[d], f, Len(pres[d]), h - 1, e)
      BY <1>3, <1>6, <1>7, <1>8, UndoSkip
    <2> QED BY <1>1, <1>2, <1>c, <1>5, <1>6, <1>7, <2>1, <2>2 DEF ChunkRun
  <1>9. CASE ShouldRun(H[h], H, ws[d])
    <2>1. posts'[d] = Append(posts[d], H[h])
      BY <1>3, <1>7, <1>9 DEF PostHook
    <2> HIDE DEF H, h, r
    <2>2. CASE h <= n
      <3>1. h \in 1..n
        BY <1>7, <2>2
      <3>2. Undone(pres[d], Append(posts[d], H[h]), f, Len(pres[d]), h - 1, e)
        BY <1>3, <1>6, <1>7, <1>9, <3>1, UndoOne
      <3> QED BY <1>1, <1>2, <1>c, <1>5, <1>6, <1>7, <2>1, <3>2 DEF ChunkRun
    <2>3. CASE ~(h <= n)
      <3>1. cut[d] /\ h > n
        BY <1>6, <1>7, <2>3
      <3>2. Undone(pres[d], Append(posts[d], H[h]), f, Len(pres[d]), h - 1, e + 1)
        BY <1>3, <1>6, <1>7, <3>1, UndoExtra
      <3> QED BY <1>1, <1>2, <1>c, <1>5, <1>6, <1>7, <2>1, <3>1, <3>2 DEF ChunkRun
    <2> QED BY <2>2, <2>3
  <1> QED BY <1>8, <1>9

\* The post-hooks are through: governance's is among them if its pre-hook was.
LEMMA HookDone ==
  ASSUME FlowInv, [Next]_vars, NEW d \in Calls, HookRun(d), PostHooksDone(d) PROVE HookRun(d)'
  <1> USE CallDomains DEF FlowInv
  <1>0. InHand(d)
    BY DEF BaseInv
  <1>1. /\ pc[d] = "post" /\ hook[d] = 0 /\ source[d] = "none" /\ source' = source /\ at' = at
        /\ stream' = stream /\ pc'[d] = "decide" /\ pres' = pres /\ rejected' = rejected
        /\ late' = late /\ edited' = edited /\ metered' = metered /\ own' = own
        /\ val'[d] = val[d]
    BY <1>0 DEF PostHooksDone, Leave, Goto, InHand, Returned, streamVars, ctxVars, listVars,
                hookVars
  <1> SUFFICES ASSUME ~late[d], ~stream[d], own[d], val[d] = "resp", ~edited[d],
                      ~rejected[d], NEW k \in 1..Len(pres[d]), pres[d][k] = Governance
               PROVE  metered[d] > 0
    BY <1>1 DEF HookRun, PreRun, PostRun, ChunkRun, MeteredAtEnd
  <1>3. PICK f, n, t, e : /\ Ran(pres[d], Hooked(d), ws[d], f, n)
                          /\ Undone(pres[d], posts[d], f, t, 0, e)
                          /\ Meters(d, t, e)
    BY <1>1 DEF HookRun, PostRun
  <1>4. pres[d] \in Seq(Plugins) /\ posts[d] \in Seq(Plugins) /\ n \in Nat /\ t \in Nat
    <2>1. mine[d] \in Pipelines /\ pres[d] \in Seq(Plugins) /\ posts[d] \in Seq(Plugins)
      BY <1>0, <1>1 DEF InHand, Holding, BaseInv, TypeOK
    <2>2. Len(Hooked(d)) \in Nat
      BY <2>1, HookedType
    <2>3. n \in 0..Len(Hooked(d)) /\ t \in 0..Len(pres[d])
      BY <1>3 DEF Ran, Undone
    <2> QED BY <2>1, <2>2, <2>3
  <1>5. Len(posts[d]) - e = t
    BY <1>3, <1>4, UndoEnd
  <1>6. metered[d] > 0 \/ k <= t - (Len(posts[d]) - e)
    BY <1>3 DEF Meters
  <1>7. ~(k <= t - t)
    BY <1>4
  <1> QED BY <1>5, <1>6, <1>7

\* The attempt is forgotten, or goes on being fed.
LEMMA HookDecide ==
  ASSUME FlowInv, [Next]_vars, NEW d \in Calls, HookRun(d), Decide(d) PROVE HookRun(d)'
  <1> USE CallDomains DEF FlowInv
  <1>0. InHand(d) /\ pc[d] = "decide" /\ source' = source
    BY DEF BaseInv, Decide, streamVars
  <1>1. CASE source[d] = "none"
    <2>1. pc'[d] \in {"returned", "fallback"}
      BY <1>1 DEF Decide, Return, NextTarget, Goto
    <2> QED BY <1>0, <1>1, <2>1, HookIdle DEF Holding
  <1>2. CASE source[d] # "none"
    <2>1. val[d] = "resp"
      BY <1>0, <1>2 DEF InHand
    <2>2. pc'[d] = "feed"
      BY <1>2, <2>1 DEF Decide, StopsHere, Return, Goto
    <2>3. /\ UNCHANGED <<pres, ws, mine, count, cut, edited, late, list, skips>>
      BY <1>2 DEF Decide, Forget, hookVars, poolVars
    <2>4. ~late[d] => ChunkRun(d)'
      BY <1>0, <1>2, <2>2, <2>3 DEF HookRun, ChunkRun, Reach, Hooked
    <2> QED BY <2>2, <2>3, <2>4 DEF HookRun, PreRun, PostRun, MeteredAtEnd
  <1> QED BY <1>1, <1>2

\* A call that has not begun its attempt, or passes over a target.
LEMMA HookFallback ==
  ASSUME FlowInv, NEW d \in Calls, Begin(d) \/ Fallback(d) PROVE HookRun(d)'
  <1> USE CallDomains DEF FlowInv
  <1>0. InHand(d)
    BY DEF BaseInv
  <1>1. source[d] = "none" /\ source' = source
    BY <1>0 DEF Begin, Fallback, InHand, Returned, streamVars
  <1>2. pc'[d] \in {"try", "returned", "fallback"}
    BY <1>1 DEF Begin, Fallback, NextTarget, Return, Goto
  <1> QED BY <1>1, <1>2, HookIdle DEF Holding

\* The post-hooks of a chunk begin where the pre-hooks ended.
LEMMA HookBeginChunk ==
  ASSUME FlowInv, NEW d \in Calls, HookRun(d), BeginChunk(d) PROVE HookRun(d)'
  <1> USE CallDomains DEF FlowInv
  <1>0. InHand(d) /\ pc[d] = "feed"
    BY DEF BaseInv, BeginChunk
  <1>1. /\ pc'[d] = "chunk" /\ posts'[d] = <<>>
        /\ UNCHANGED <<pres, ws, mine, count, cut, edited, late, list, skips, source>>
    BY DEF BeginChunk, Goto, listVars, poolVars, ctxVars
  <1> SUFFICES ASSUME ~late[d], source[d] # "none", ~edited[d] PROVE ChunkRun(d)'
    BY <1>1 DEF HookRun, PreRun, PostRun, ChunkRun, MeteredAtEnd
  <1> DEFINE H == Hooked(d)
             r == Reach(d)
  <1>2. Hooked(d)' = H /\ Reach(d)' = r
    BY <1>1 DEF Hooked, Reach
  <1>3. /\ H \in Seq(Plugins) /\ Len(H) \in Nat /\ list[mine[d]] = plugins
        /\ source[d] = "provider" => list[theirs[d]] = plugins
        /\ r \in 0..Len(H) /\ pres[d] \in Seq(Plugins)
    BY ChunkKnows
  <1>4. hook'[d] = r
    <2>1. CASE skips[d]
      <3>1. H = <<>> /\ Len(H) = 0
        BY <2>1 DEF Hooked
      <3>2. hook'[d] = 0
        BY <2>1 DEF BeginChunk, Feeding
      <3> QED BY <1>3, <3>1, <3>2
    <2>2. CASE ~skips[d] /\ source[d] = "provider"
      <3>1. H = plugins /\ r = Len(plugins)
        BY <1>3, <2>2 DEF Hooked, Reach
      <3>2. hook'[d] = RunFrom(Len(plugins), plugins)
        BY <1>3, <2>2 DEF BeginChunk, Feeding
      <3> QED BY <1>3, <3>1, <3>2 DEF RunFrom
    <2>3. CASE ~skips[d] /\ source[d] # "provider"
      <3>1. H = plugins /\ r = count[d]
        BY <1>3, <2>3 DEF Hooked, Reach
      <3>2. hook'[d] = RunFrom(count[d], plugins)
        BY <1>3, <2>3 DEF BeginChunk, Feeding
      <3> QED BY <1>3, <3>1, <3>2 DEF RunFrom
    <2> QED BY <2>1, <2>2, <2>3
  <1>5. PICK f, n : /\ Ran(pres[d], H, ws[d], f, n)
                    /\ IF cut[d] THEN source[d] = "provider" ELSE n = r
    BY DEF HookRun, ChunkRun
  <1>6. n \in Nat /\ r \in Nat /\ n <= r
    <2>1. n \in 0..Len(H) /\ (cut[d] => r = Len(H))
      BY <1>5 DEF Ran, Reach
    <2> HIDE DEF H, r
    <2> QED BY <1>3, <1>5, <2>1
  <1> HIDE DEF H, r
  <1>7. PICK t : Undone(pres[d], <<>>, f, t, r, 0) /\ (n <= r => t = Len(pres[d]))
    BY <1>3, <1>5, <1>6, UndoStart
  <1> QED BY <1>1, <1>2, <1>4, <1>5, <1>6, <1>7 DEF ChunkRun

\* A chunk is through, or the stream ends.
LEMMA HookEndChunk ==
  ASSUME FlowInv, NEW d \in Calls, HookRun(d), EndChunk(d) \/ EndStream(d) PROVE HookRun(d)'
  <1> USE CallDomains DEF FlowInv
  <1>1. pc'[d] \in {"feed", "returned"}
    BY DEF EndChunk, EndStream, Goto
  <1>2. UNCHANGED <<pres, ws, mine, count, cut, edited, late, list, skips, source>>
    BY DEF EndChunk, EndStream, hookVars, streamVars, listVars, poolVars, ctxVars,
           ReleasePluginPipeline
  <1>3. ~late[d] => ChunkRun(d)'
    BY <1>1, <1>2 DEF HookRun, ChunkRun, Reach, Hooked
  <1> QED BY <1>1, <1>2, <1>3 DEF HookRun, PreRun, PostRun, MeteredAtEnd

-----------------------------------------------------------------------------
(* Which hooks ran: the theorems.                                          *)

\* No hook has run after Init.
LEMMA HookInit == Init => HookInv
  <1> SUFFICES ASSUME Init, NEW c \in Calls PROVE HookRun(c)
    BY DEF HookInv
  <1>1. pc[c] = "new" /\ source[c] = "none"
    BY DEF Init
  <1> QED BY <1>1 DEF HookRun, PreRun, PostRun, ChunkRun, MeteredAtEnd

\* The call that takes the step.
LEMMA HookOwn ==
  ASSUME FlowInv, [Next]_vars, NEW d \in Calls, HookRun(d), CallStep(d) PROVE HookRun(d)'
  <1>1. CASE Worker(d) \/ CancelContext(d)
    <2>1. UNCHANGED <<callVars, hookVars, streamVars, ws, rejected, late, edited, metered>>
      BY <1>1 DEF Worker, Receive, CallProvider, CancelContext, ctxVars, listVars
    <2>2. HookSame(d)
      BY <2>1 DEF HookSame, callVars, hookVars, streamVars
    <2> QED BY <2>2, HookElse
  <1>2. CASE PostHook(d)
    BY <1>2, HookPost, HookChunk DEF PostHook
  <1> QED
    BY <1>1, <1>2, HookTry, HookPre, HookShortCircuit, HookSubmit, HookCancelled, HookAnswer,
       HookDone, HookDecide, HookFallback, HookBeginChunk, HookEndChunk
       DEF CallStep, Caller, Attempting, Feeder

\* Every step keeps what is known of the hooks.
LEMMA HookStep == FlowInv /\ HookInv /\ [Next]_vars => HookInv'
  <1> SUFFICES ASSUME FlowInv, HookInv, [Next]_vars, NEW c \in Calls PROVE HookRun(c)'
    BY DEF HookInv
  <1>0. BaseInv /\ HookRun(c) /\ at[c] \in Targets(c) /\ edited \in [Calls -> BOOLEAN]
    BY DEF FlowInv, HookInv, BaseInv, TypeOK
  <1>1. CASE CallStep(c)
    BY <1>0, <1>1, HookOwn
  <1>2. ASSUME NEW d \in Calls, d # c, CallStep(d) PROVE HookRun(c)'
    <2>1. Same(c) /\ edited'[c] = edited[c]
      BY <1>0, <1>2, OthersStay DEF OnlyCall
    <2>2. HookSame(c)
      BY <1>0, <2>1 DEF Same, HookSame
    <2> QED BY <1>0, <2>2, HookElse
  <1>3. ASSUME Edit \/ OtherRequest \/ UNCHANGED vars PROVE HookRun(c)'
    <2>1. UNCHANGED <<callVars, hookVars, streamVars, ctxVars, tryVars, metered>>
      BY <1>0, <1>3, OtherSteps DEF vars
    <2>2. edited[c] => edited'[c]
      <3>1. CASE Edit
        <4>1. edited' = [e \in Calls |-> mine[e] # None]
          BY <3>1 DEF Edit, RemovePlugin, ReloadPlugin, ReorderPlugins, StorePlugins
        <4>2. edited[c] => mine[c] # None
          BY DEF FlowInv, ListInv, Fresh
        <4> QED BY <4>1, <4>2
      <3>2. CASE OtherRequest \/ UNCHANGED vars
        BY <3>2 DEF OtherRequest, vars, listVars
      <3> QED BY <1>3, <3>1, <3>2
    <2>3. HookSame(c)
      BY <2>1, <2>2 DEF HookSame, callVars, hookVars, streamVars, ctxVars, tryVars
    <2> QED BY <1>0, <2>3, HookElse
  <1> QED BY <1>1, <1>2, <1>3 DEF Next, CallStep

\* In every reachable state the post-hooks undo the pre-hooks.
LEMMA HookCorrect == Spec => [](FlowInv /\ HookInv)
  <1>1. Init => FlowInv /\ HookInv
    BY BaseInit, TargetInit, MarkInit, PoolInit, RangeInit, ListInit, HookInit DEF FlowInv
  <1>2. FlowInv /\ HookInv /\ [Next]_vars => (FlowInv /\ HookInv)'
    <2> SUFFICES ASSUME FlowInv, HookInv, [Next]_vars PROVE FlowInv' /\ HookInv'
      OBVIOUS
    <2>1. BaseInv' /\ TargetInv' /\ MarkInv' /\ PoolInv' /\ RangeInv' /\ ListInv'
      BY BaseStep, TargetStep, MarkStep, PoolStep, RangeStep, ListStep DEF FlowInv
    <2> QED BY <2>1, HookStep DEF FlowInv
  <1> QED BY <1>1, <1>2, PTL DEF Spec

\* Every pre-hook that ran has its post-hook run, in reverse order, for an answer
\* as for each chunk of a stream, however many plugins there are, unless the
\* plugins changed meanwhile or a late stamp changed who is to run; the only other
\* post-hooks are those that follow a short circuit without content.
THEOREM PreHooksArePaired == Spec => []HooksPaired
  <1>0. \A x \in Nat : x = 0 \/ x > 0
    OBVIOUS
  <1>1. FlowInv /\ HookInv => HooksPaired
    <2> SUFFICES ASSUME FlowInv, HookInv, NEW c \in Calls, pc[c] \in {"post", "chunk"},
                        hook[c] = 0, ~edited[c], ~late[c],
                        NEW more, more = Len(posts[c]) - Len(pres[c])
                 PROVE  /\ more = 0 \/ (cut[c] /\ more > 0)
                        /\ \A i \in 1..Len(pres[c]) :
                             posts[c][more + i] = pres[c][Len(pres[c]) + 1 - i]
      BY DEF HooksPaired
    <2>0. HookRun(c) /\ InHand(c) /\ BaseInv
      BY DEF HookInv, FlowInv, BaseInv
    <2>1. PICK f, n, e : /\ Ran(pres[c], Hooked(c), ws[c], f, n)
                         /\ ~cut[c] => e = 0
                         /\ Undone(pres[c], posts[c], f, Len(pres[c]), 0, e)
      <3>1. CASE pc[c] = "post"
        BY <2>0, <3>1 DEF HookRun, PostRun
      <3>2. CASE pc[c] = "chunk"
        BY <2>0, <3>2 DEF HookRun, ChunkRun, InHand
      <3> QED BY <3>1, <3>2
    <2>2. mine[c] \in Pipelines /\ pres[c] \in Seq(Plugins) /\ posts[c] \in Seq(Plugins)
      BY <2>0 DEF InHand, Holding, BaseInv, TypeOK
    <2>3. n \in Nat
      <3>1. Len(Hooked(c)) \in Nat
        BY <2>0, <2>2, HookedType
      <3> QED BY <2>1, <3>1 DEF Ran
    <2>4. Len(posts[c]) - e = Len(pres[c])
      BY <2>1, <2>2, <2>3, UndoEnd
    <2>5. e = more /\ e \in Nat
      <3>1. e \in 0..Len(posts[c]) /\ Len(posts[c]) \in Nat /\ Len(pres[c]) \in Nat
        BY <2>1, <2>2 DEF Undone
      <3> QED BY <2>4, <3>1
    <2>6. more = 0 \/ (cut[c] /\ more > 0)
      <3>1. CASE ~cut[c]
        BY <2>1, <2>5, <3>1
      <3>2. CASE cut[c]
        <4>1. e = 0 \/ e > 0
          BY <1>0, <2>5, Zenon
        <4> QED BY <2>5, <3>2, <4>1
      <3> QED BY <3>1, <3>2
    <2>7. \A i \in 1..Len(pres[c]) : posts[c][more + i] = pres[c][Len(pres[c]) + 1 - i]
      BY <2>1, <2>4, <2>5 DEF Undone
    <2> QED BY <2>6, <2>7
  <1> QED BY <1>1, HookCorrect, PTL

\* Governance charges every response of a provider that reaches the client as the
\* provider's, of a request it admitted, unless plugins changed meanwhile or an
\* earlier refusal marked the context.
THEOREM AnswersAreAccountedFor == Spec => []AnswersAreMetered
  <1>1. HookInv => AnswersAreMetered
    BY DEF HookInv, HookRun, MeteredAtEnd, AnswersAreMetered
  <1> QED BY <1>1, HookCorrect, PTL

-----------------------------------------------------------------------------
(* How often governance charges an attempt.                                *)

\* A charge is one of a post-hook of governance that ran.
Once(c) ==
  /\ metered[c] <= 1
  /\ metered[c] > 0 => \E i \in 1..Len(posts[c]) : posts[c][i] = Governance

\* The post-hooks that ran are beyond the next one, and one of them at most charged.
Charging(c) == Above(posts[c], ListOf(c), hook[c]) /\ Once(c)

\* A stream of the provider whose mark is its own.
Clean(c) == source[c] = "provider" /\ ~AnsweredBefore(c)

\* What is known of the charges of a call.
Charged(c) ==
  /\ source[c] = "none" => metered[c] <= 1
  /\ pc[c] \in {"pre", "submit", "wait"} => posts[c] = <<>> /\ metered[c] = 0
  /\ pc[c] = "decide" /\ source[c] # "none" => metered[c] = 0
  /\ pc[c] = "post" => Charging(c)
  /\ Clean(c) => /\ metered[c] <= 1
                 /\ mark[c] = "none" => metered[c] = 0
                 /\ pc[c] = "chunk" => Charging(c)

ChargeInv == \A c \in Calls : Charged(c)

\* Nothing is charged after Init.
LEMMA ChargeInit == Init => ChargeInv
  BY DEF Init, ChargeInv, Charged, Clean

\* The list the post-hooks of a call run over does not change while they run, and
\* lists no plugin twice.
LEMMA ChargingList ==
  ASSUME FlowInv, [Next]_vars, NEW c \in Calls, pc[c] = "post" \/ (pc[c] = "chunk" /\ Clean(c)),
         pc'[c] = pc[c], skips'[c] = skips[c], mine'[c] = mine[c], theirs'[c] = theirs[c],
         source'[c] = source[c]
  PROVE  /\ ListOf(c)' = ListOf(c) /\ ListOf(c) \in Seq(Plugins) /\ ListedOnce(ListOf(c))
         /\ hook[c] \in 0..Len(ListOf(c))
  <1>0. /\ BaseInv /\ PoolInv /\ ListInv /\ InHand(c) /\ Marked(c) /\ InRange(c)
        /\ hook[c] \in Nat
    BY DEF FlowInv, BaseInv, MarkInv, RangeInv, TypeOK
  <1>1. pc[c] = "chunk" => ~freed[c]
    BY <1>0 DEF Marked, Clean
  <1>2. ListOf(c) \in Seq(Plugins) /\ Len(ListOf(c)) \in Nat
    BY <1>0, ListOfType
  <1>3. hook[c] <= Len(ListOf(c))
    BY <1>0, <1>1 DEF InRange, Clean
  <1>4. CASE pc[c] = "post"
    <2>1. HoldsMine(c) /\ mine[c] \in Pipelines
      BY <1>0, <1>4 DEF HoldsMine, Holding, InHand
    <2>2. list'[mine[c]] = list[mine[c]]
      BY <1>0, <2>1, InUseStays
    <2>3. ListOf(c)' = ListOf(c) /\ ListedOnce(ListOf(c))
      BY <1>0, <1>4, <2>1, <2>2 DEF ListOf, Using, ListInv, ListedOnce
    <2> QED BY <1>0, <1>2, <1>3, <2>3
  <1>5. CASE pc[c] = "chunk"
    <2>1. source[c] = "provider" /\ HoldsTheirs(c) /\ theirs[c] \in Pipelines
      BY <1>0, <1>1, <1>5, FlowAssumption DEF HoldsTheirs, Clean, InHand
    <2>2. list'[theirs[c]] = list[theirs[c]]
      BY <1>0, <2>1, InUseStays
    <2>3. ListOf(c)' = ListOf(c) /\ ListedOnce(ListOf(c))
      BY <1>0, <1>5, <2>1, <2>2 DEF ListOf, Using, Feeding, ListInv, ListedOnce
    <2> QED BY <1>0, <1>2, <1>3, <2>3
  <1> QED BY <1>4, <1>5

\* A step that leaves what Charged(c) is about alone.
LEMMA ChargeElse ==
  ASSUME FlowInv, [Next]_vars, NEW c \in Calls, Charged(c),
         pc'[c] = pc[c], skips'[c] = skips[c], mine'[c] = mine[c], source'[c] = source[c],
         pc[c] \in {"post", "chunk"} => theirs'[c] = theirs[c], hook'[c] = hook[c],
         posts'[c] = posts[c], metered'[c] = metered[c], mark'[c] = mark[c],
         AnsweredBefore(c) => AnsweredBefore(c)'
  PROVE  Charged(c)'
  <1>1. Clean(c)' => Clean(c)
    BY DEF Clean
  <1> HIDE DEF AnsweredBefore
  <1>2. pc[c] = "post" \/ (pc[c] = "chunk" /\ Clean(c)) => ListOf(c)' = ListOf(c)
    BY ChargingList
  <1>3. pc[c] = "post" \/ (pc[c] = "chunk" /\ Clean(c)) => (Charging(c) => Charging(c)')
    BY <1>2 DEF Charging, Once
  <1> HIDE DEF Clean, Charging
  <1> QED BY <1>1, <1>3 DEF Charged

\* A post-hook charges once.
LEMMA ChargePost ==
  ASSUME FlowInv, [Next]_vars, NEW d \in Calls, Charged(d), PostHook(d) PROVE Charged(d)'
  <1> USE CallDomains DEF FlowInv
  <1>1. /\ UNCHANGED <<source, at, stream, pc, mine, theirs, skips, mark, outcome>>
        /\ pc[d] \in {"post", "chunk"} /\ hook[d] > 0
    BY DEF PostHook, streamVars, workVars, ctxVars, tryVars
  <1>2. Clean(d)' <=> Clean(d)
    BY <1>1 DEF Clean, AnsweredBefore
  <1>t. /\ metered[d] \in Nat /\ DOMAIN metered = Calls /\ posts[d] \in Seq(Plugins)
        /\ InHand(d)
    BY DEF BaseInv, TypeOK
  <1>3. pc[d] = "post" => source[d] = "none"
    BY <1>t DEF InHand, Returned
  <1>4. pc[d] # "post" /\ ~Clean(d) => Charged(d)'
    BY <1>1, <1>2, <1>t DEF Charged, InHand
  <1> HIDE DEF Clean
  <1> SUFFICES ASSUME pc[d] = "post" \/ (pc[d] = "chunk" /\ Clean(d)) PROVE Charged(d)'
    BY <1>1, <1>4
  <1> DEFINE L == ListOf(d)
             h == hook[d]
  <1>5. /\ ListOf(d)' = L /\ L \in Seq(Plugins) /\ ListedOnce(L) /\ h \in 0..Len(L)
    BY <1>1, ChargingList
  <1>6. Len(L) \in Nat /\ h \in 1..Len(L) /\ L[h] \in Plugins /\ h <= Len(L)
    BY <1>1, <1>5
  <1>7. Charging(d)
    BY DEF Charged
  <1>8. hook'[d] = h - 1
    BY <1>6 DEF PostHook
  <1>9. Above(posts[d], L, h - 1) /\ Above(Append(posts[d], L[h]), L, h - 1)
    <2>1. Above(posts[d], L, h)
      BY <1>7 DEF Charging
    <2> HIDE DEF L, h
    <2> QED BY <1>5, <1>6, <1>t, <2>1, AboveNext
  <1>10. \A i \in 1..Len(posts[d]) : posts[d][i] # L[h]
    <2>1. Above(posts[d], L, h) /\ h > 0
      BY <1>1, <1>7 DEF Charging
    <2> HIDE DEF L, h
    <2> QED BY <1>5, <1>t, <2>1, AboveOnce
  <1>11. CASE ~ShouldRun(L[h], L, ws[d])
    <2>1. posts'[d] = posts[d] /\ metered'[d] = metered[d]
      BY <1>6, <1>11 DEF PostHook
    <2>2. Charging(d)'
      BY <1>5, <1>7, <1>8, <1>9, <2>1 DEF Charging, Once
    <2> HIDE DEF Charging
    <2> QED BY <1>1, <1>2, <2>1, <2>2 DEF Charged
  <1>12. CASE ShouldRun(L[h], L, ws[d])
    <2>1. posts'[d] = Append(posts[d], L[h]) /\ Meter(d, L[h])
      BY <1>6, <1>12 DEF PostHook
    <2>2. \/ metered'[d] = metered[d]
          \/ metered'[d] = metered[d] + 1 /\ L[h] = Governance /\ (stream[d] => mark[d] # "none")
      BY <1>t, <2>1 DEF Meter, Chargeable
    <2> HIDE DEF L, h
    <2>3. /\ Len(posts'[d]) = Len(posts[d]) + 1 /\ posts'[d][Len(posts[d]) + 1] = L[h]
          /\ \A i \in 1..Len(posts[d]) : posts'[d][i] = posts[d][i]
          /\ Len(posts[d]) \in Nat
      BY <1>6, <1>t, <2>1
    <2>4. L[h] = Governance => metered[d] = 0
      BY <1>7, <1>10, <1>t DEF Charging, Once
    <2>5. Once(d)'
      <3>1. CASE metered'[d] = metered[d]
        <4>1. \A i \in 1..Len(posts[d]) : i \in 1..Len(posts'[d])
          BY <2>3
        <4> QED BY <1>7, <2>3, <3>1, <4>1 DEF Charging, Once
      <3>2. CASE metered'[d] = metered[d] + 1 /\ L[h] = Governance
        <4>1. metered'[d] = 1 /\ Len(posts[d]) + 1 \in 1..Len(posts'[d])
          BY <2>3, <2>4, <3>2
        <4> QED BY <2>3, <3>2, <4>1 DEF Once
      <3> QED BY <2>2, <3>1, <3>2
    <2>6. Charging(d)'
      BY <1>5, <1>8, <1>9, <2>1, <2>5 DEF Charging
    <2>7. Clean(d) => stream[d]
      BY <1>t DEF Clean, InHand
    <2>8. Clean(d) /\ mark[d] = "none" => metered'[d] = 0
      BY <2>2, <2>7 DEF Charged
    <2>9. metered'[d] <= 1
      BY <2>5 DEF Once
    <2> HIDE DEF Charging
    <2> QED BY <1>1, <1>2, <2>6, <2>8, <2>9 DEF Charged
  <1> QED BY <1>11, <1>12

\* The other steps of the call.
LEMMA ChargeOwn ==
  ASSUME FlowInv, [Next]_vars, NEW d \in Calls, Charged(d), CallStep(d) PROVE Charged(d)'
  <1> USE DEF callVars, hookVars, workVars, streamVars, listVars, ctxVars, tryVars
  <1>h. BaseInv /\ InHand(d) /\ InService(d) /\ Fresh(d) /\ Marked(d)
    BY DEF FlowInv, BaseInv, ListInv, MarkInv
  <1>d. /\ DOMAIN pc = Calls /\ DOMAIN source = Calls /\ DOMAIN metered = Calls
        /\ DOMAIN posts = Calls /\ DOMAIN mark = Calls
    BY <1>h, CallDomains
  <1> USE <1>d
  <1>a. AnsweredBefore(d) => AnsweredBefore(d)'
    BY <1>h, AnsweredStays
  <1> HIDE DEF AnsweredBefore, FlowInv
  <1> DEFINE Idle == /\ source'[d] = "none" /\ metered'[d] <= 1
                     /\ pc'[d] \notin {"pre", "submit", "wait", "post"}
             Asks == /\ source'[d] = "none" /\ metered'[d] = 0 /\ posts'[d] = <<>>
                     /\ pc'[d] \in {"pre", "submit", "wait"}
             Feeds == /\ source[d] # "none" /\ UNCHANGED <<source, mark, metered>>
                      /\ pc'[d] \in {"feed", "returned"}
  <1>i. Idle => Charged(d)'
    BY DEF Charged, Clean
  <1>k. Asks => Charged(d)'
    BY DEF Charged, Clean
  <1>f. Feeds => Charged(d)'
    BY <1>a DEF Charged, Clean
  <1>n. /\ pc[d] \in {"new", "try", "fallback", "pre", "submit", "wait", "post"} =>
             source[d] = "none"
        /\ pc[d] \in {"new", "try", "fallback"} => metered[d] = 0 /\ posts[d] = <<>>
        /\ pc[d] \in {"pre", "submit", "wait"} => metered[d] = 0 /\ posts[d] = <<>>
        /\ source[d] = "none" => metered[d] <= 1
    BY <1>h DEF InHand, Returned, Fresh, Charged
  <1>1. Begin(d) => Idle
    BY <1>n DEF Begin, Goto
  <1>2. TryProvider(d) => Idle \/ Asks
    BY <1>n DEF TryProvider, Goto
  <1>3. CASE PreHook(d)
    <2>1. /\ pc[d] = "pre" /\ UNCHANGED <<source, metered, posts>>
          /\ hook'[d] \in Nat
      <3>1. BaseInv'
        BY <1>h, BaseStep
      <3>2. hook'[d] \in Nat
        BY <3>1 DEF BaseInv, TypeOK
      <3> QED BY <1>3, <3>2 DEF PreHook
    <2>2. pc'[d] = "pre" \/ pc'[d] = "post"
      BY <1>3, <2>1 DEF PreHook, PreHookOutcome, Goto
    <2>3. CASE pc'[d] = "pre"
      BY <1>k, <1>n, <2>1, <2>3
    <2>4. CASE pc'[d] = "post"
      <3>1. BaseInv'
        BY <1>h, BaseStep
      <3>2. ListOf(d)' \in Seq(Plugins)
        <4>1. mine'[d] \in Pipelines /\ list' \in [Pipelines -> Seq(Plugins)]
          BY <2>4, <3>1 DEF BaseInv, InHand, Holding, TypeOK
        <4> QED BY <2>4, <4>1 DEF ListOf, Using
      <3>3. Above(<<>>, ListOf(d)', hook'[d])
        BY <3>2, AboveNothing
      <3>4. posts'[d] = <<>> /\ metered'[d] = 0 /\ source'[d] = "none"
        BY <1>n, <2>1
      <3>5. Charging(d)'
        BY <3>3, <3>4 DEF Charging, Once
      <3> HIDE DEF Charging
      <3> QED BY <2>4, <3>4, <3>5 DEF Charged, Clean
    <2> QED BY <2>2, <2>3, <2>4
  <1>4. CASE StreamShortCircuit(d)
    <2>1. /\ pc'[d] = "decide" /\ source'[d] = "cached" /\ metered'[d] = 0
      BY <1>4, <1>n DEF StreamShortCircuit, Leave, Goto
    <2> QED BY <2>1 DEF Charged, Clean
  <1>5. PreHooksDone(d) => Idle \/ Asks
    BY <1>n DEF PreHooksDone, Leave, Goto
  <1>6. Submit(d) => Idle \/ Asks
    BY <1>n DEF Submit, Leave, Goto
  <1>7. CASE TakeAnswer(d)
    <2>1. /\ pc[d] = "wait" /\ metered'[d] = 0 /\ posts'[d] = <<>>
      BY <1>7, <1>n DEF TakeAnswer
    <2>2. \/ pc'[d] = "decide" /\ source'[d] = "provider"
          \/ pc'[d] = "post" /\ source'[d] = "none"
      BY <1>7, <1>n, <2>1 DEF TakeAnswer, Leave, Goto
    <2>3. CASE pc'[d] = "decide"
      BY <2>1, <2>2, <2>3 DEF Charged, Clean
    <2>4. CASE pc'[d] = "post"
      <3>1. BaseInv'
        BY <1>h, BaseStep
      <3>2. ListOf(d)' \in Seq(Plugins)
        <4>1. mine'[d] \in Pipelines /\ list' \in [Pipelines -> Seq(Plugins)]
          BY <2>4, <3>1 DEF BaseInv, InHand, Holding, TypeOK
        <4> QED BY <2>4, <4>1 DEF ListOf, Using
      <3>3. Above(<<>>, ListOf(d)', hook'[d])
        BY <3>2, AboveNothing
      <3>5. Charging(d)'
        BY <2>1, <3>3 DEF Charging, Once
      <3> HIDE DEF Charging
      <3> QED BY <2>1, <2>2, <2>4, <3>5 DEF Charged, Clean
    <2> QED BY <2>2, <2>3, <2>4
  <1>8. WaitCancelled(d) => Idle
    BY <1>n DEF WaitCancelled, Leave, Goto
  <1>9. CASE PostHook(d)
    BY <1>9, ChargePost
  <1>10. PostHooksDone(d) => Idle
    BY <1>n DEF PostHooksDone, Leave, Goto
  <1>11. CASE Decide(d)
    <2>1. CASE source[d] = "none"
      <3>1. Idle
        BY <1>11, <2>1 DEF Decide, Forget, NextTarget, Return, Goto
      <3> QED BY <1>i, <3>1
    <2>2. CASE source[d] # "none"
      <3>1. StopsHere(val[d])
        BY <1>11, <1>h, <2>2 DEF Decide, InHand, StopsHere
      <3>2. Feeds
        BY <1>11, <2>2, <3>1 DEF Decide, Forget, Return, Goto
      <3> QED BY <1>f, <3>2
    <2> QED BY <2>1, <2>2
  <1>12. Fallback(d) => Idle
    BY <1>n DEF Fallback, NextTarget, Return, Goto
  <1>13. CASE Worker(d) \/ CancelContext(d)
    <2>1. /\ UNCHANGED <<pc, skips, mine, source, hook, posts, metered, mark>>
          /\ theirs'[d] = theirs[d] \/ wk[d] # "none"
      BY <1>13 DEF Worker, Receive, CallProvider, CancelContext
    <2>2. wk[d] # "none" => pc[d] \notin {"post", "chunk"}
      BY <1>h DEF InService
    <2> QED BY <1>a, <2>1, <2>2, ChargeElse
  <1>14. CASE BeginChunk(d)
    <2>1. /\ pc[d] = "feed" /\ pc'[d] = "chunk" /\ posts'[d] = <<>> /\ source[d] # "none"
          /\ UNCHANGED <<source, metered>> /\ mark[d] # "last"
          /\ (mark'[d] = mark[d] \/ mark'[d] = "last")
      BY <1>14, <1>h DEF BeginChunk, Goto, InHand
    <2>2. Clean(d)' => Clean(d) /\ mark[d] = "none"
      <3>1. mark[d] \in {"none", "stale"}
        BY <1>h, <2>1 DEF BaseInv, TypeOK, Marks
      <3> QED BY <1>a, <1>h, <2>1, <3>1 DEF Clean, Marked
    <2>3. Clean(d)' => metered'[d] = 0
      BY <2>1, <2>2 DEF Charged
    <2>4. Clean(d)' => Charging(d)'
      <3>1. BaseInv'
        BY <1>h, BaseStep
      <3>2. Clean(d)' => ListOf(d)' \in Seq(Plugins)
        <4>1. Clean(d)' => theirs'[d] \in Pipelines /\ source'[d] = "provider"
          BY <3>1 DEF BaseInv, InHand, Clean
        <4>2. list' \in [Pipelines -> Seq(Plugins)]
          BY <3>1 DEF BaseInv, TypeOK
        <4> QED BY <2>1, <4>1, <4>2 DEF ListOf, Using, Feeding
      <3>3. Clean(d)' => Above(<<>>, ListOf(d)', hook'[d])
        BY <3>2, AboveNothing
      <3> QED BY <2>1, <2>3, <3>3 DEF Charging, Once
    <2> HIDE DEF Charging, Clean
    <2> QED BY <2>1, <2>3, <2>4 DEF Charged
  <1>15. EndChunk(d) => Feeds
    BY <1>h DEF EndChunk, Goto, InHand
  <1>16. EndStream(d) => Feeds
    BY <1>h DEF EndStream, Goto, InHand
  <1> QED
    BY <1>i, <1>k, <1>f, <1>1, <1>2, <1>3, <1>4, <1>5, <1>6, <1>7, <1>8, <1>9, <1>10, <1>11,
       <1>12, <1>13, <1>14, <1>15, <1>16
       DEF CallStep, Caller, Attempting, Feeder

\* Every step keeps count of the charges.
LEMMA ChargeStep == FlowInv /\ ChargeInv /\ [Next]_vars => ChargeInv'
  <1> SUFFICES ASSUME FlowInv, ChargeInv, [Next]_vars, NEW c \in Calls PROVE Charged(c)'
    BY DEF ChargeInv
  <1>0. Charged(c) /\ BaseInv
    BY DEF ChargeInv, FlowInv
  <1>1. CASE CallStep(c)
    BY <1>0, <1>1, ChargeOwn
  <1>2. ASSUME Same(c) PROVE Charged(c)'
    <2>1. AnsweredBefore(c) => AnsweredBefore(c)'
      BY <1>2 DEF Same, AnsweredBefore
    <2> QED BY <1>0, <1>2, <2>1, ChargeElse DEF Same
  <1>3. ASSUME NEW d \in Calls, d # c, CallStep(d) PROVE Same(c)
    BY <1>0, <1>3, OthersStay DEF OnlyCall
  <1>4. ASSUME Edit \/ OtherRequest \/ UNCHANGED vars PROVE Same(c)
    <2>1. UNCHANGED <<callVars, hookVars, workVars, streamVars, ctxVars, tryVars, metered>>
      BY <1>0, <1>4, OtherSteps DEF vars
    <2> QED BY <2>1 DEF Same, callVars, hookVars, workVars, streamVars, ctxVars, tryVars
  <1> QED BY <1>1, <1>2, <1>3, <1>4 DEF Next, CallStep

\* In every reachable state the charges are counted.
LEMMA ChargeCorrect == Spec => [](FlowInv /\ HookInv /\ ChargeInv)
  BY HookCorrect, ChargeInit, ChargeStep, PTL DEF Spec

\* Governance charges an attempt at most once, also when plugins are removed,
\* reloaded or reordered meanwhile, except the streams that are fed on a pipeline
\* which is back in the pool or after a failed attempt.
THEOREM AttemptsAreChargedOnce == Spec => []ChargedOnce
  <1>1. FlowInv /\ ChargeInv => ChargedOnce
    <2> SUFFICES ASSUME FlowInv, ChargeInv, NEW c \in Calls, metered[c] > 1,
                        source[c] # "cached", ~AnsweredBefore(c)
                 PROVE  FALSE
      BY DEF ChargedOnce
    <2>1. metered[c] \in Nat /\ source[c] \in {"none", "provider"} /\ Charged(c)
      BY DEF FlowInv, BaseInv, TypeOK, ChargeInv
    <2>2. metered[c] <= 1
      BY <2>1 DEF Charged, Clean
    <2> QED BY <2>1, <2>2
  <1> QED BY <1>1, ChargeCorrect, PTL

\* tryRequest runs a post-hook at most once, also when plugins are removed,
\* reloaded or reordered while it waits, and only of a plugin whose pre-hook ran,
\* unless a short circuit without content stopped the pre-hooks.
THEOREM PostHooksHaveTheirPreHook == Spec => []PostHookNeedsPreHook
  <1>1. FlowInv /\ HookInv /\ ChargeInv => PostHookNeedsPreHook
    <2> SUFFICES ASSUME FlowInv, HookInv, ChargeInv, NEW c \in Calls, pc[c] = "post", ~late[c],
                        NEW i \in 1..Len(posts[c])
                 PROVE  /\ cut[c] \/ \E k \in 1..Len(pres[c]) : pres[c][k] = posts[c][i]
                        /\ \A j \in 1..Len(posts[c]) : posts[c][j] = posts[c][i] => j = i
      BY DEF PostHookNeedsPreHook
    <2>0. /\ HookRun(c) /\ InHand(c) /\ BaseInv /\ ListInv /\ InRange(c)
          /\ Above(posts[c], ListOf(c), hook[c])
      BY DEF HookInv, FlowInv, BaseInv, RangeInv, ChargeInv, Charged, Charging
    <2>1. PICK f, n, t, e : /\ ~cut[c] => e = 0
                            /\ Undone(pres[c], posts[c], f, t, hook[c], e)
      BY <2>0 DEF HookRun, PostRun
    <2>2. /\ mine[c] \in Pipelines /\ pres[c] \in Seq(Plugins) /\ posts[c] \in Seq(Plugins)
          /\ Len(pres[c]) \in Nat /\ Len(posts[c]) \in Nat /\ hook[c] \in Nat
      BY <2>0 DEF InHand, Holding, BaseInv, TypeOK
    <2>3. ~cut[c] => \E k \in 1..Len(pres[c]) : pres[c][k] = posts[c][i]
      <3> SUFFICES ASSUME ~cut[c] PROVE \E k \in 1..Len(pres[c]) : pres[c][k] = posts[c][i]
        OBVIOUS
      <3>1. t \in 0..Len(pres[c]) /\ Len(posts[c]) - 0 <= t /\ e = 0
        BY <2>1 DEF Undone
      <3>2. t + 1 - i \in 1..Len(pres[c]) /\ i \in 1..(Len(posts[c]) - 0) /\ 0 + i = i
        BY <2>2, <3>1
      <3>3. posts[c][0 + i] = pres[c][t + 1 - i]
        BY <2>1, <3>1, <3>2 DEF Undone
      <3> QED BY <3>2, <3>3
    <2>4. /\ ListOf(c) \in Seq(Plugins) /\ ListedOnce(ListOf(c))
          /\ hook[c] \in 0..Len(ListOf(c))
      <3>1. ListOf(c) \in Seq(Plugins) /\ Len(ListOf(c)) \in Nat
        BY <2>0, ListOfType
      <3>2. ListedOnce(ListOf(c))
        BY <2>0, <2>2 DEF ListInv, ListOf, Using, ListedOnce
      <3> QED BY <2>0, <2>2, <3>1, <3>2 DEF InRange
    <2>5. \A a, b \in 1..Len(posts[c]) : posts[c][a] = posts[c][b] => a = b
      BY <2>0, <2>2, <2>4, AboveOnce
    <2> QED BY <2>3, <2>5
  <1> QED BY <1>1, ChargeCorrect, PTL

=============================================================================
