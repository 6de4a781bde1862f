-------------------------- MODULE PersistenceProofs --------------------------
(***************************************************************************)
(* Proofs about Persistence: its types, and, for a memory limit that       *)
(* everything fits into, what a restart restores.                          *)
(***************************************************************************)
EXTENDS Persistence, TableProofs

-----------------------------------------------------------------------------
(* The inductive invariant.                                                *)

\* The types.
BaseInv ==
  /\ phase \in {"serving", "snapshot", "truncate", "down"}
  /\ TInv(table)
  /\ wal \in Seq(Whole \union {Torn})
  /\ buffer \in Seq(Whole)
  /\ Len(buffer) < batch
  /\ batch \in {Batch, DefaultBatch}
  /\ snap \in [state : {"none", "first", "again", "whole"}, entries : Seq(KeyEntry)]
  /\ crashes \in 0 .. MaxCrashes
  /\ pending \in Seq([Key -> Items]) /\ pending # << >>
  /\ cut \in BOOLEAN
  /\ phase # "down" => ~cut

Serving == Backed(snap.entries, wal, buffer, pending, Contents(table))

Now == pending = <<Contents(table)>>

\* A checkpoint is under way.
Writing ==
  /\ buffer = << >> /\ Now
  /\ snap.state \in {"first", "again"} /\ snap.entries = << >>
  /\ Sound(wal) => Agrees(wal, Contents(table))
  /\ Sound(wal) /\ snap.state = "first" => Restores(<< >>, wal, Contents(table))

Written ==
  /\ buffer = << >> /\ Now /\ snap.state = "whole"
  /\ \A k \in Key : Keeps(snap.entries, k, Contents(table)[k])
  /\ Sound(wal) => Agrees(wal, Contents(table))

Down ==
  /\ Sound(wal) /\ ~cut =>
        \E i \in 1 .. Len(pending) : Restores(snap.entries, wal, pending[i])
  /\ Sound(wal) /\ cut =>
        LET m == pending[Len(pending)]
        IN  /\ Agrees(wal, m)
            /\ \A k \in Key : Keeps(snap.entries, k, m[k]) \/ Keeps(snap.entries, k, None)

\* Until the first snapshot is whole, the log has all that is in it.
Covering ==
  snap.state \in {"none", "first"} /\ Sound(wal) =>
    \A i \in 1 .. Len(snap.entries) : ~Silent(wal, snap.entries[i].key)

DataInv ==
  /\ phase = "serving" => Serving
  /\ phase = "snapshot" => Writing
  /\ phase = "truncate" => Written
  /\ phase = "down" => Down
  /\ Covering

-----------------------------------------------------------------------------
(* A restart.                                                              *)

\* The calls, one after another.
LEMMA BuiltSteps ==
  ASSUME NEW calls \in Seq(Calls)
  PROVE  \E f : /\ f[0] = {NewTable(Policy)} /\ Built(calls) = f[Len(calls)]
                /\ \A n \in 1 .. Len(calls) :
                      f[n] = UNION {Called(t, calls[n]) : t \in f[n - 1]}
<1> USE Zenon
<1> DEFINE L == Len(calls)
           T == {t \in Tables : TInv(t)}
           S == SUBSET T
           base == {NewTable(Policy)}
           next(n, R) == UNION {Called(t, calls[n]) : t \in R}
           step == [x \in (1 .. L) \X S |-> next(x[1], x[2])]
<1>1. L \in Nat /\ \A n \in 1 .. L : calls[n] \in Calls
  BY SMT
<1>2. base \in S
  BY PersistenceConstants, NewTableInv DEF TInv
<1>3. ASSUME NEW n \in 1 .. L, NEW R \in S PROVE next(n, R) \in S
  <2>1. ASSUME NEW t \in R, NEW u \in Called(t, calls[n]) PROVE u \in T
    <3>1. Leaving(u, t, calls[n].key, CallEffect(calls[n]))
      BY <1>1, <2>1, CalledIs
    <3> QED
      BY <3>1 DEF Leaving, TInv
  <2> QED
    BY <2>1
<1> HIDE DEF L, T, S, next
<1>4. step \in [(1 .. L) \X S -> S]
  <2>1. \A x \in (1 .. L) \X S : x[1] \in 1 .. L /\ x[2] \in S
    BY SMT
  <2> QED
    BY <1>3, <2>1
<1>5. \A n \in 1 .. L, R \in S : step[<<n, R>>] = next(n, R)
  <2> SUFFICES ASSUME NEW n \in 1 .. L, NEW R \in S PROVE step[<<n, R>>] = next(n, R)
    OBVIOUS
  <2>1. <<n, R>> \in (1 .. L) \X S /\ <<n, R>>[1] = n /\ <<n, R>>[2] = R
    OBVIOUS
  <2> QED
    BY <2>1
<1> HIDE DEF step, base
<1>6g. PICK g : IteratesTo(g, L, S, base, step)
  BY <1>1, <1>2, <1>4, FiniteRecursion
<1>6. g \in [0 .. L -> S] /\ g[0] = base /\ \A n \in 1 .. L : g[n] = step[<<n, g[n - 1]>>]
  BY <1>6g DEF IteratesTo
<1>7. \A n \in 0 .. L : n = 0 \/ (n # 0 /\ n \in 1 .. L /\ n - 1 \in 0 .. L)
  BY <1>1, SMT
<1>8. \A n \in 0 .. L : g[n] = IF n = 0 THEN base ELSE next(n, g[n - 1])
  BY <1>5, <1>6, <1>7
<1>9. g = [n \in 0 .. L |-> IF n = 0 THEN base ELSE next(n, g[n - 1])]
  BY <1>6, <1>8
<1> DEFINE f == CHOOSE f : f = [n \in 0 .. L |-> IF n = 0 THEN base ELSE next(n, f[n - 1])]
<1>10. f = [n \in 0 .. L |-> IF n = 0 THEN base ELSE next(n, f[n - 1])]
  BY <1>9
<1>11. Built(calls) = f[L]
  BY DEF Built, L, base, next
<1> HIDE DEF f
<1>12. \A n \in 0 .. L : f[n] = IF n = 0 THEN base ELSE next(n, f[n - 1])
  BY <1>10
<1>13. 0 \in 0 .. L /\ \A n \in 1 .. L : n \in 0 .. L /\ n # 0
  BY <1>1, SMT
<1>14. f[0] = base /\ \A n \in 1 .. L : f[n] = next(n, f[n - 1])
  BY <1>12, <1>13
<1> QED
  BY <1>11, <1>14 DEF L, base, next

\* Every table that a restart may build.
LEMMA BuiltIs ==
  ASSUME NEW calls \in Seq(Calls), NEW u \in Built(calls)
  PROVE  TInv(u) /\ (Roomy => \A k \in Key : Leaves(calls, Len(calls), k, Seen(u, k)))
<1> USE Zenon
<1> DEFINE L == Len(calls)
           P(t, n) == TInv(t) /\ (Roomy => \A k \in Key : Leaves(calls, n, k, Seen(t, k)))
<1>1. PICK f : /\ f[0] = {NewTable(Policy)} /\ Built(calls) = f[L]
               /\ \A n \in 1 .. L : f[n] = UNION {Called(t, calls[n]) : t \in f[n - 1]}
  BY BuiltSteps
<1>2. L \in Nat /\ \A n \in 1 .. L : calls[n] \in Calls
  BY SMT
<1> DEFINE Z == {n \in Nat : n <= L => \A t \in f[n] : P(t, n)}
<1>3. 0 \in Z
  <2> DEFINE t == NewTable(Policy)
  <2>1. TInv(t) /\ Held(t) = {}
    BY PersistenceConstants, NewTableInv
  <2>2. \A k \in Key : Seen(t, k) = None
    BY <2>1, ContentsIs
  <2>3. 1 .. 0 = {} /\ 0 \in Nat
    BY SMT
  <2> HIDE DEF t
  <2>4. P(t, 0)
    BY <2>1, <2>2, <2>3 DEF Leaves
  <2> QED
    BY <1>1, <2>3, <2>4 DEF t
<1> HIDE DEF L
<1>4. ASSUME NEW n \in Nat, n \in Z PROVE n + 1 \in Z
  <2> DEFINE o == n + 1
  <2>1. ASSUME o <= L, NEW v \in f[o] PROVE P(v, o)
    <3>1. o \in 1 .. L /\ o - 1 = n /\ n <= L /\ o - 1 \in Nat
      BY <1>2, <2>1, SMT
    <3> HIDE DEF o
    <3>2. f[o] = UNION {Called(t, calls[o]) : t \in f[o - 1]}
      BY <1>1, <3>1
    <3>3. PICK t \in f[o - 1] : v \in Called(t, calls[o])
      BY <2>1, <3>2
    <3>4. TInv(t) /\ (Roomy => \A k \in Key : Leaves(calls, o - 1, k, Seen(t, k)))
      BY <1>4, <3>1, <3>3
    <3>5. calls[o] \in Calls
      BY <1>2, <3>1
    <3>6. Leaving(v, t, calls[o].key, CallEffect(calls[o]))
      BY <3>3, <3>4, <3>5, CalledIs
    <3>7. ASSUME Roomy, NEW k \in Key PROVE Leaves(calls, o, k, Seen(v, k))
      <4>1. Leaves(calls, o - 1, k, Seen(t, k))
        BY <3>4, <3>7
      <4>2. Seen(v, k) = IF k = calls[o].key THEN CallEffect(calls[o]) ELSE Seen(t, k)
        BY <3>6, <3>7 DEF Leaving
      <4> QED
        BY <3>1, <4>1, <4>2, LeavesNext DEF L
    <3> QED
      BY <3>6, <3>7 DEF Leaving
  <2>2. o \in Nat
    BY SMT
  <2> QED
    BY <2>1, <2>2
<1>5. L \in Z
  <2> HIDE DEF Z
  <2>1. Nat \subseteq Z
    BY <1>3, <1>4, Induction
  <2> QED
    BY <1>2, <2>1
<1>6. L <= L
  BY <1>2, SMT
<1> QED
  BY <1>1, <1>5, <1>6 DEF L

\* A restart restores what the files say.
LEMMA RebuiltIs ==
  ASSUME NEW s, s.entries \in Seq(KeyEntry), NEW file \in Files,
         NEW records \in Readings(file), NEW t \in Rebuilt(s, records)
  PROVE  TInv(t) /\ (Roomy /\ Sound(file) => Restores(s.entries, file, Contents(t)))
<1> USE Zenon
<1> DEFINE e == s.entries
           calls == [i \in DOMAIN e |-> LoadCall(e[i])]
                      \o [i \in DOMAIN records |-> ReplayCall(records[i])]
<1>1. records \in Seq(Whole)
  BY ReadingsAre
<1>2. t \in Built(calls)
  BY DEF Rebuilt
<1>3. /\ calls \in Seq(Calls)
      /\ \A k \in Key : \A x : Leaves(calls, Len(calls), k, x) =>
              Tells(records, k, x) \/ (Silent(records, k) /\ Keeps(e, k, x))
  <2> DEFINE c == calls
  <2> HIDE DEF c
  <2>1. /\ c \in Seq(Calls)
        /\ \A k \in Key : \A x : Leaves(c, Len(c), k, x) =>
                Tells(records, k, x) \/ (Silent(records, k) /\ Keeps(e, k, x))
    <3>1. c = calls
      BY DEF c
    <3> QED
      BY <1>1, <3>1, CallsLeave
  <2> QED
    BY <2>1 DEF c
<1> HIDE DEF calls, e
<1>4. TInv(t) /\ (Roomy => \A k \in Key : Leaves(calls, Len(calls), k, Seen(t, k)))
  BY <1>2, <1>3, BuiltIs
<1>5. ASSUME Roomy, Sound(file), NEW k \in Key
      PROVE  Tells(file, k, Contents(t)[k])
             \/ (Silent(file, k) /\ Keeps(e, k, Contents(t)[k]))
  <2>1. Tells(records, k, Seen(t, k)) \/ (Silent(records, k) /\ Keeps(e, k, Seen(t, k)))
    BY <1>3, <1>4, <1>5
  <2>2. Contents(t)[k] = Seen(t, k)
    BY DEF Contents
  <2> QED
    BY <1>5, <2>1, <2>2, ReadingTells
<1> QED
  BY <1>4, <1>5 DEF Restores, e

-----------------------------------------------------------------------------
(* The log.                                                                *)

Writers == {w \in [wal : Files, buffer : Seq(Whole)] : Len(w.buffer) < batch}

\* append keeps a record in the batch, or writes the batch with it.
LEMMA AppendRecordIs ==
  ASSUME NEW w \in Writers, NEW r \in Whole, batch \in Nat \ {0}
  PROVE  /\ AppendRecord(w, r) \in Writers
         /\ \/ AppendRecord(w, r).buffer = << >> /\ AppendRecord(w, r).wal = w.wal \o Append(w.buffer, r)
            \/ AppendRecord(w, r).buffer = Append(w.buffer, r) /\ AppendRecord(w, r).wal = w.wal
<1> DEFINE b == Append(w.buffer, r)
           a == AppendRecord(w, r)
<1>1. w.wal \in Files /\ w.buffer \in Seq(Whole) /\ w \in [wal : Files, buffer : Seq(Whole)]
  BY DEF Writers
<1>2. b \in Seq(Whole) /\ b \in Files /\ << >> \in Seq(Whole) /\ Len(<< >>) < batch
  BY <1>1 DEF Files
<1>3. CASE Len(b) >= batch
  <2>1. a = [wal |-> w.wal \o b, buffer |-> << >>]
    BY <1>3, Zenon DEF AppendRecord
  <2>2. w.wal \o b \in Files
    BY <1>1, <1>2, ConcatIs DEF Files
  <2> HIDE DEF a, b
  <2>3. a \in [wal : Files, buffer : Seq(Whole)] /\ a.buffer = << >> /\ a.wal = w.wal \o b
    BY <1>2, <2>1, <2>2, Zenon
  <2>4. a \in Writers
    BY <1>2, <2>3, Zenon DEF Writers
  <2> QED
    BY <2>3, <2>4, Zenon DEF a, b
<1>4. CASE ~(Len(b) >= batch)
  <2>1. a = [w EXCEPT !.buffer = b]
    BY <1>4, Zenon DEF AppendRecord
  <2>2. Len(b) < batch
    BY <1>2, <1>4
  <2> HIDE DEF a, b
  <2>3. a \in [wal : Files, buffer : Seq(Whole)] /\ a.buffer = b /\ a.wal = w.wal
    BY <1>1, <1>2, <2>1
  <2>4. a \in Writers
    BY <2>2, <2>3, Zenon DEF Writers
  <2> QED
    BY <2>3, <2>4, Zenon DEF a, b
<1> QED
  BY <1>3, <1>4, Zenon

\* Appending the records of a log, one after another.
LEMMA LoggedIs ==
  ASSUME NEW log \in Seq(Whole), batch \in Nat \ {0}, [wal |-> wal, buffer |-> buffer] \in Writers
  PROVE  /\ Logged(log) \in Writers /\ Extending(Logged(log).wal, wal)
         /\ \A r : log = <<r>> => Logged(log) = AppendRecord([wal |-> wal, buffer |-> buffer], r)
<1> USE Zenon
<1> DEFINE L == Len(log)
           base == [wal |-> wal, buffer |-> buffer]
           step == [x \in (1 .. L) \X Writers |-> AppendRecord(x[2], log[x[1]])]
<1>1. L \in Nat /\ \A n \in 1 .. L : log[n] \in Whole
  BY SMT
<1>2. base \in Writers /\ base.wal = wal /\ wal \in Files
  BY DEF Writers
<1> HIDE DEF L, base
<1>3. step \in [(1 .. L) \X Writers -> Writers]
  <2>1. \A x \in (1 .. L) \X Writers : x[1] \in 1 .. L /\ x[2] \in Writers
    BY SMT
  <2> QED
    BY <1>1, <2>1, AppendRecordIs
<1>4. \A n \in 1 .. L, w \in Writers : step[<<n, w>>] = AppendRecord(w, log[n])
  <2> SUFFICES ASSUME NEW n \in 1 .. L, NEW w \in Writers
               PROVE  step[<<n, w>>] = AppendRecord(w, log[n])
    OBVIOUS
  <2>1. <<n, w>> \in (1 .. L) \X Writers /\ <<n, w>>[1] = n /\ <<n, w>>[2] = w
    OBVIOUS
  <2> QED
    BY <2>1
<1> HIDE DEF step
<1>5. PICK g : IteratesTo(g, L, Writers, base, step)
  BY <1>1, <1>2, <1>3, FiniteRecursion
<1>6. /\ g \in [0 .. L -> Writers] /\ g[0] = base
      /\ \A n \in 1 .. L : g[n] = step[<<n, g[n - 1]>>]
  BY <1>5 DEF IteratesTo
<1>7. \A n \in 0 .. L : n = 0 \/ (n # 0 /\ n \in 1 .. L /\ n - 1 \in 0 .. L)
  BY <1>1, SMT
<1>8. \A n \in 0 .. L : g[n] = IF n = 0 THEN base ELSE AppendRecord(g[n - 1], log[n])
  BY <1>4, <1>6, <1>7
<1>9. g = [n \in 0 .. L |-> IF n = 0 THEN base ELSE AppendRecord(g[n - 1], log[n])]
  BY <1>6, <1>8
<1> DEFINE f == CHOOSE f : f = [n \in 0 .. L |-> IF n = 0 THEN base ELSE AppendRecord(f[n - 1], log[n])]
<1>10. f = [n \in 0 .. L |-> IF n = 0 THEN base ELSE AppendRecord(f[n - 1], log[n])]
  BY <1>9
<1>11. Logged(log) = f[L]
  BY DEF Logged, L, base
<1> HIDE DEF f
<1>12. \A n \in 0 .. L : f[n] = IF n = 0 THEN base ELSE AppendRecord(f[n - 1], log[n])
  BY <1>10
<1> DEFINE Good(w) == w \in Writers /\ Extending(w.wal, wal)
           Z == {n \in Nat : n <= L => Good(f[n])}
<1>13. 0 \in 0 .. L /\ 0 \in Nat /\ L \in 0 .. L /\ L <= L
  BY <1>1, SMT
<1>14. 0 \in Z
  <2>1. Len(wal) <= Len(wal)
    BY <1>2, SMT DEF Files
  <2>2. Extending(wal, wal)
    BY <1>2, <2>1 DEF Extending
  <2>3. f[0] = base
    BY <1>12, <1>13
  <2> QED
    BY <1>2, <1>13, <2>2, <2>3
<1>15. ASSUME NEW w, Good(w), NEW r \in Whole PROVE Good(AppendRecord(w, r))
  <2> DEFINE a == AppendRecord(w, r)
  <2>1. /\ a \in Writers
        /\ a.wal = w.wal \o Append(w.buffer, r) \/ a.wal = w.wal
    BY <1>15, AppendRecordIs
  <2> HIDE DEF a
  <2>2. w.wal \in Files /\ w.buffer \in Seq(Whole)
    BY <1>15 DEF Writers
  <2>3. Append(w.buffer, r) \in Files
    BY <2>2, SMT DEF Files
  <2>4. Extending(w.wal \o Append(w.buffer, r), w.wal)
    BY <2>2, <2>3, ConcatExtends
  <2>5. \A p : Extending(p, w.wal) => Extending(p, wal)
    <3> SUFFICES ASSUME NEW p, Extending(p, w.wal) PROVE Extending(p, wal)
      OBVIOUS
    <3>1. /\ p \in Files /\ Len(w.wal) <= Len(p) /\ Len(wal) <= Len(w.wal)
          /\ \A i \in 1 .. Len(w.wal) : p[i] = w.wal[i]
          /\ \A i \in 1 .. Len(wal) : w.wal[i] = wal[i]
      BY <1>15 DEF Extending
    <3>2. Len(wal) \in Nat /\ Len(w.wal) \in Nat /\ Len(p) \in Nat
      BY <1>2, <2>2, <3>1, SMT DEF Files
    <3>3. Len(wal) <= Len(p) /\ \A i \in 1 .. Len(wal) : i \in 1 .. Len(w.wal)
      BY <3>1, <3>2, SMT
    <3> QED
      BY <3>1, <3>3 DEF Extending
  <2>6. Extending(a.wal, wal)
    BY <1>15, <2>1, <2>4, <2>5
  <2> QED
    BY <2>1, <2>6 DEF a
<1> HIDE DEF Good
<1>16. ASSUME NEW n \in Nat, n \in Z PROVE n + 1 \in Z
  <2> DEFINE o == n + 1
  <2>1. o \in Nat
    BY SMT
  <2>2. ASSUME o <= L PROVE Good(f[o])
    <3>1. o \in 1 .. L /\ o - 1 = n /\ n <= L /\ o \in 0 .. L /\ o # 0
      BY <1>1, <2>2, SMT
    <3> HIDE DEF o
    <3>2. f[o] = AppendRecord(f[o - 1], log[o])
      BY <1>12, <3>1
    <3> QED
      BY <1>1, <1>15, <1>16, <3>1, <3>2
  <2> QED
    BY <2>1, <2>2
<1>17. Good(f[L])
  <2> HIDE DEF Z
  <2>1. Nat \subseteq Z
    BY <1>14, <1>16, Induction
  <2>2. L \in Z
    BY <1>1, <2>1
  <2> QED
    BY <1>13, <2>2 DEF Z
<1>18. ASSUME NEW r, log = <<r>> PROVE f[L] = AppendRecord(base, r)
  <2>1. L = 1 /\ log[1] = r
    BY <1>18, SMT DEF L
  <2>2. f[1] = AppendRecord(f[1 - 1], log[1]) /\ 1 - 1 = 0
    BY <1>12, <1>13, <2>1, SMT
  <2>3. f[0] = base
    BY <1>12, <1>13
  <2> QED
    BY <2>1, <2>2, <2>3
<1> QED
  BY <1>11, <1>17, <1>18 DEF Good, base

-----------------------------------------------------------------------------
(* Types: BaseInv is inductive.                                            *)

\* Types that BaseInv implies.
LEMMA BaseFields ==
  ASSUME BaseInv
  PROVE  /\ batch \in Nat \ {0} /\ wal \in Files /\ buffer \in Seq(Whole) /\ buffer \in Files
         /\ [wal |-> wal, buffer |-> buffer] \in Writers
         /\ snap.entries \in Seq(KeyEntry) /\ TInv(table)
         /\ Contents(table) \in [Key -> Items]
<1>1. batch \in Nat \ {0} /\ wal \in Files /\ buffer \in Seq(Whole) /\ Len(buffer) < batch
  BY PersistenceConstants, Zenon DEF BaseInv, Files
<1>2. buffer \in Files
  BY <1>1 DEF Files
<1>3. [wal |-> wal, buffer |-> buffer] \in Writers
  BY <1>1, Zenon DEF Writers
<1>4. snap.entries \in Seq(KeyEntry) /\ TInv(table)
  BY Zenon DEF BaseInv
<1> QED
  BY <1>1, <1>2, <1>3, <1>4, ContentsIs, Zenon

\* A served operation keeps BaseInv.
LEMMA BaseApply ==
  ASSUME BaseInv, NEW r, TInv(r.table), r.log \in Seq(Whole), Apply(r)
  PROVE  BaseInv'
<1> USE Zenon
<1>1. Logged(r.log) \in Writers
  BY BaseFields, LoggedIs
<1>2. /\ wal' = Logged(r.log).wal /\ buffer' = Logged(r.log).buffer /\ table' = r.table
      /\ pending' = <<Contents(r.table)>> \/ pending' = Append(pending, Contents(r.table))
      /\ UNCHANGED <<phase, batch, snap, crashes, cut>>
  BY DEF Apply
<1>3. wal' \in Files /\ buffer' \in Seq(Whole) /\ Len(buffer') < batch
  BY <1>1, <1>2 DEF Writers
<1>4. Contents(r.table) \in [Key -> Items]
  BY ContentsIs
<1>5. pending \in Seq([Key -> Items])
  BY DEF BaseInv
<1>6. pending' \in Seq([Key -> Items]) /\ pending' # << >>
  <2> DEFINE m == Contents(r.table)
             M == [Key -> Items]
  <2> HIDE DEF m, M
  <2>1. m \in M /\ pending \in Seq(M) /\ (pending' = <<m>> \/ pending' = Append(pending, m))
    BY <1>2, <1>4, <1>5 DEF m, M
  <2>2. <<m>> \in Seq(M) /\ <<m>> # << >>
    BY <2>1, SMT
  <2>3. Append(pending, m) \in Seq(M) /\ Len(Append(pending, m)) = Len(pending) + 1 /\ Len(pending) \in Nat
    BY <2>1, SMT
  <2>4. Append(pending, m) # << >>
    <3>1. Len(<< >>) = 0 /\ \A n \in Nat : n + 1 # 0
      BY SMT
    <3> QED
      BY <2>3, <3>1
  <2> QED
    BY <2>1, <2>2, <2>3, <2>4 DEF M
<1> QED
  BY <1>2, <1>3, <1>6 DEF BaseInv, Files

\* A new table is empty.
LEMMA NewTableFields ==
  /\ TInv(NewTable(Policy)) /\ \A k \in Key : Contents(NewTable(Policy))[k] = None
  /\ Contents(NewTable(Policy)) \in [Key -> Items]
<1> USE Zenon
<1>1. TInv(NewTable(Policy)) /\ Held(NewTable(Policy)) = {}
  BY NewTableInv, PersistenceConstants
<1> QED
  BY <1>1, ContentsIs

\* What the actions set pending to.
LEMMA OnePending ==
  ASSUME NEW t, TInv(t)
  PROVE  <<Contents(t)>> \in Seq([Key -> Items]) /\ <<Contents(t)>> # << >>
<1> DEFINE m == Contents(t)
           M == [Key -> Items]
<1>1. m \in M
  BY ContentsIs, Zenon
<1> HIDE DEF m, M
<1>2. <<m>> \in Seq(M) /\ <<m>> # << >>
  BY <1>1
<1> QED
  BY <1>2, Zenon DEF m, M

\* BaseInv holds when the process starts for the first time.
LEMMA BaseInit == Init => BaseInv
<1> USE Zenon
<1> SUFFICES ASSUME Init PROVE BaseInv
  OBVIOUS
<1> USE DEF Init
<1>1. /\ << >> \in Seq(Whole \union {Torn}) /\ << >> \in Seq(Whole) /\ << >> \in Seq(KeyEntry)
      /\ Len(<< >>) = 0
  BY SMT
<1>2. Batch \in Nat \ {0} /\ MaxCrashes \in Nat
  BY PersistenceConstants
<1>3. Len(<< >>) < Batch /\ 0 \in 0 .. MaxCrashes
  BY <1>1, <1>2, SMT
<1>4. snap \in [state : {"none", "first", "again", "whole"}, entries : Seq(KeyEntry)]
  BY <1>1
<1>5. TInv(table) /\ pending = <<Contents(table)>>
  BY NewTableFields
<1>6. pending \in Seq([Key -> Items]) /\ pending # << >>
  BY <1>5, OnePending
<1> QED
  BY <1>1, <1>3, <1>4, <1>5, <1>6 DEF BaseInv

\* A flush leaves nothing in the buffer.
LEMMA BaseFlushed ==
  ASSUME BaseInv, Flushed
  PROVE  /\ wal' \in Files /\ buffer' \in Seq(Whole) /\ Len(buffer') < batch
         /\ pending' \in Seq([Key -> Items]) /\ pending' # << >>
         /\ Extending(wal', wal)
<1> USE Zenon
<1> USE DEF Flushed
<1>1. wal \in Files /\ buffer \in Files /\ batch \in Nat \ {0} /\ TInv(table)
  BY BaseFields
<1>2. Extending(wal', wal)
  BY <1>1, ConcatExtends
<1>3. buffer' \in Seq(Whole) /\ Len(buffer') < batch
  BY <1>1, SMT
<1>4. pending' \in Seq([Key -> Items]) /\ pending' # << >>
  BY <1>1, OnePending
<1> QED
  BY <1>2, <1>3, <1>4 DEF Extending

\* A record, and what a checkpoint makes of the snapshot.
LEMMA BaseSnapshots ==
  ASSUME BaseInv
  PROVE  /\ Listing(Pairs(table)) \in Seq(KeyEntry)
         /\ \A m \in 0 .. table.entries : SubSeq(Listing(Pairs(table)), 1, m) \in Seq(KeyEntry)
<1> USE Zenon
<1> DEFINE all == Listing(Pairs(table))
<1>1. Part(all, table) /\ Len(all) = table.entries
  BY BaseFields, SnapshotIs
<1> HIDE DEF all
<1>2. \A m \in 0 .. table.entries : Part(SubSeq(all, 1, m), table)
  BY <1>1, PartPrefix
<1> QED
  BY <1>1, <1>2 DEF Part, all

\* The file after a crash.
LEMMA CrashFile ==
  ASSUME BaseInv, NEW n \in Nat, NEW torn \in BOOLEAN, NEW m, Crash(n, torn, m)
  PROVE  LET saved == wal \o SubSeq(buffer, 1, n)
         IN  /\ n \in 0 .. Len(buffer) /\ saved \in Files
             /\ wal' = saved \/ wal' = Append(saved, Torn)
             /\ Extending(wal', wal)
<1> DEFINE saved == wal \o SubSeq(buffer, 1, n)
<1>1. wal \in Files /\ buffer \in Seq(Whole) /\ n <= Len(buffer)
  BY BaseFields, Zenon DEF Crash
<1>2. n \in 0 .. Len(buffer)
  BY <1>1
<1>3. SubSeq(buffer, 1, n) \in Seq(Whole) /\ saved \in Files
  BY <1>1, <1>2, SavedIs, Zenon
<1>4. SubSeq(buffer, 1, n) \in Files
  BY <1>3 DEF Files
<1>5. Extending(saved, wal)
  BY <1>1, <1>4, ConcatExtends, Zenon
<1>6. wal' = saved \o (IF torn THEN <<Torn>> ELSE << >>)
  BY Zenon DEF Crash
<1> HIDE DEF saved
<1>7. CASE torn
  <2>1. wal' = saved \o <<Torn>>
    BY <1>6, <1>7, Zenon
  <2>2. wal' = Append(saved, Torn)
    BY <1>3, <2>1 DEF Files
  <2>3. /\ Append(saved, Torn) \in Files /\ Len(Append(saved, Torn)) = Len(saved) + 1
        /\ \A i \in 1 .. Len(saved) : Append(saved, Torn)[i] = saved[i]
    BY <1>3 DEF Files
  <2>4. Len(wal) \in Nat /\ Len(saved) \in Nat /\ Len(wal) <= Len(saved)
    BY <1>1, <1>3, <1>5 DEF Files, Extending
  <2>5. Len(wal) <= Len(saved) + 1 /\ \A i \in 1 .. Len(wal) : i \in 1 .. Len(saved)
    BY <2>4
  <2>6. Extending(Append(saved, Torn), wal)
    BY <1>5, <2>3, <2>5, Zenon DEF Extending
  <2> QED
    BY <1>2, <1>3, <2>2, <2>6, Zenon DEF saved
<1>8. CASE ~torn
  <2>1. wal' = saved \o << >>
    BY <1>6, <1>8, Zenon
  <2>2. wal' = saved
    <3> DEFINE T == Whole \union {Torn}
    <3>1. saved \in Seq(T)
      BY <1>3, Zenon DEF Files
    <3> HIDE DEF T
    <3>2. saved \o << >> = saved
      BY <3>1
    <3> QED
      BY <2>1, <3>2, Zenon
  <2> QED
    BY <1>2, <1>3, <1>5, <2>2, Zenon DEF saved
<1> QED
  BY <1>7, <1>8, Zenon

\* An operation that is applied, and what it logs.
LEMMA SetApplies ==
  ASSUME BaseInv, NEW k \in Key, NEW v \in Value, Set(k, v)
  PROVE  \E r : /\ Apply(r) /\ r.log \in Seq(Whole) /\ Leaving(r.table, table, k, [value |-> v, expiry |-> 0])
                /\ Roomy => r.log = <<[op |-> "SET", key |-> k, value |-> v, expiry |-> 0]>>
<1> USE Zenon
<1>1. PICK r \in Inserted(Run(table), k, Entry(v, 0)) : Apply(r)
  BY DEF Set
<1>2. TInv(table)
  BY BaseFields
<1>3. Entry(v, 0) \in Entries /\ Item(Entry(v, 0)) = [value |-> v, expiry |-> 0]
  BY SMT DEF Entry, Entries, Item
<1>4. Leaving(r.table, table, k, Item(Entry(v, 0)))
  BY <1>1, <1>2, <1>3, InsertSeen
<1> QED
  BY <1>1, <1>2, <1>3, <1>4, InsertLogged

\* A delete applies one DELETE record and leaves its key absent.
LEMMA DeleteApplies ==
  ASSUME BaseInv, NEW k \in Key, Delete(k)
  PROVE  \E r : /\ Apply(r) /\ r.log \in Seq(Whole) /\ Leaving(r.table, table, k, None)
                /\ r.log = <<[op |-> "DELETE", key |-> k]>>
<1> USE Zenon
<1> DEFINE r == Removed(Run(table), k)
<1>1. Apply(r)
  BY DEF Delete
<1>2. TInv(table)
  BY BaseFields
<1>3. Leaving(r.table, table, k, None) /\ r.log = <<[op |-> "DELETE", key |-> k]>>
  BY <1>2, RemoveSeen, RemoveLogged
<1>4. <<[op |-> "DELETE", key |-> k]>> \in Seq(Whole)
  BY SMT DEF Whole
<1> HIDE DEF r
<1> QED
  BY <1>1, <1>3, <1>4

\* BaseInv is inductive.
LEMMA BaseNext == BaseInv /\ [Next]_vars => BaseInv'
<1> USE Zenon
<1> SUFFICES ASSUME BaseInv, [Next]_vars PROVE BaseInv'
  OBVIOUS
<1>1. /\ wal \in Files /\ buffer \in Seq(Whole) /\ TInv(table) /\ batch \in Nat \ {0}
  BY BaseFields
<1>2. /\ TInv(NewTable(Policy)) /\ << >> \in Seq(Whole) /\ << >> \in Files /\ << >> \in Seq(KeyEntry)
      /\ Len(<< >>) < batch /\ Len(<< >>) < Batch /\ Len(<< >>) < DefaultBatch
  <2>1. Batch \in Nat \ {0} /\ DefaultBatch \in Nat \ {0}
    BY PersistenceConstants
  <2>2. /\ << >> \in Seq(Whole) /\ << >> \in Files /\ << >> \in Seq(KeyEntry)
        /\ Len(<< >>) < batch /\ Len(<< >>) < Batch /\ Len(<< >>) < DefaultBatch
    BY <1>1, <2>1, SMT DEF Files
  <2> QED
    BY <2>2, NewTableFields
<1>3. ASSUME NEW k \in Key, NEW v \in Value, Set(k, v) PROVE BaseInv'
  BY <1>3, SetApplies, BaseApply DEF Leaving
<1>4. ASSUME NEW k \in Key, Delete(k) PROVE BaseInv'
  BY <1>4, DeleteApplies, BaseApply DEF Leaving
<1>5. ASSUME NEW k \in Key, Get(k) PROVE BaseInv'
  <2>1. TInv(table')
    BY <1>1, <1>5, AccessSeen DEF Get
  <2> QED
    BY <1>5, <2>1 DEF Get, BaseInv
<1>6. CASE Flush
  BY <1>6, BaseFlushed DEF Flush, BaseInv, Files
<1>7. CASE BeginSnapshot
  <2>1. snap' \in [state : {"none", "first", "again", "whole"}, entries : Seq(KeyEntry)]
    BY <1>2, <1>7 DEF BeginSnapshot
  <2> QED
    BY <1>7, <2>1, BaseFlushed DEF BeginSnapshot, BaseInv, Files
<1>8. CASE WriteSnapshot
  <2>1. snap' \in [state : {"none", "first", "again", "whole"}, entries : Seq(KeyEntry)]
    BY <1>8, BaseSnapshots DEF WriteSnapshot
  <2> QED
    BY <1>8, <2>1 DEF WriteSnapshot, BaseInv
<1>9. CASE TruncateWal
  BY <1>2, <1>9 DEF TruncateWal, BaseInv, Files
<1>10. CASE Close
  <2>1. ~cut
    BY <1>10 DEF Close, BaseInv
  <2> QED
    BY <1>2, <1>10, <2>1, BaseFlushed DEF Close, BaseInv, Files
<1>11. ASSUME NEW n \in 0 .. MaxLog, NEW m \in 0 .. Cardinality(Key), NEW torn \in BOOLEAN,
              Crash(n, torn, m)
       PROVE  BaseInv'
  <2>1. n \in Nat /\ crashes' \in 0 .. MaxCrashes
    <3>1. n \in Nat
      BY SMT
    <3>2. crashes \in 0 .. MaxCrashes /\ crashes < MaxCrashes /\ crashes' = crashes + 1 /\ MaxCrashes \in Nat
      BY <1>11, PersistenceConstants DEF Crash, BaseInv
    <3> QED
      BY <3>1, <3>2, SMT
  <2>2. wal' \in Files
    BY <1>11, <2>1, CrashFile DEF Extending
  <2>3. snap' \in [state : {"none", "first", "again", "whole"}, entries : Seq(KeyEntry)]
    <3>1. CASE phase = "snapshot"
      <4> DEFINE e == SubSeq(Listing(Pairs(table)), 1, m)
      <4>1. m <= table.entries /\ snap' = [snap EXCEPT !.entries = e]
        BY <1>11, <3>1 DEF Crash
      <4>2. m \in 0 .. table.entries
        <5>1. table.entries \in Nat
          BY <1>1, TableFields DEF TInv
        <5> QED
          BY <4>1, <5>1, SMT
      <4>3. e \in Seq(KeyEntry)
        BY <4>2, BaseSnapshots
      <4> HIDE DEF e
      <4>4. snap \in [state : {"none", "first", "again", "whole"}, entries : Seq(KeyEntry)]
        BY DEF BaseInv
      <4> QED
        BY <4>1, <4>3, <4>4, SMT
    <3>2. CASE phase # "snapshot"
      BY <1>11, <3>2 DEF Crash, BaseInv
    <3> QED
      BY <3>1, <3>2
  <2>4. /\ phase' = "down" /\ table' = NewTable(Policy) /\ buffer' = << >>
        /\ UNCHANGED <<batch, pending>> /\ cut' \in BOOLEAN
    BY <1>11 DEF Crash
  <2> QED
    BY <1>2, <2>1, <2>2, <2>3, <2>4 DEF BaseInv, Files
<1>12. CASE Recover
  <2>1. PICK records \in Readings(wal) : table' \in Rebuilt(snap, records)
    BY <1>12 DEF Recover
  <2>2. snap.entries \in Seq(KeyEntry)
    BY BaseFields
  <2>3. TInv(table')
    BY <1>1, <2>1, <2>2, RebuiltIs
  <2>4. pending' \in Seq([Key -> Items]) /\ pending' # << >>
    BY <1>12, <2>3, OnePending DEF Recover
  <2> QED
    BY <1>2, <1>12, <2>3, <2>4 DEF Recover, BaseInv
<1>13. CASE UNCHANGED vars
  BY <1>13 DEF vars, BaseInv
<1> QED
  BY <1>3, <1>4, <1>5, <1>6, <1>7, <1>8, <1>9, <1>10, <1>11, <1>12, <1>13 DEF Next

\* At every moment the log holds whole or torn records, the buffer whole ones and
\* fewer than a batch, and the other variables have their values, whatever is set,
\* removed, looked up, checkpointed, cut short by a crash and recovered.
THEOREM TypeCorrect == Spec => []TypeOK
<1>1. BaseInv => TypeOK
  <2> SUFFICES ASSUME BaseInv PROVE TypeOK
    OBVIOUS
  <2>1. Range(wal) \subseteq Whole \union {Torn} /\ Range(buffer) \subseteq Whole
    BY DEF BaseInv, Range
  <2> QED
    BY <2>1, Zenon DEF BaseInv, TypeOK
<1> QED
  BY <1>1, BaseInit, BaseNext, PTL DEF Spec

-----------------------------------------------------------------------------
(* Data: where everything fits, DataInv is inductive.                      *)

\* What the first snapshot needs from the log, it has while the log grows.
LEMMA CoveringKept ==
  ASSUME BaseInv, DataInv, Extending(wal', wal), snap' = snap
  PROVE  Covering'
<1> USE Zenon
<1>1. wal \in Files /\ Covering
  BY BaseFields DEF DataInv
<1>2. /\ Sound(wal') => Sound(wal)
      /\ \A k : Silent(wal', k) => Silent(wal, k)
  BY <1>1, ExtendingIs
<1> QED
  BY <1>1, <1>2 DEF Covering

\* A served operation keeps DataInv: its record has the effect that the call had.
LEMMA DataApply ==
  ASSUME BaseInv, DataInv, Roomy, NEW r, NEW x \in Whole, r.log = <<x>>,
         Leaving(r.table, table, x.key, Effect(x)), Apply(r)
  PROVE  DataInv'
<1> USE Zenon
<1> DEFINE w == [wal |-> wal, buffer |-> buffer]
           M == [Key -> Items]
           m == Contents(table)
           v == Contents(r.table)
           more == Append(buffer, x)
<1>1. /\ wal \in Files /\ buffer \in Seq(Whole) /\ w \in Writers /\ batch \in Nat \ {0}
      /\ TInv(table) /\ pending \in Seq(M)
  BY BaseFields DEF BaseInv
<1>2. /\ phase = "serving" /\ wal' = Logged(r.log).wal /\ buffer' = Logged(r.log).buffer
      /\ table' = r.table
      /\ pending' = IF buffer' = << >> THEN <<v>> ELSE Append(pending, v)
      /\ UNCHANGED <<phase, batch, snap, crashes, cut>>
  BY DEF Apply
<1>3. r.log \in Seq(Whole)
  BY SMT
<1>4. Logged(r.log) = AppendRecord(w, x) /\ Extending(Logged(r.log).wal, wal)
  BY <1>1, <1>3, LoggedIs
<1>5. w.wal = wal /\ w.buffer = buffer
  OBVIOUS
<1> HIDE DEF w
<1>6. \/ buffer' = << >> /\ wal' = wal \o more
      \/ buffer' = more /\ wal' = wal
  <2>1. \/ AppendRecord(w, x).buffer = << >> /\ AppendRecord(w, x).wal = w.wal \o Append(w.buffer, x)
        \/ AppendRecord(w, x).buffer = Append(w.buffer, x) /\ AppendRecord(w, x).wal = w.wal
    BY <1>1, AppendRecordIs
  <2> QED
    BY <1>2, <1>4, <1>5, <2>1
<1>7. v \in M /\ \A k \in Key : v[k] = IF k = x.key THEN Effect(x) ELSE m[k]
  <2>1. TInv(r.table) /\ \A k \in Key : Seen(r.table, k) = IF k = x.key THEN Effect(x) ELSE Seen(table, k)
    BY DEF Leaving
  <2>2. v \in M /\ \A k \in Key : v[k] = Seen(r.table, k) /\ m[k] = Seen(table, k)
    BY <1>1, <2>1, ContentsIs
  <2> QED
    BY <2>1, <2>2
<1>8. Backed(snap.entries, wal, buffer, pending, m)
  BY <1>2 DEF DataInv, Serving
<1> HIDE DEF M, m, v
<1>9. /\ Sound(wal \o more) => Restores(snap.entries, wal \o more, v)
      /\ Backed(snap.entries, wal, more, Append(pending, v), v)
  BY <1>1, <1>7, <1>8, BackedNext
<1>10. more # << >> /\ more \in Files
  <2>1. Len(more) = Len(buffer) + 1 /\ Len(buffer) \in Nat /\ more \in Files
    BY <1>1, SMT DEF Files
  <2>2. Len(<< >>) = 0 /\ \A n \in Nat : n + 1 # 0
    BY SMT
  <2> QED
    BY <2>1, <2>2
<1> HIDE DEF more
<1>11. Backed(snap.entries, wal', buffer', pending', v)
  <2>1. CASE buffer' = << >> /\ wal' = wal \o more
    <3>1. wal \o more \in Files
      BY <1>1, <1>10, ConcatExtends DEF Extending
    <3>2. Backed(snap.entries, wal \o more, << >>, <<v>>, v)
      BY <1>9, <3>1, BackedEmpty
    <3> QED
      BY <1>2, <2>1, <3>2
  <2>2. CASE buffer' = more /\ wal' = wal
    BY <1>2, <1>9, <1>10, <2>2
  <2> QED
    BY <1>6, <2>1, <2>2
<1>12. Covering'
  BY <1>2, <1>4, CoveringKept
<1>13. Serving'
  BY <1>2, <1>11 DEF Serving, v
<1> QED
  BY <1>2, <1>12, <1>13 DEF DataInv

\* A flush saves all that was buffered.
LEMMA DataFlushed ==
  ASSUME BaseInv, DataInv, phase = "serving", Flushed
  PROVE  /\ Sound(wal') => Restores(snap.entries, wal', Contents(table))
         /\ wal' \in Files /\ Extending(wal', wal)
<1> USE Zenon
<1>1. Backed(snap.entries, wal, buffer, pending, Contents(table))
  BY DEF DataInv, Serving
<1>2. wal \in Files /\ buffer \in Seq(Whole) /\ wal' = wal \o buffer
  BY BaseFields DEF Flushed
<1> QED
  BY <1>1, <1>2, BackedLast, BaseFlushed

\* The log alone, while nothing but the first snapshot was ever begun.
LEMMA WithoutFirst ==
  ASSUME NEW entries, NEW file, NEW m, Restores(entries, file, m),
         \A i \in 1 .. Len(entries) : ~Silent(file, entries[i].key)
  PROVE  Restores(<< >>, file, m)
<1> USE Zenon
<1> SUFFICES ASSUME NEW k \in Key, Silent(file, k), Keeps(entries, k, m[k])
             PROVE  Keeps(<< >>, k, m[k])
  BY DEF Restores
<1>1. \A i \in 1 .. Len(entries) : entries[i].key # k
  OBVIOUS
<1>2. m[k] = None
  BY <1>1 DEF Keeps
<1>3. \A i : i \notin 1 .. Len(<< >>)
  BY SMT
<1> QED
  BY <1>2, <1>3 DEF Keeps

\* The flush at the start of a checkpoint keeps DataInv.
LEMMA DataCheckpoint ==
  ASSUME BaseInv, DataInv, BeginSnapshot
  PROVE  DataInv'
<1> USE Zenon
<1>1. /\ phase = "serving" /\ phase' = "snapshot" /\ Flushed /\ table' = table
      /\ snap' = [state |-> IF snap.state \in {"none", "first"} THEN "first" ELSE "again",
                  entries |-> << >>]
  BY DEF BeginSnapshot
<1>2. /\ snap'.state = IF snap.state \in {"none", "first"} THEN "first" ELSE "again"
      /\ snap'.entries = << >>
  BY <1>1
<1>3. "first" # "again"
  BY SMT
<1>4. /\ Sound(wal') => Restores(snap.entries, wal', Contents(table))
      /\ Extending(wal', wal) /\ wal \in Files
  BY <1>1, DataFlushed, BaseFields
<1>5. Sound(wal') => Agrees(wal', Contents(table))
  BY <1>4, RestoresAgrees
<1>6. ASSUME Sound(wal'), snap'.state = "first" PROVE Restores(<< >>, wal', Contents(table))
  <2>1. snap.state \in {"none", "first"}
    BY <1>2, <1>3, <1>6
  <2>2. \A i \in 1 .. Len(snap.entries) : ~Silent(wal', snap.entries[i].key)
    BY <1>4, <1>6, <2>1, ExtendingIs DEF DataInv, Covering
  <2> QED
    BY <1>4, <1>6, <2>2, WithoutFirst
<1>7. Writing'
  BY <1>1, <1>2, <1>5, <1>6 DEF Writing, Now, Flushed
<1>8. Covering'
  <2>1. \A i : i \notin 1 .. Len(<< >>)
    BY SMT
  <2> QED
    BY <1>2, <2>1 DEF Covering
<1> QED
  BY <1>1, <1>7, <1>8, SMT DEF DataInv

\* Writing the snapshot keeps DataInv: it has all contents.
LEMMA DataSnapshot ==
  ASSUME BaseInv, DataInv, WriteSnapshot
  PROVE  DataInv'
<1> USE Zenon
<1> DEFINE all == Listing(Pairs(table))
<1>1. /\ phase = "snapshot" /\ phase' = "truncate" /\ table' = table /\ wal' = wal
      /\ buffer' = buffer /\ pending' = pending
      /\ snap' = [state |-> "whole", entries |-> all]
  BY DEF WriteSnapshot
<1>2. snap'.state = "whole" /\ snap'.entries = all
  BY <1>1
<1>3. TInv(table) /\ Part(all, table) /\ \A k \in Held(table) : \E i \in 1 .. Len(all) : all[i].key = k
  BY BaseFields, SnapshotIs
<1> HIDE DEF all
<1>4. \A k \in Key : Keeps(all, k, Contents(table)[k])
  BY <1>3, PartKeeps
<1>5. Written'
  BY <1>1, <1>2, <1>4 DEF DataInv, Writing, Written, Now
<1>6. Covering'
  <2>1. "whole" \notin {"none", "first"}
    BY SMT
  <2> QED
    BY <1>2, <2>1 DEF Covering
<1> QED
  BY <1>1, <1>5, <1>6, SMT DEF DataInv

\* Truncating the log keeps DataInv: the snapshot has all contents.
LEMMA DataTruncate ==
  ASSUME BaseInv, DataInv, TruncateWal
  PROVE  DataInv'
<1> USE Zenon
<1>1. /\ phase = "truncate" /\ phase' = "serving" /\ wal' = << >> /\ buffer' = << >>
      /\ UNCHANGED <<table, snap, crashes, pending, cut>>
  BY DEF TruncateWal
<1>2. /\ pending = <<Contents(table)>> /\ snap.state = "whole"
      /\ \A k \in Key : Keeps(snap.entries, k, Contents(table)[k])
  BY <1>1 DEF DataInv, Written, Now
<1>3. Restores(snap.entries, << >>, Contents(table))
  BY <1>2, RestoresAgrees
<1>4. << >> \in Files
  BY SMT DEF Files
<1>5. Backed(snap.entries, << >>, << >>, <<Contents(table)>>, Contents(table))
  BY <1>3, <1>4, BackedEmpty
<1>6. Serving'
  BY <1>1, <1>2, <1>5 DEF Serving
<1>7. Covering'
  <2>1. "whole" \notin {"none", "first"}
    BY SMT
  <2> QED
    BY <1>1, <1>2, <2>1 DEF Covering
<1> QED
  BY <1>1, <1>6, <1>7, SMT DEF DataInv

\* Closing flushes what was buffered, which keeps DataInv.
LEMMA DataClose ==
  ASSUME BaseInv, DataInv, Close
  PROVE  DataInv'
<1> USE Zenon
<1>1. /\ phase = "serving" /\ phase' = "down" /\ Flushed /\ pending' = <<Contents(table)>>
      /\ UNCHANGED <<batch, snap, crashes, cut>>
  BY DEF Close, Flushed
<1>2. ~cut'
  BY <1>1, SMT DEF BaseInv
<1>3. /\ Sound(wal') => Restores(snap.entries, wal', Contents(table))
      /\ Extending(wal', wal)
  BY <1>1, DataFlushed
<1>4. 1 \in 1 .. Len(pending') /\ pending'[1] = Contents(table)
  BY <1>1, SMT
<1>5. Down'
  BY <1>1, <1>2, <1>3, <1>4 DEF Down
<1>6. Covering'
  BY <1>1, <1>3, CoveringKept
<1> QED
  BY <1>1, <1>5, <1>6, SMT DEF DataInv

\* A crash while operations are served.
LEMMA DataCrashServing ==
  ASSUME BaseInv, DataInv, NEW n \in Nat, NEW torn \in BOOLEAN, NEW m, Crash(n, torn, m),
         phase = "serving"
  PROVE  DataInv'
<1> USE Zenon
<1> DEFINE saved == wal \o SubSeq(buffer, 1, n)
<1>1. phase' = "down" /\ snap' = snap /\ cut' = FALSE /\ pending' = pending
  <2>1. "serving" # "snapshot"
    BY SMT
  <2> QED
    BY <2>1 DEF Crash
<1>2. /\ n \in 0 .. Len(buffer) /\ saved \in Files /\ (wal' = saved \/ wal' = Append(saved, Torn))
      /\ Extending(wal', wal)
  BY CrashFile
<1>3. /\ Sound(saved) => Restores(snap.entries, saved, pending[n + 1])
      /\ Len(pending) = Len(buffer) + 1
  BY <1>2 DEF DataInv, Serving, Backed
<1> HIDE DEF saved
<1>4. n + 1 \in 1 .. Len(pending)
  BY <1>2, <1>3, BaseFields, SMT
<1>5. ASSUME Sound(wal') PROVE Restores(snap.entries, wal', pending[n + 1])
  <2>1. CASE wal' = saved
    BY <1>3, <1>5, <2>1
  <2>2. CASE wal' = Append(saved, Torn)
    <3>1. Sound(saved)
      BY <1>2, <1>5, <2>2, SoundPrefix
    <3> QED
      BY <1>2, <1>3, <2>2, <3>1, RestoresTorn
  <2> QED
    BY <1>2, <2>1, <2>2
<1>6. Down'
  BY <1>1, <1>4, <1>5 DEF Down
<1>7. Covering'
  BY <1>1, <1>2, CoveringKept
<1> QED
  BY <1>1, <1>6, <1>7, SMT DEF DataInv

\* With an empty buffer and no operation going on, a crash leaves the file as it is.
LEMMA CrashEmpty ==
  ASSUME BaseInv, NEW n \in Nat, NEW torn \in BOOLEAN, NEW m, Crash(n, torn, m),
         buffer = << >>, phase # "serving"
  PROVE  wal' = wal
<1> USE Zenon
<1>1. wal \in Files /\ n <= Len(buffer) /\ (torn => n < Len(buffer))
  BY BaseFields DEF Crash, Tearable
<1>2. n = 0 /\ ~torn
  <2>1. Len(buffer) = 0
    BY SMT
  <2>2. n = 0
    BY <1>1, <2>1, SMT
  <2>3. ~(0 < 0)
    BY SMT
  <2> QED
    BY <1>1, <2>1, <2>2, <2>3
<1>3. wal' = wal \o SubSeq(buffer, 1, 0) \o << >>
  BY <1>2 DEF Crash
<1>4. wal \o SubSeq(buffer, 1, 0) = wal
  <2>1. buffer \in Seq(Whole) /\ 0 \in 0 .. Len(buffer)
    BY SMT
  <2> QED
    BY <1>1, <2>1, SavedIs
<1>5. wal \o << >> = wal
  <2> DEFINE T == Whole \union {Torn}
  <2>1. wal \in Seq(T)
    BY <1>1 DEF Files
  <2> HIDE DEF T
  <2> QED
    BY <2>1, SMT
<1> QED
  BY <1>3, <1>4, <1>5

\* A crash while a snapshot is written: a part of it is in the file.
LEMMA DataCrashWriting ==
  ASSUME BaseInv, DataInv, NEW n \in Nat, NEW torn \in BOOLEAN, NEW m \in Nat, Crash(n, torn, m),
         phase = "snapshot"
  PROVE  DataInv'
<1> USE Zenon
<1> DEFINE part == SubSeq(Listing(Pairs(table)), 1, m)
           c == Contents(table)
<1>1. /\ m <= table.entries /\ snap' = [snap EXCEPT !.entries = part] /\ phase' = "down"
      /\ (cut' <=> snap.state = "again") /\ pending' = pending
  BY DEF Crash
<1>2. /\ buffer = << >> /\ pending = <<c>> /\ snap.state \in {"first", "again"}
      /\ Sound(wal) => Agrees(wal, c)
      /\ Sound(wal) /\ snap.state = "first" => Restores(<< >>, wal, c)
  BY DEF DataInv, Writing, Now
<1>3. wal' = wal
  <2>1. phase # "serving"
    BY SMT
  <2> QED
    BY <1>2, <2>1, CrashEmpty
<1>4. TInv(table)
  BY BaseFields
<1>5. Part(part, table)
  <2> DEFINE all == Listing(Pairs(table))
  <2>1. Part(all, table) /\ Len(all) = table.entries
    BY <1>4, SnapshotIs
  <2>2. m \in 0 .. table.entries
    <3>1. table.entries \in Nat
      BY <1>4, TableFields DEF TInv
    <3> QED
      BY <1>1, <3>1, SMT
  <2> HIDE DEF all
  <2>3. Part(SubSeq(all, 1, m), table)
    BY <2>1, <2>2, PartPrefix
  <2> QED
    BY <2>3 DEF all
<1> HIDE DEF part
<1>6. snap'.entries = part /\ snap'.state = snap.state
  <2>1. snap \in [state : {"none", "first", "again", "whole"}, entries : Seq(KeyEntry)]
    BY DEF BaseInv
  <2> QED
    BY <1>1, <2>1, SMT
<1>7. 1 \in 1 .. Len(pending) /\ pending[1] = c /\ pending[Len(pending)] = c
  BY <1>2, SMT
<1>8. \A k \in Key : Keeps(part, k, c[k]) \/ Keeps(part, k, None)
  BY <1>4, <1>5, PartKeeps
<1>9. ASSUME Sound(wal), snap.state = "first", NEW k \in Key, Silent(wal, k)
      PROVE  k \notin Held(table)
  <2>1. c[k] = None
    <3>1. wal \in Files /\ Restores(<< >>, wal, c)
      BY <1>2, <1>9, BaseFields
    <3>2. Keeps(<< >>, k, c[k])
      BY <1>9, <3>1, TellsOnce DEF Restores
    <3>3. \A i : i \notin 1 .. Len(<< >>)
      BY SMT
    <3> QED
      BY <3>2, <3>3 DEF Keeps
  <2> QED
    BY <1>4, <2>1, ContentsIs
<1>10. ASSUME Sound(wal), snap.state = "first" PROVE Restores(part, wal, c)
  <2>1. Restores(<< >>, wal, c)
    BY <1>2, <1>10
  <2>2. \A k \in Key : Silent(wal, k) => Keeps(part, k, c[k])
    BY <1>4, <1>5, <1>9, <1>10, PartKeeps
  <2> QED
    BY <2>1, <2>2 DEF Restores
<1>11. Covering'
  <2>1. ASSUME Sound(wal), snap.state \in {"none", "first"}, NEW i \in 1 .. Len(part)
        PROVE  ~Silent(wal, part[i].key)
    <3>1. snap.state = "first"
      <4>1. "none" \notin {"first", "again"}
        BY SMT
      <4> QED
        BY <1>2, <2>1, <4>1
    <3>2. part[i].key \in Held(table)
      BY <1>5 DEF Part
    <3>3. part[i].key \in Key
      BY <3>2 DEF Held
    <3> QED
      BY <1>9, <2>1, <3>1, <3>2, <3>3
  <2> QED
    BY <1>3, <1>6, <2>1 DEF Covering
<1> HIDE DEF c
<1>12. Down'
  <2>1. ASSUME Sound(wal'), ~cut'
        PROVE  \E i \in 1 .. Len(pending') : Restores(snap'.entries, wal', pending'[i])
    <3>1. snap.state = "first" /\ Sound(wal)
      BY <1>1, <1>2, <1>3, <2>1
    <3>2. Restores(part, wal, c)
      BY <1>10, <3>1
    <3> QED
      BY <1>1, <1>3, <1>6, <1>7, <3>2
  <2>2. ASSUME Sound(wal'), cut'
        PROVE  /\ Agrees(wal', pending'[Len(pending')])
               /\ \A k \in Key : \/ Keeps(snap'.entries, k, pending'[Len(pending')][k])
                                 \/ Keeps(snap'.entries, k, None)
    <3>1. Agrees(wal, c)
      BY <1>2, <1>3, <2>2
    <3>2. pending'[Len(pending')] = c
      BY <1>1, <1>7
    <3> QED
      BY <1>3, <1>6, <1>8, <3>1, <3>2
  <2> QED
    BY <2>1, <2>2 DEF Down
<1> QED
  BY <1>1, <1>11, <1>12, SMT DEF DataInv

\* A crash between the snapshot and the truncation of the log.
LEMMA DataCrashWritten ==
  ASSUME BaseInv, DataInv, NEW n \in Nat, NEW torn \in BOOLEAN, NEW m, Crash(n, torn, m),
         phase = "truncate"
  PROVE  DataInv'
<1> USE Zenon
<1>1. phase' = "down" /\ snap' = snap /\ cut' = FALSE /\ pending' = pending
  <2>1. "truncate" # "snapshot"
    BY SMT
  <2> QED
    BY <2>1 DEF Crash
<1>2. /\ buffer = << >> /\ pending = <<Contents(table)>>
      /\ \A k \in Key : Keeps(snap.entries, k, Contents(table)[k])
      /\ Sound(wal) => Agrees(wal, Contents(table))
  BY DEF DataInv, Written, Now
<1>3. wal' = wal
  <2>1. phase # "serving"
    BY SMT
  <2> QED
    BY <1>2, <2>1, CrashEmpty
<1>4. Sound(wal) => Restores(snap.entries, wal, Contents(table))
  BY <1>2, RestoresAgrees
<1>5. 1 \in 1 .. Len(pending) /\ pending[1] = Contents(table)
  BY <1>2, SMT
<1>6. Down'
  BY <1>1, <1>3, <1>4, <1>5 DEF Down
<1>7. Covering'
  BY <1>1, <1>3 DEF DataInv, Covering
<1> QED
  BY <1>1, <1>6, <1>7, SMT DEF DataInv

\* What a restart finds in the files.
LEMMA Recovered ==
  ASSUME BaseInv, Roomy, Recover
  PROVE  TInv(table') /\ (Sound(wal) => Restores(snap.entries, wal, Contents(table')))
<1> USE Zenon
<1>1. PICK records \in Readings(wal) : table' \in Rebuilt(snap, records)
  BY DEF Recover
<1>2. wal \in Files /\ snap.entries \in Seq(KeyEntry)
  BY BaseFields
<1> QED
  BY <1>1, <1>2, RebuiltIs

\* A restart keeps DataInv: the table is what the files restore.
LEMMA DataRecover ==
  ASSUME BaseInv, DataInv, Roomy, Recover
  PROVE  DataInv'
<1> USE Zenon
<1>1. /\ phase' = "serving" /\ buffer' = << >> /\ pending' = <<Contents(table')>>
      /\ UNCHANGED <<wal, snap, crashes>>
  BY DEF Recover
<1>2. Sound(wal) => Restores(snap.entries, wal, Contents(table'))
  BY Recovered
<1>3. wal \in Files
  BY BaseFields
<1>4. Backed(snap.entries, wal, << >>, <<Contents(table')>>, Contents(table'))
  BY <1>2, <1>3, BackedEmpty
<1>5. Serving'
  BY <1>1, <1>4 DEF Serving
<1>6. Covering'
  BY <1>1 DEF DataInv, Covering
<1> QED
  BY <1>1, <1>5, <1>6, SMT DEF DataInv

\* DataInv holds when the process starts for the first time.
LEMMA DataInit == Init => DataInv
<1> USE Zenon
<1> SUFFICES ASSUME Init PROVE DataInv
  OBVIOUS
<1>1. /\ phase = "serving" /\ table = NewTable(Policy) /\ buffer = << >> /\ wal = << >>
      /\ snap.entries = << >> /\ pending = <<Contents(table)>>
  BY DEF Init
<1>2. << >> \in Files /\ \A i : i \notin 1 .. Len(<< >>)
  BY SMT DEF Files
<1>3. \A k \in Key : Keeps(<< >>, k, Contents(table)[k])
  BY <1>1, <1>2, NewTableFields DEF Keeps
<1>4. Restores(<< >>, << >>, Contents(table))
  BY <1>3, RestoresAgrees
<1>5. Backed(<< >>, << >>, << >>, <<Contents(table)>>, Contents(table))
  BY <1>2, <1>4, BackedEmpty
<1>6. Serving
  BY <1>1, <1>5 DEF Serving
<1>7. Covering
  BY <1>1, <1>2 DEF Covering
<1> QED
  BY <1>1, <1>6, <1>7, SMT DEF DataInv

\* DataInv is inductive with BaseInv if everything fits.
LEMMA DataNext ==
  ASSUME Roomy
  PROVE  BaseInv /\ DataInv /\ [Next]_vars => DataInv'
<1> USE Zenon
<1> SUFFICES ASSUME BaseInv, DataInv, [Next]_vars PROVE DataInv'
  OBVIOUS
<1>1. ASSUME NEW k \in Key, NEW v \in Value, Set(k, v) PROVE DataInv'
  <2> DEFINE x == [op |-> "SET", key |-> k, value |-> v, expiry |-> 0]
  <2>1. x \in Whole /\ x.key = k /\ Effect(x) = [value |-> v, expiry |-> 0]
    BY SMT DEF Whole, Effect
  <2>2. PICK r : /\ Apply(r) /\ Leaving(r.table, table, k, [value |-> v, expiry |-> 0])
                 /\ Roomy => r.log = <<x>>
    BY <1>1, SetApplies
  <2> HIDE DEF x
  <2> QED
    BY <2>1, <2>2, DataApply
<1>2. ASSUME NEW k \in Key, Delete(k) PROVE DataInv'
  <2> DEFINE x == [op |-> "DELETE", key |-> k]
  <2>1. x \in Whole /\ x.key = k /\ Effect(x) = None
    BY SMT DEF Whole, Effect
  <2>2. PICK r : Apply(r) /\ Leaving(r.table, table, k, None) /\ r.log = <<x>>
    BY <1>2, DeleteApplies
  <2> HIDE DEF x
  <2> QED
    BY <2>1, <2>2, DataApply
<1>3. ASSUME NEW k \in Key, Get(k) PROVE DataInv'
  <2>1. /\ phase = "serving" /\ table' = Accessed(table, k) /\ Found(table, k)
        /\ UNCHANGED <<phase, buffer, batch, wal, snap, crashes, pending, cut>>
    BY <1>3 DEF Get
  <2>2. Contents(table') = Contents(table)
    BY <2>1, AccessSeen, BaseFields
  <2>3. Serving'
    BY <2>1, <2>2 DEF DataInv, Serving
  <2>4. Covering'
    BY <2>1 DEF DataInv, Covering
  <2> QED
    BY <2>1, <2>3, <2>4, SMT DEF DataInv
<1>4. CASE Flush
  <2>1. /\ phase = "serving" /\ Flushed /\ UNCHANGED <<phase, table, batch, snap, crashes, cut>>
        /\ buffer' = << >> /\ pending' = <<Contents(table)>>
    BY <1>4 DEF Flush, Flushed
  <2>2. /\ Sound(wal') => Restores(snap.entries, wal', Contents(table))
        /\ wal' \in Files /\ Extending(wal', wal)
    BY <2>1, DataFlushed
  <2>3. Backed(snap.entries, wal', << >>, <<Contents(table)>>, Contents(table))
    BY <2>2, BackedEmpty
  <2>4. Serving'
    BY <2>1, <2>3 DEF Serving
  <2>5. Covering'
    BY <2>1, <2>2, CoveringKept
  <2> QED
    BY <2>1, <2>4, <2>5, SMT DEF DataInv
<1>5. ASSUME NEW n \in 0 .. MaxLog, NEW m \in 0 .. Cardinality(Key), NEW torn \in BOOLEAN,
             Crash(n, torn, m)
      PROVE  DataInv'
  <2>1. n \in Nat /\ m \in Nat
    BY SMT
  <2>2. phase \in {"serving", "snapshot", "truncate"}
    BY <1>5 DEF Crash, BaseInv
  <2> QED
    BY <1>5, <2>1, <2>2, DataCrashServing, DataCrashWriting, DataCrashWritten
<1>6. CASE UNCHANGED vars
  BY <1>6 DEF vars, DataInv, Serving, Writing, Written, Down, Covering, Now
<1> QED
  BY <1>1, <1>2, <1>3, <1>4, <1>5, <1>6, DataCheckpoint, DataSnapshot, DataTruncate, DataClose,
     DataRecover DEF Next

-----------------------------------------------------------------------------
(* Theorems.                                                               *)

\* Only Recover leaves "down".
LEMMA RestartIs ==
  ASSUME Next, Restarts
  PROVE  Recover
  BY SMT DEF Next, Restarts, Set, Apply, Delete, Get, Flush, BeginSnapshot, WriteSnapshot,
             TruncateWal, Close, Crash

\* Write-ahead logging: where nothing has to be evicted, the table that serves
\* operations holds exactly what replay_wal over load_snapshot would give, after any
\* checkpoints, crashes, torn records and restarts, unless records lie behind a torn one.
THEOREM LogCompletes ==
  ASSUME Roomy
  PROVE  Spec => []LogComplete
<1>1. BaseInv /\ DataInv => LogComplete
  <2> USE Zenon
  <2> SUFFICES ASSUME BaseInv, DataInv, phase = "serving", Sound(wal \o buffer),
                      NEW records \in Readings(wal \o buffer), NEW t \in Rebuilt(snap, records)
               PROVE  Contents(t) = Contents(table)
    BY DEF LogComplete
  <2> DEFINE file == wal \o buffer
  <2>1. /\ wal \in Files /\ buffer \in Seq(Whole) /\ buffer \in Files /\ TInv(table)
        /\ snap.entries \in Seq(KeyEntry)
    BY BaseFields
  <2>2. file \in Files
    BY <2>1, ConcatExtends DEF Extending
  <2>3. Restores(snap.entries, file, Contents(table))
    BY <2>1, BackedLast DEF DataInv, Serving
  <2> HIDE DEF file
  <2>4. TInv(t) /\ Restores(snap.entries, file, Contents(t))
    <3>1. Sound(file) /\ records \in Readings(file)
      BY DEF file
    <3> QED
      BY <2>1, <2>2, <3>1, RebuiltIs
  <2>5. Contents(t) \in [Key -> Items] /\ Contents(table) \in [Key -> Items]
    BY <2>1, <2>4, ContentsIs
  <2> QED
    BY <2>1, <2>2, <2>3, <2>4, <2>5, RestoresSame
<1> QED
  BY <1>1, BaseInit, BaseNext, DataInit, DataNext, PTL DEF Spec

\* Where nothing has to be evicted, a restart restores the contents at one moment since
\* the last flush, unless a snapshot that replaced another was cut short or records lie
\* behind a torn one: no flushed operation is lost, none applied without those before it.
THEOREM PrefixRecovered ==
  ASSUME Roomy
  PROVE  Spec => RecoversPrefix
<1>1. BaseInv /\ DataInv /\ [Next]_vars =>
        [Restarts /\ Sound(wal) /\ ~cut => Contents(table') \in Range(pending)]_vars
  <2> USE Zenon
  <2> SUFFICES ASSUME BaseInv, DataInv, Next, Restarts, Sound(wal), ~cut
               PROVE  Contents(table') \in Range(pending)
    OBVIOUS
  <2>1. Recover /\ phase = "down"
    BY RestartIs DEF Restarts
  <2>2. TInv(table') /\ Restores(snap.entries, wal, Contents(table'))
    BY <2>1, Recovered
  <2>3. PICK i \in 1 .. Len(pending) : Restores(snap.entries, wal, pending[i])
    BY <2>1 DEF DataInv, Down
  <2>4. wal \in Files /\ snap.entries \in Seq(KeyEntry)
    BY BaseFields
  <2> DEFINE c == Contents(table')
             p == pending[i]
  <2>5. c \in [Key -> Items]
    BY <2>2, ContentsIs
  <2>6. p \in [Key -> Items] /\ i \in DOMAIN pending
    BY <2>3, SMT DEF BaseInv
  <2> HIDE DEF c
  <2>7. c = p
    <3> HIDE DEF p
    <3>1. Restores(snap.entries, wal, c) /\ Restores(snap.entries, wal, p)
      BY <2>2, <2>3 DEF c, p
    <3> QED
      BY <2>4, <2>5, <2>6, <3>1, RestoresSame
  <2>8. c \in Range(pending)
    BY <2>6, <2>7 DEF Range
  <2> QED
    BY <2>8 DEF c
<1> QED
  BY <1>1, BaseInit, BaseNext, DataInit, DataNext, PTL DEF Spec, RecoversPrefix

\* Where nothing has to be evicted, a crash while a snapshot is overwritten loses at most
\* keys that the log does not mention, and brings nothing back: a restart finds of every
\* other key what was last served.
THEOREM SnapshotLossBounded ==
  ASSUME Roomy
  PROVE  Spec => SnapshotLoss
<1>1. BaseInv /\ DataInv /\ [Next]_vars =>
        [Restarts /\ Sound(wal) /\ cut =>
           \A k \in Key :
             \/ Contents(table')[k] = Back(pending)[k]
             \/ /\ Contents(table')[k] = None
                /\ \A i \in 1 .. Len(wal) : wal[i] # Torn => wal[i].key # k]_vars
  <2> USE Zenon
  <2> SUFFICES ASSUME BaseInv, DataInv, Next, Restarts, Sound(wal), cut, NEW k \in Key
               PROVE  \/ Contents(table')[k] = Back(pending)[k]
                      \/ /\ Contents(table')[k] = None
                         /\ \A i \in 1 .. Len(wal) : wal[i] # Torn => wal[i].key # k
    OBVIOUS
  <2> DEFINE c == Contents(table')
             m == pending[Len(pending)]
  <2>1. Recover /\ phase = "down"
    BY RestartIs DEF Restarts
  <2>2. Tells(wal, k, c[k]) \/ (Silent(wal, k) /\ Keeps(snap.entries, k, c[k]))
    BY <2>1, Recovered DEF Restores
  <2>3. /\ Tells(wal, k, m[k]) \/ Silent(wal, k)
        /\ Keeps(snap.entries, k, m[k]) \/ Keeps(snap.entries, k, None)
    BY <2>1 DEF DataInv, Down, Agrees
  <2>4. wal \in Files /\ snap.entries \in Seq(KeyEntry)
    BY BaseFields
  <2>5. Back(pending) = m
    BY DEF Back
  <2> HIDE DEF c, m
  <2>6. CASE Tells(wal, k, c[k])
    <3>1. c[k] = m[k]
      BY <2>3, <2>4, <2>6, TellsOnce
    <3> QED
      BY <2>5, <3>1 DEF c
  <2>7. CASE Silent(wal, k) /\ Keeps(snap.entries, k, c[k])
    <3>1. c[k] = m[k] \/ c[k] = None
      BY <2>3, <2>4, <2>7, KeepsOnce
    <3>2. \A i \in 1 .. Len(wal) : wal[i] # Torn => wal[i] \in Whole
      BY <2>4, SMT DEF Files
    <3> QED
      BY <2>5, <2>7, <3>1, <3>2 DEF c, Silent
  <2> QED
    BY <2>2, <2>6, <2>7
<1> QED
  BY <1>1, BaseInit, BaseNext, DataInit, DataNext, PTL DEF Spec, SnapshotLoss

=============================================================================
