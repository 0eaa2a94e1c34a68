----------------------------- MODULE HeapProofs -----------------------------
(***************************************************************************)
(* Proofs about Heap, for every size of the heap, of its headers and of    *)
(* the requests, and every number of threads: the chain of blocks stays    *)
(* whole, free neighbours are merged, lfree is the lowest free block, a    *)
(* block belongs to the thread it was given to until that thread frees it, *)
(* and the statistics add up.                                              *)
(***************************************************************************)
EXTENDS Heap, ListLemmas, FiniteSetTheorems, TLAPS

-----------------------------------------------------------------------------
(***************************************************************************)
(* The chain, as a predicate of the function alone: plug_holes changes it  *)
(* twice within one step.                                                  *)
(***************************************************************************)

Header == [used : BOOLEAN, next : Int, prev : Int]

\* next and prev lead from each block to the one behind and back; the end of
\* the heap is a used block that leads to itself.
Linked(m) ==
    /\ m \in [DOMAIN m -> Header]
    /\ DOMAIN m \subseteq 0 .. heap_end /\ 0 \in DOMAIN m /\ heap_end \in DOMAIN m
    /\ m[heap_end].used /\ m[heap_end].next = heap_end
    /\ m[heap_end].prev \in 0 .. heap_end
    /\ \A p \in DOMAIN m \ {heap_end} :
          /\ m[p].next \in DOMAIN m /\ m[p].next > p + HeaderSize
          /\ \A q \in DOMAIN m : ~(p < q /\ q < m[p].next)
          /\ m[p].next # heap_end => m[m[p].next].prev = p
          /\ p = 0 => m[p].prev = 0
          /\ p # 0 => /\ m[p].prev \in DOMAIN m /\ m[p].prev < p
                      /\ m[m[p].prev].next = p

\* r is the chain m without the header n behind p.
Merged(m, p, n, r) ==
    /\ DOMAIN r = DOMAIN m \ {n}
    /\ r \in [DOMAIN r -> Header]
    /\ \A q \in DOMAIN r :
          /\ r[q].used <=> m[q].used
          /\ r[q].next = IF q = p THEN m[n].next ELSE m[q].next
          /\ r[q].prev = IF q = m[n].next THEN p ELSE m[q].prev

\* r is the chain m with a new header e for the free rest of block p.
CutInTwo(m, p, e, used, r) ==
    /\ e \notin DOMAIN m /\ p < e /\ e + HeaderSize < m[p].next
    /\ DOMAIN r = DOMAIN m \cup {e}
    /\ r \in [DOMAIN r -> Header]
    /\ ~r[e].used /\ r[e].next = m[p].next /\ r[e].prev = p
    /\ r[p].used <=> used
    /\ r[p].next = e /\ r[p].prev = m[p].prev
    /\ \A q \in DOMAIN m \ {p} :
          /\ r[q].used <=> m[q].used
          /\ r[q].next = m[q].next
          /\ r[q].prev = IF q = m[p].next /\ q # heap_end THEN e ELSE m[q].prev

\* r is the chain m with another flag at p.
Flagged(m, p, used, r) ==
    /\ DOMAIN r = DOMAIN m
    /\ r \in [DOMAIN r -> Header]
    /\ r[p].used <=> used
    /\ \A q \in DOMAIN m : /\ q # p => (r[q].used <=> m[q].used)
                           /\ r[q].next = m[q].next /\ r[q].prev = m[q].prev

\* What Merge does to the fields.
LEMMA MergeFields ==
    ASSUME NEW m, Linked(m), NEW p \in DOMAIN m \ {heap_end},
           NEW n, n = m[p].next, n # heap_end, NEW r, r = Merge(m, p, n)
    PROVE  Merged(m, p, n, r)
<1>1. n \in DOMAIN m \ {heap_end} /\ p # n /\ m[n].next # p /\ m[n].next # n /\ p \in Int
  BY HeaderAssumption, MemSizeAssumption DEF Linked, heap_end
<1>2. DOMAIN r = DOMAIN m \ {n}
  BY DEF Merge
<1>3. r[p] = [m[p] EXCEPT !.next = m[n].next]
  BY <1>1 DEF Merge
<1>4. \A q \in DOMAIN r \ {p} : r[q] = IF q = m[n].next THEN [m[q] EXCEPT !.prev = p] ELSE m[q]
  BY <1>1, <1>2 DEF Merge
<1>5. \A q \in DOMAIN m : m[q] \in Header
  BY DEF Linked
<1>6. ASSUME NEW q \in DOMAIN r
      PROVE  /\ r[q] \in Header
             /\ (r[q].used <=> m[q].used)
             /\ r[q].next = IF q = p THEN m[n].next ELSE m[q].next
             /\ r[q].prev = IF q = m[n].next THEN p ELSE m[q].prev
  <2>1. m[q] \in Header /\ m[n].next \in Int
    BY <1>1, <1>2, <1>5 DEF Header
  <2>2. CASE q = p
    BY <1>1, <1>3, <2>1, <2>2 DEF Header
  <2>3. CASE q # p /\ q = m[n].next
    BY <1>1, <1>4, <2>1, <2>3 DEF Header
  <2>4. CASE q # p /\ q # m[n].next
    BY <1>4, <2>1, <2>4
  <2> QED
    BY <2>2, <2>3, <2>4
<1>7. r \in [DOMAIN r -> Header]
  BY <1>6 DEF Merge
<1> QED
  BY <1>2, <1>6, <1>7 DEF Merged

\* A header is taken out of the chain.
LEMMA MergeLinked ==
    ASSUME NEW m, Linked(m), NEW p \in DOMAIN m \ {heap_end},
           NEW n, n = m[p].next, n # heap_end, NEW r, r = Merge(m, p, n)
    PROVE  Linked(r)
<1>1. /\ DOMAIN r = DOMAIN m \ {n}
      /\ r \in [DOMAIN r -> Header]
      /\ \A q \in DOMAIN r :
            /\ r[q].used <=> m[q].used
            /\ r[q].next = IF q = p THEN m[n].next ELSE m[q].next
            /\ r[q].prev = IF q = m[n].next THEN p ELSE m[q].prev
  <2>1. Merged(m, p, n, r)
    BY MergeFields
  <2> QED
    BY <2>1, Zenon DEF Merged
<1>2. heap_end \in Nat /\ HeaderSize \in Nat \ {0} /\ DOMAIN m \subseteq Int
  BY HeaderAssumption, MemSizeAssumption DEF heap_end, Linked
<1>3. n \in DOMAIN m \ {0, heap_end} /\ p < n /\ n < m[n].next /\ m[n].next \in DOMAIN m /\ m[n].prev = p
  BY <1>2 DEF Linked
<1>4. DOMAIN r \subseteq 0 .. heap_end /\ 0 \in DOMAIN r /\ heap_end \in DOMAIN r /\ p \in DOMAIN r
  BY <1>1, <1>2, <1>3 DEF Linked
<1>5. r[heap_end].used /\ r[heap_end].next = heap_end /\ r[heap_end].prev \in 0 .. heap_end
  BY <1>1, <1>2, <1>3, <1>4 DEF Linked
<1>6. ASSUME NEW q \in DOMAIN r \ {heap_end}
      PROVE  /\ r[q].next \in DOMAIN r /\ r[q].next > q + HeaderSize
             /\ \A x \in DOMAIN r : ~(q < x /\ x < r[q].next)
             /\ r[q].next # heap_end => r[r[q].next].prev = q
             /\ q = 0 => r[q].prev = 0
             /\ q # 0 => /\ r[q].prev \in DOMAIN r /\ r[q].prev < q
                         /\ r[r[q].prev].next = q
  <2>1. q # p => m[q].next # n
    BY <1>1, <1>3 DEF Linked
  <2>2. r[q].next \in DOMAIN r /\ r[q].next > q + HeaderSize
    BY <1>1, <1>2, <1>3, <2>1 DEF Linked
  <2>3. \A x \in DOMAIN r : ~(q < x /\ x < r[q].next)
    <3>1. CASE q = p
      BY <1>1, <1>2, <1>3, <3>1 DEF Linked
    <3>2. CASE q # p
      <4>1. r[q].next = m[q].next
        BY <1>1, <3>2
      <4> QED
        BY <1>1, <4>1 DEF Linked
    <3> QED
      BY <3>1, <3>2
  <2>4. r[q].next # heap_end => r[r[q].next].prev = q
    BY <1>1, <1>2, <1>3, <2>1, <2>2 DEF Linked
  <2>5. q = 0 => r[q].prev = 0
    BY <1>1, <1>2, <1>3 DEF Linked
  <2>6. q # 0 => r[q].prev \in DOMAIN r /\ r[q].prev < q /\ r[r[q].prev].next = q
    BY <1>1, <1>2, <1>3, <1>4 DEF Linked
  <2> QED
    BY <2>2, <2>3, <2>4, <2>5, <2>6
<1> QED
  BY <1>1, <1>4, <1>5, <1>6 DEF Linked

\* What SplitAt does to the fields: a block of size at p, and a free one behind.
LEMMA SplitFields ==
    ASSUME Linked(mem), NEW p \in Blocks \ {heap_end}, NEW size \in Nat \ {0},
           NEW used \in BOOLEAN, Room(p) > size + HeaderSize,
           NEW e, e = p + HeaderSize + size, NEW r, r = SplitAt(p, size, used)
    PROVE  CutInTwo(mem, p, e, used, r)
<1>1. heap_end \in Nat /\ HeaderSize \in Nat \ {0} /\ Blocks \subseteq Int /\ mem[p].next \in Blocks
  BY HeaderAssumption, MemSizeAssumption DEF heap_end, Linked, Blocks
<1>2. e \notin Blocks /\ p < e /\ e + HeaderSize < mem[p].next /\ e \in Int
  BY <1>1 DEF Linked, Blocks, Room
<1>3. DOMAIN r = Blocks \cup {e}
  BY DEF SplitAt
<1> DEFINE A == [mem[p] EXCEPT !.next = e, !.used = used]
           B == [used |-> FALSE, next |-> mem[p].next, prev |-> p]
           C(q) == [mem[q] EXCEPT !.prev = e]
<1>4. r = [q \in Blocks \cup {e} |->
             CASE q = p -> A [] q = e -> B
               [] q = mem[p].next /\ q # heap_end -> C(q)
               [] OTHER -> mem[q]]
  BY DEF SplitAt
<1>5. A \in Header /\ (A.used <=> used) /\ A.next = e /\ A.prev = mem[p].prev
  <2>1. mem[p] \in Header
    BY DEF Linked, Blocks
  <2>2. A.next = e /\ A.prev = mem[p].prev /\ A.prev \in Int
    BY <2>1 DEF Header
  <2>3. DOMAIN A = {"used", "next", "prev"}
    BY <2>1 DEF Header
  <2>4. (A.used <=> used)
    BY <2>1 DEF Header
  <2>5. A \in Header
    BY <1>2, <2>1 DEF Header
  <2> QED
    BY <2>2, <2>4, <2>5
<1>6. B \in Header /\ ~B.used /\ B.next = mem[p].next /\ B.prev = p
  <2>1. mem[p].next \in Int /\ p \in Int
    BY <1>1
  <2> QED
    BY <2>1 DEF Header
<1>7. \A q \in Blocks : /\ mem[q] \in Header
                        /\ C(q) \in Header /\ (C(q).used <=> mem[q].used)
                        /\ C(q).next = mem[q].next /\ C(q).prev = e
  BY <1>2 DEF Linked, Blocks, Header
<1> HIDE DEF A, B, C
<1>8. /\ r[p] \in Header
      /\ (r[p].used <=> used) /\ r[p].next = e /\ r[p].prev = mem[p].prev
  <2>1. r[p] = A
    BY <1>1, <1>2, <1>4
  <2> QED
    BY <1>5, <2>1, Zenon
<1>9. /\ r[e] \in Header
      /\ ~r[e].used /\ r[e].next = mem[p].next /\ r[e].prev = p
  <2>1. r[e] = B
    BY <1>1, <1>2, <1>4
  <2> QED
    BY <1>6, <2>1, Zenon
<1>10. ASSUME NEW q \in Blocks \ {p}
       PROVE  /\ r[q] \in Header
              /\ (r[q].used <=> mem[q].used)
              /\ r[q].next = mem[q].next
              /\ r[q].prev = IF q = mem[p].next /\ q # heap_end THEN e ELSE mem[q].prev
  <2>1. mem[q] \in Header
    BY <1>7
  <2>2. CASE q = mem[p].next /\ q # heap_end
    BY <1>2, <1>4, <1>7, <2>1, <2>2
  <2>3. CASE ~(q = mem[p].next /\ q # heap_end)
    BY <1>2, <1>4, <2>1, <2>3
  <2> QED
    BY <2>2, <2>3
<1>11. r \in [DOMAIN r -> Header]
  BY <1>3, <1>4, <1>8, <1>9, <1>10
<1> QED
  BY <1>2, <1>3, <1>8, <1>9, <1>10, <1>11 DEF CutInTwo, Blocks

\* A block is cut in two.
LEMMA SplitLinked ==
    ASSUME Linked(mem), NEW p \in Blocks \ {heap_end}, NEW size \in Nat \ {0},
           NEW used \in BOOLEAN, Room(p) > size + HeaderSize,
           NEW r, r = SplitAt(p, size, used)
    PROVE  Linked(r)
<1> DEFINE e == p + HeaderSize + size
<1>1. /\ e \notin Blocks /\ p < e /\ e + HeaderSize < mem[p].next
      /\ DOMAIN r = Blocks \cup {e}
      /\ r \in [DOMAIN r -> Header]
      /\ ~r[e].used /\ r[e].next = mem[p].next /\ r[e].prev = p
      /\ (r[p].used <=> used) /\ r[p].next = e /\ r[p].prev = mem[p].prev
      /\ \A q \in Blocks \ {p} :
            /\ (r[q].used <=> mem[q].used)
            /\ r[q].next = mem[q].next
            /\ r[q].prev = IF q = mem[p].next /\ q # heap_end THEN e ELSE mem[q].prev
  <2>1. CutInTwo(mem, p, e, used, r)
    BY SplitFields
  <2> HIDE DEF e
  <2> QED
    BY <2>1, Zenon DEF CutInTwo, Blocks
<1>2. /\ heap_end \in Nat /\ HeaderSize \in Nat \ {0} /\ Blocks \subseteq 0 .. heap_end
      /\ 0 \in Blocks /\ heap_end \in Blocks /\ mem[p].next \in Blocks /\ p \in Int
      /\ size \in Int
  BY HeaderAssumption, MemSizeAssumption DEF heap_end, Linked, Blocks
<1>3. e \in 1 .. heap_end - 1 /\ e > p + HeaderSize
  BY <1>1, <1>2
<1> HIDE DEF e
<1>4. DOMAIN r \subseteq 0 .. heap_end /\ 0 \in DOMAIN r /\ heap_end \in DOMAIN r
  BY <1>1, <1>2, <1>3
<1>5. r[heap_end].used /\ r[heap_end].next = heap_end /\ r[heap_end].prev \in 0 .. heap_end
  BY <1>1, <1>2 DEF Linked
<1>6. ASSUME NEW q \in DOMAIN r \ {heap_end}
      PROVE  /\ r[q].next \in DOMAIN r /\ r[q].next > q + HeaderSize
             /\ \A x \in DOMAIN r : ~(q < x /\ x < r[q].next)
             /\ r[q].next # heap_end => r[r[q].next].prev = q
             /\ q = 0 => r[q].prev = 0
             /\ q # 0 => /\ r[q].prev \in DOMAIN r /\ r[q].prev < q
                         /\ r[r[q].prev].next = q
  <2>0. q \in Int /\ q \in Blocks \cup {e} /\ mem[p].next \in Int /\ e \in Int
    BY <1>1, <1>2, <1>3
  <2>1. q \in Blocks \ {p} => mem[q].next # mem[p].next /\ mem[q].next \in Blocks
    <3>1. ASSUME q \in Blocks \ {p}, mem[q].next = mem[p].next PROVE FALSE
      BY <1>2, <2>0, <3>1 DEF Linked, Blocks
    <3> QED
      BY <3>1 DEF Linked, Blocks
  <2>2. r[q].next \in DOMAIN r /\ r[q].next > q + HeaderSize
    BY <1>1, <1>2, <1>3, <2>0, <2>1 DEF Linked, Blocks
  <2>3. \A x \in DOMAIN r : ~(q < x /\ x < r[q].next)
    <3>1. CASE q = e
      BY <1>1, <1>2, <2>0, <3>1 DEF Linked, Blocks
    <3>2. CASE q = p
      BY <1>1, <1>2, <2>0, <3>2 DEF Linked, Blocks
    <3>3. CASE q \in Blocks \ {p}
      <4>1. r[q].next = mem[q].next /\ mem[q].next \in Int /\ q # heap_end
        BY <1>1, <1>2, <2>1, <3>3
      <4>2. \A x \in Blocks : ~(q < x /\ x < mem[q].next)
        BY <3>3, <4>1 DEF Linked, Blocks
      <4>3. ~(q < e /\ e < mem[q].next)
        BY <1>1, <1>2, <2>0, <3>3, <4>1, <4>2 DEF Linked, Blocks
      <4> QED
        BY <1>1, <4>1, <4>2, <4>3
    <3> QED
      BY <2>0, <3>1, <3>2, <3>3
  <2>4. r[q].next # heap_end => r[r[q].next].prev = q
    <3>1. CASE q = e
      BY <1>1, <1>2, <2>0, <3>1
    <3>2. CASE q = p
      BY <1>1, <1>2, <2>0, <3>2
    <3>3. CASE q \in Blocks \ {p}
      <4>1. r[q].next = mem[q].next /\ mem[q].next # mem[p].next /\ mem[q].next \in Blocks
        BY <1>1, <2>1, <3>3
      <4>2. CASE mem[q].next = p
        BY <1>1, <3>3, <4>1, <4>2 DEF Linked, Blocks
      <4>3. CASE mem[q].next # p
        BY <1>1, <3>3, <4>1, <4>3 DEF Linked, Blocks
      <4> QED
        BY <4>2, <4>3
    <3> QED
      BY <2>0, <3>1, <3>2, <3>3
  <2>5. q = 0 => r[q].prev = 0
    BY <1>1, <1>2, <1>3, <2>0 DEF Linked, Blocks
  <2>6. q # 0 => r[q].prev \in DOMAIN r /\ r[q].prev < q /\ r[r[q].prev].next = q
    <3>1. CASE q = e
      BY <1>1, <1>2, <2>0, <3>1
    <3>2. CASE q = mem[p].next
      BY <1>1, <1>2, <2>0, <3>2
    <3>3. CASE q \in Blocks /\ q # mem[p].next
      <4>1. q # 0 => mem[q].prev \in Blocks /\ mem[q].prev < q /\ mem[mem[q].prev].next = q
        BY <3>3 DEF Linked, Blocks
      <4>2. r[q].prev = mem[q].prev
        BY <1>1, <3>3
      <4>3. q # 0 => mem[q].prev # p
        BY <3>3, <4>1
      <4> QED
        BY <1>1, <4>1, <4>2, <4>3
    <3> QED
      BY <2>0, <3>1, <3>2, <3>3
  <2> QED
    BY <2>2, <2>3, <2>4, <2>5, <2>6
<1> QED
  BY <1>1, <1>4, <1>5, <1>6 DEF Linked

\* The flag of a block changes, and nothing else does.
LEMMA FlagLinked ==
    ASSUME NEW m, Linked(m), NEW p \in DOMAIN m \ {heap_end}, NEW used \in BOOLEAN,
           NEW r, r = [m EXCEPT ![p].used = used]
    PROVE  /\ Linked(r)
           /\ Flagged(m, p, used, r)
<1>1. DOMAIN r = DOMAIN m
  OBVIOUS
<1>2. r[p] = [m[p] EXCEPT !.used = used] /\ \A q \in DOMAIN m \ {p} : r[q] = m[q]
  OBVIOUS
<1>3. \A q \in DOMAIN m : m[q] \in Header
  BY DEF Linked
<1>4. r[p] \in Header /\ (r[p].used <=> used) /\ r[p].next = m[p].next /\ r[p].prev = m[p].prev
  BY <1>2, <1>3 DEF Header
<1>5. \A q \in DOMAIN m : /\ q # p => (r[q].used <=> m[q].used)
                          /\ r[q].next = m[q].next /\ r[q].prev = m[q].prev
  BY <1>2, <1>4
<1>6. r \in [DOMAIN r -> Header]
  BY <1>1, <1>2, <1>3, <1>4
<1>7. Linked(r)
  BY <1>1, <1>4, <1>5, <1>6 DEF Linked
<1> QED
  BY <1>1, <1>4, <1>5, <1>6, <1>7 DEF Flagged

-----------------------------------------------------------------------------
(***************************************************************************)
(* The statistics.  The sum over the used blocks is written as the sums of *)
(* what is used below each block, which next adds up.                      *)
(***************************************************************************)
UsedBelow(U, m) ==
    /\ U \in [DOMAIN m -> Nat]
    /\ U[0] = 0
    /\ \A p \in DOMAIN m \ {heap_end} :
          U[m[p].next] = U[p] + (IF m[p].used THEN m[p].next - p ELSE 0)
    /\ \A p, q \in DOMAIN m : p <= q => U[p] <= U[q] /\ U[q] - U[p] <= q - p

\* The used blocks of the chain m and their headers take `total`.
UsedTotal(m, total) == \E U : UsedBelow(U, m) /\ U[heap_end] = total

\* The total lies within the heap, and no used block takes more.
LEMMA TotalBounds ==
    ASSUME NEW m, Linked(m), NEW total, UsedTotal(m, total)
    PROVE  /\ total \in 0 .. heap_end
           /\ \A p \in DOMAIN m \ {heap_end} :
                 IF m[p].used THEN m[p].next - p <= total
                 ELSE total + (m[p].next - p) <= heap_end
<1>1. PICK U : UsedBelow(U, m) /\ U[heap_end] = total
  BY DEF UsedTotal
<1>2. heap_end \in Nat /\ DOMAIN m \subseteq 0 .. heap_end /\ 0 \in DOMAIN m /\ heap_end \in DOMAIN m
  BY HeaderAssumption, MemSizeAssumption DEF heap_end, Linked
<1>3. total \in 0 .. heap_end
  BY <1>1, <1>2 DEF UsedBelow
<1>4. ASSUME NEW p \in DOMAIN m \ {heap_end}
      PROVE  IF m[p].used THEN m[p].next - p <= total
             ELSE total + (m[p].next - p) <= heap_end
  <2>1. m[p].next \in DOMAIN m /\ m[p].next \in 0 .. heap_end /\ p \in 0 .. heap_end
    BY <1>2 DEF Linked
  <2>2. /\ U[p] \in Nat /\ U[m[p].next] \in Nat /\ U[p] <= p
        /\ U[m[p].next] <= total /\ total - U[m[p].next] <= heap_end - m[p].next
    BY <1>1, <1>2, <2>1 DEF UsedBelow
  <2>3. U[m[p].next] = U[p] + (IF m[p].used THEN m[p].next - p ELSE 0)
    BY <1>1 DEF UsedBelow
  <2> QED
    BY <1>2, <1>3, <2>1, <2>2, <2>3
<1> QED
  BY <1>3, <1>4

\* Merging two free blocks does not change the total.
LEMMA MergeTotal ==
    ASSUME NEW m, Linked(m), NEW p \in DOMAIN m \ {heap_end},
           NEW n, n = m[p].next, n # heap_end, NEW r, r = Merge(m, p, n),
           ~m[p].used, ~m[n].used, NEW total, UsedTotal(m, total)
    PROVE  UsedTotal(r, total)
<1>1. PICK U : UsedBelow(U, m) /\ U[heap_end] = total
  BY DEF UsedTotal
<1>2. /\ DOMAIN r = DOMAIN m \ {n}
      /\ \A q \in DOMAIN r : /\ r[q].used <=> m[q].used
                             /\ r[q].next = IF q = p THEN m[n].next ELSE m[q].next
  <2>1. Merged(m, p, n, r)
    BY MergeFields
  <2> QED
    BY <2>1, Zenon DEF Merged
<1>3. /\ heap_end \in Nat /\ HeaderSize \in Nat \ {0} /\ DOMAIN m \subseteq Int
      /\ 0 \in DOMAIN m /\ heap_end \in DOMAIN m
  BY HeaderAssumption, MemSizeAssumption DEF heap_end, Linked
<1>4. n \in DOMAIN m \ {0, heap_end} /\ p # n /\ m[n].next # n
  BY <1>3 DEF Linked
<1> DEFINE W == [q \in DOMAIN r |-> U[q]]
<1>5. W \in [DOMAIN r -> Nat] /\ W[0] = 0 /\ W[heap_end] = total
  BY <1>1, <1>2, <1>3, <1>4 DEF UsedBelow
<1>6. Linked(r)
  BY MergeLinked
<1>7. \A q \in DOMAIN r \ {heap_end} :
        W[r[q].next] = W[q] + (IF r[q].used THEN r[q].next - q ELSE 0)
  <2>1. ASSUME NEW q \in DOMAIN r \ {heap_end}
        PROVE  U[r[q].next] = U[q] + (IF r[q].used THEN r[q].next - q ELSE 0)
    <3>1. CASE q = p
      <4>1. U[m[n].next] = U[n] /\ U[n] = U[p] /\ U[p] \in Nat
        BY <1>1, <1>3, <1>4 DEF UsedBelow
      <4> QED
        BY <1>2, <2>1, <3>1, <4>1
    <3>2. CASE q # p
      BY <1>1, <1>2, <3>2 DEF UsedBelow
    <3> QED
      BY <3>1, <3>2
  <2> QED
    BY <2>1, <1>6 DEF Linked
<1>8. \A a, b \in DOMAIN r : a <= b => W[a] <= W[b] /\ W[b] - W[a] <= b - a
  BY <1>1, <1>2 DEF UsedBelow
<1> HIDE DEF W
<1> QED
  BY <1>5, <1>7, <1>8 DEF UsedBelow, UsedTotal

\* A free block is taken as a whole, or a used one is given back.
LEMMA FlagTotal ==
    ASSUME NEW m, Linked(m), NEW p \in DOMAIN m \ {heap_end}, NEW used \in BOOLEAN,
           NEW r, r = [m EXCEPT ![p].used = used],
           NEW total, UsedTotal(m, total), (m[p].used <=> ~used)
    PROVE  UsedTotal(r, total + (IF used THEN m[p].next - p ELSE - (m[p].next - p)))
<1>1. PICK U : UsedBelow(U, m) /\ U[heap_end] = total
  BY DEF UsedTotal
<1>2. /\ Linked(r) /\ DOMAIN r = DOMAIN m /\ (r[p].used <=> used)
      /\ \A q \in DOMAIN m : (q # p => (r[q].used <=> m[q].used)) /\ r[q].next = m[q].next
  <2>1. Linked(r) /\ Flagged(m, p, used, r)
    BY FlagLinked
  <2> QED
    BY <2>1, Zenon DEF Flagged
<1> DEFINE n == m[p].next
           d == IF used THEN n - p ELSE - (n - p)
           W == [q \in DOMAIN m |-> IF q <= p THEN U[q] ELSE U[q] + d]
<1>3. /\ heap_end \in Nat /\ HeaderSize \in Nat \ {0} /\ DOMAIN m \subseteq 0 .. heap_end
      /\ 0 \in DOMAIN m /\ heap_end \in DOMAIN m /\ n \in DOMAIN m /\ p < n /\ p \in DOMAIN m
      /\ p < heap_end
  BY HeaderAssumption, MemSizeAssumption DEF heap_end, Linked
<1>4. d \in Int /\ U \in [DOMAIN m -> Nat]
  BY <1>1, <1>3 DEF UsedBelow
<1>5. U[n] + d = U[p] + (IF used THEN n - p ELSE 0)
  BY <1>1, <1>3 DEF UsedBelow
<1> HIDE DEF d
<1>6. \A q \in DOMAIN m : q > p => q >= n
  BY <1>3 DEF Linked
<1> HIDE DEF n
<1>7. \A q \in DOMAIN m : W[q] = IF q <= p THEN U[q] ELSE U[q] + d
  OBVIOUS
<1>8. \A a, b \in DOMAIN m : a <= b => W[a] <= W[b] /\ W[b] - W[a] <= b - a
  <2> SUFFICES ASSUME NEW a \in DOMAIN m, NEW b \in DOMAIN m, a <= b
               PROVE  W[a] <= W[b] /\ W[b] - W[a] <= b - a
    OBVIOUS
  <2>0. a \in Int /\ b \in Int /\ p \in Int /\ n \in Int /\ U[a] \in Nat /\ U[b] \in Nat
        /\ U[p] \in Nat /\ U[n] \in Nat
    BY <1>3, <1>4
  <2>1. U[a] <= U[b] /\ U[b] - U[a] <= b - a
    BY <1>1 DEF UsedBelow
  <2>2. CASE b <= p \/ a > p
    BY <1>4, <1>7, <2>0, <2>1, <2>2
  <2>3. CASE a <= p /\ b > p
    <3>1. U[a] <= U[p] /\ U[p] - U[a] <= p - a
      BY <1>1, <1>3, <2>3 DEF UsedBelow
    <3>2. U[n] <= U[b] /\ U[b] - U[n] <= b - n
      BY <1>1, <1>3, <1>6, <2>0, <2>3 DEF UsedBelow
    <3>3. W[a] = U[a] /\ W[b] = U[b] + d
      BY <1>7, <2>0, <2>3
    <3> QED
      BY <1>3, <1>4, <1>5, <2>0, <3>1, <3>2, <3>3
  <2> QED
    BY <2>0, <2>2, <2>3
<1>9. W[0] = 0 /\ W[heap_end] = total + d
  BY <1>1, <1>3, <1>7 DEF UsedBelow
<1>10. W \in [DOMAIN m -> Nat]
  <2>1. ASSUME NEW q \in DOMAIN m PROVE W[q] \in Nat
    <3>1. W[q] \in Int
      BY <1>3, <1>4, <1>7
    <3>2. W[0] <= W[q]
      BY <1>3, <1>8
    <3> QED
      BY <1>9, <3>1, <3>2
  <2> QED
    BY <2>1
<1>11. \A q \in DOMAIN r \ {heap_end} :
        W[r[q].next] = W[q] + (IF r[q].used THEN r[q].next - q ELSE 0)
  <2> SUFFICES ASSUME NEW q \in DOMAIN m \ {heap_end}
               PROVE  W[m[q].next] = W[q] + (IF r[q].used THEN m[q].next - q ELSE 0)
    BY <1>2
  <2>1. /\ m[q].next \in DOMAIN m /\ m[q].next > q /\ q \in Int /\ m[q].next \in Int
        /\ \A x \in DOMAIN m : ~(q < x /\ x < m[q].next)
    BY <1>3 DEF Linked
  <2>2. U[m[q].next] = U[q] + (IF m[q].used THEN m[q].next - q ELSE 0)
    BY <1>1 DEF UsedBelow
  <2>3. CASE q = p
    BY <1>2, <1>3, <1>4, <1>5, <1>7, <2>1, <2>3 DEF n
  <2>4. CASE q > p
    BY <1>2, <1>3, <1>4, <1>7, <2>1, <2>2, <2>4
  <2>5. CASE q < p
    <3>1. m[q].next <= p
      BY <1>3, <2>1, <2>5
    <3> QED
      BY <1>2, <1>3, <1>4, <1>7, <2>1, <2>2, <2>5, <3>1
  <2> QED
    BY <1>3, <2>1, <2>3, <2>4, <2>5
<1> HIDE DEF W
<1>12. UsedBelow(W, r)
  BY <1>2, <1>8, <1>9, <1>10, <1>11 DEF UsedBelow
<1> QED
  BY <1>9, <1>12 DEF UsedTotal, d, n

\* A block is cut in two, and the front part is in use afterwards.
LEMMA CutTotal ==
    ASSUME NEW m, Linked(m), NEW p \in DOMAIN m \ {heap_end},
           NEW e \in Int, NEW r, Linked(r), CutInTwo(m, p, e, TRUE, r),
           NEW total, UsedTotal(m, total)
    PROVE  UsedTotal(r, total + (e - p) - (IF m[p].used THEN m[p].next - p ELSE 0))
<1>1. PICK U : UsedBelow(U, m) /\ U[heap_end] = total
  BY DEF UsedTotal
<1>2. /\ e \notin DOMAIN m /\ p < e /\ e + HeaderSize < m[p].next
      /\ DOMAIN r = DOMAIN m \cup {e}
      /\ ~r[e].used /\ r[e].next = m[p].next
      /\ r[p].used /\ r[p].next = e
      /\ \A q \in DOMAIN m \ {p} : (r[q].used <=> m[q].used) /\ r[q].next = m[q].next
  BY Zenon DEF CutInTwo
<1> DEFINE n == m[p].next
           d == (e - p) - (IF m[p].used THEN n - p ELSE 0)
           W == [q \in DOMAIN r |-> IF q = e THEN U[p] + (e - p)
                                    ELSE IF q <= p THEN U[q] ELSE U[q] + d]
<1>3. /\ heap_end \in Nat /\ HeaderSize \in Nat \ {0} /\ DOMAIN m \subseteq 0 .. heap_end
      /\ 0 \in DOMAIN m /\ heap_end \in DOMAIN m /\ n \in DOMAIN m /\ p \in DOMAIN m
      /\ p \in Int /\ n \in Int /\ p < heap_end
  BY HeaderAssumption, MemSizeAssumption DEF heap_end, Linked
<1>4. d \in Int /\ U \in [DOMAIN m -> Nat] /\ p < e /\ e < n /\ U[p] \in Nat /\ U[n] \in Nat
  BY <1>1, <1>2, <1>3 DEF UsedBelow
<1>5. U[n] + d = U[p] + (e - p)
  BY <1>1, <1>3, <1>4 DEF UsedBelow
<1> HIDE DEF d
<1>6. \A q \in DOMAIN m : q > p => q >= n
  BY <1>3 DEF Linked
<1> HIDE DEF n
<1>7. /\ W[e] = U[p] + (e - p)
      /\ \A q \in DOMAIN m : W[q] = IF q <= p THEN U[q] ELSE U[q] + d
  BY <1>2
<1> HIDE DEF W
<1>8. W[e] \in Int /\ \A q \in DOMAIN m : W[q] \in Int /\ q \in Int /\ U[q] \in Nat
  BY <1>3, <1>4, <1>7
<1>9. ASSUME NEW a \in DOMAIN m, NEW b \in DOMAIN m, a <= b
      PROVE  W[a] <= W[b] /\ W[b] - W[a] <= b - a
  <2>0. a \in Int /\ b \in Int /\ U[a] \in Nat /\ U[b] \in Nat
    BY <1>3, <1>4
  <2>1. U[a] <= U[b] /\ U[b] - U[a] <= b - a
    BY <1>1, <1>9 DEF UsedBelow
  <2>2. CASE b <= p \/ a > p
    <3>1. W[b] - W[a] = U[b] - U[a]
      BY <1>3, <1>4, <1>7, <1>9, <2>0, <2>2
    <3> QED
      BY <1>8, <2>0, <2>1, <3>1
  <2>3. CASE a <= p /\ b > p
    <3>1. U[a] <= U[p] /\ U[p] - U[a] <= p - a
      BY <1>1, <1>3, <2>3 DEF UsedBelow
    <3>2. U[n] <= U[b] /\ U[b] - U[n] <= b - n
      BY <1>1, <1>3, <1>6, <2>0, <2>3 DEF UsedBelow
    <3>3. W[a] = U[a] /\ W[b] = U[b] + d
      BY <1>3, <1>7, <2>0, <2>3
    <3> QED
      BY <1>3, <1>4, <1>5, <2>0, <3>1, <3>2, <3>3
  <2> QED
    BY <1>3, <2>0, <2>2, <2>3
<1>10. ASSUME NEW q \in DOMAIN m
       PROVE  /\ q <= e => W[q] <= W[e] /\ W[e] - W[q] <= e - q
              /\ e <= q => W[e] <= W[q] /\ W[q] - W[e] <= q - e
  <2>1. CASE q <= p
    <3>0. W[p] = U[p]
      BY <1>3, <1>7
    <3>1. W[q] <= W[p] /\ W[p] - W[q] <= p - q /\ W[p] = U[p]
      BY <1>3, <1>9, <2>1, <3>0
    <3> QED
      BY <1>3, <1>4, <1>7, <1>8, <2>1, <3>1
  <2>2. CASE q > p
    <3>1. q >= n /\ W[n] <= W[q] /\ W[q] - W[n] <= q - n /\ W[n] = U[n] + d
      BY <1>3, <1>4, <1>6, <1>7, <1>9, <2>2
    <3> QED
      BY <1>3, <1>4, <1>5, <1>7, <1>8, <2>2, <3>1
  <2> QED
    BY <1>3, <1>8, <2>1, <2>2
<1>11. \A a, b \in DOMAIN r : a <= b => W[a] <= W[b] /\ W[b] - W[a] <= b - a
  BY <1>2, <1>8, <1>9, <1>10
<1>12. W[0] = 0 /\ W[heap_end] = total + d /\ 0 \in DOMAIN r
  <2>1. 0 <= p /\ ~(heap_end <= p)
    BY <1>3
  <2> QED
    BY <1>1, <1>2, <1>3, <1>7, <2>1 DEF UsedBelow
<1>13. W \in [DOMAIN r -> Nat]
  <2>1. ASSUME NEW q \in DOMAIN r PROVE W[q] \in Nat
    <3>1. W[q] \in Int /\ 0 <= q
      BY <1>2, <1>3, <1>4, <1>7, <1>8
    <3>2. W[0] <= W[q]
      BY <1>11, <1>12, <3>1
    <3> QED
      BY <1>12, <3>1, <3>2
  <2> QED
    BY <2>1 DEF W
<1>14. \A q \in DOMAIN r \ {heap_end} :
        W[r[q].next] = W[q] + (IF r[q].used THEN r[q].next - q ELSE 0)
  <2> SUFFICES ASSUME NEW q \in DOMAIN r \ {heap_end}
               PROVE  W[r[q].next] = W[q] + (IF r[q].used THEN r[q].next - q ELSE 0)
    OBVIOUS
  <2>1. CASE q = e
    <3>1. W[n] = U[n] + d /\ r[q].next = n /\ ~r[q].used
      BY <1>2, <1>3, <1>4, <1>7, <2>1 DEF n
    <3> QED
      BY <1>4, <1>5, <1>7, <2>1, <3>1
  <2>2. CASE q = p
    <3>1. W[p] = U[p] /\ r[q].next = e /\ r[q].used
      BY <1>2, <1>3, <1>7, <2>2
    <3> QED
      BY <1>4, <1>7, <2>2, <3>1
  <2>3. CASE q \in DOMAIN m \ {p}
    <3>1. /\ m[q].next \in DOMAIN m /\ m[q].next > q /\ q \in Int /\ m[q].next \in Int
          /\ \A x \in DOMAIN m : ~(q < x /\ x < m[q].next)
      BY <1>3, <2>3 DEF Linked
    <3>2. U[m[q].next] = U[q] + (IF m[q].used THEN m[q].next - q ELSE 0)
      BY <1>1, <2>3 DEF UsedBelow
    <3>3. r[q].next = m[q].next /\ (r[q].used <=> m[q].used)
      BY <1>2, <2>3
    <3>4. q <= p <=> m[q].next <= p
      BY <1>3, <2>3, <3>1
    <3>5. /\ W[q] = IF q <= p THEN U[q] ELSE U[q] + d
          /\ W[m[q].next] = IF q <= p THEN U[m[q].next] ELSE U[m[q].next] + d
      BY <1>7, <2>3, <3>1, <3>4
    <3>6. U[q] \in Nat /\ U[m[q].next] \in Nat
      BY <1>4, <2>3, <3>1
    <3> QED
      BY <1>4, <3>1, <3>2, <3>3, <3>5, <3>6
  <2> QED
    BY <1>2, <2>1, <2>2, <2>3
<1>15. UsedBelow(W, r)
  BY <1>11, <1>12, <1>13, <1>14 DEF UsedBelow
<1>16. UsedTotal(r, total + d)
  BY <1>12, <1>15 DEF UsedTotal
<1>17. total + d = total + (e - p) - (IF m[p].used THEN n - p ELSE 0)
  BY <1>1, <1>3, <1>4 DEF d, UsedBelow
<1> QED
  BY <1>16, <1>17 DEF n

-----------------------------------------------------------------------------
(***************************************************************************)
(* plug_holes.                                                             *)
(***************************************************************************)

\* No two free blocks side by side.
NoFreePair(m) ==
    \A q \in DOMAIN m \ {heap_end} : m[q].used \/ m[m[q].next].used

\* l is the lowest free block of m, or the end.
Lowest(m, l) ==
    /\ l \in DOMAIN m
    /\ m[l].used => l = heap_end
    /\ \A q \in DOMAIN m : m[q].used \/ l <= q

\* m and r have the same used blocks, of the same lengths.
SameUsed(m, r) ==
    /\ DOMAIN r \subseteq DOMAIN m
    /\ \A q \in DOMAIN m : m[q].used => q \in DOMAIN r /\ r[q].used /\ r[q].next = m[q].next
    /\ \A q \in DOMAIN r : r[q].used => m[q].used

\* The block behind p is merged into p, which is free.
LEMMA ForwardPlugs ==
    ASSUME NEW m, Linked(m), NEW p \in DOMAIN m \ {heap_end}, ~m[p].used,
           \A q \in DOMAIN m \ {heap_end} :
               m[q].used \/ m[m[q].next].used \/ q = p \/ m[q].next = p,
           NEW l, Lowest(m, l), NEW total, UsedTotal(m, total),
           NEW r, NEW k,
           [mem |-> r, lfree |-> k] = PlugForward([mem |-> m, lfree |-> l], p)
    PROVE  /\ Linked(r) /\ p \in DOMAIN r \ {heap_end} /\ ~r[p].used
           /\ \A q \in DOMAIN r \ {heap_end} : r[q].used \/ r[r[q].next].used \/ r[q].next = p
           /\ Lowest(r, k) /\ UsedTotal(r, total) /\ SameUsed(m, r)
<1> DEFINE n == m[p].next
<1>0. /\ heap_end \in Nat /\ HeaderSize \in Nat \ {0} /\ DOMAIN m \subseteq 0 .. heap_end
      /\ n \in DOMAIN m /\ n > p /\ p \in Int /\ n \in Int /\ m[heap_end].used
  BY HeaderAssumption, MemSizeAssumption DEF heap_end, Linked
<1>1. CASE m[n].used
  <2>1. r = m /\ k = l
    BY <1>1 DEF PlugForward
  <2>2. SameUsed(m, m)
    BY DEF SameUsed
  <2> QED
    BY <1>1, <2>1, <2>2
<1>2. CASE ~m[n].used
  <2>1. n # heap_end /\ n # p
    BY <1>0, <1>2
  <2>2. r = Merge(m, p, n) /\ k = IF l = n THEN p ELSE l
    BY <1>2, <2>1 DEF PlugForward
  <2> HIDE DEF n
  <2>3. Linked(r) /\ Merged(m, p, n, r) /\ UsedTotal(r, total)
    BY <1>2, <2>1, <2>2, MergeLinked, MergeFields, MergeTotal DEF n
  <2>4. /\ DOMAIN r = DOMAIN m \ {n}
        /\ \A q \in DOMAIN r : /\ r[q].used <=> m[q].used
                               /\ r[q].next = IF q = p THEN m[n].next ELSE m[q].next
    BY <2>3, Zenon DEF Merged
  <2>5. p \in DOMAIN r \ {heap_end} /\ ~r[p].used
    BY <2>1, <2>4
  <2>6. l <= p /\ l \in Int /\ k = l
    BY <1>0, <2>1, <2>2 DEF Lowest
  <2>7. Lowest(r, k)
    BY <1>0, <2>4, <2>6 DEF Lowest
  <2>8. SameUsed(m, r)
    BY <1>2, <2>4 DEF SameUsed
  <2>9. ASSUME NEW q \in DOMAIN r \ {heap_end}
        PROVE  r[q].used \/ r[r[q].next].used \/ r[q].next = p
    <3>1. n \in DOMAIN m \ {heap_end} /\ m[n].next > n /\ m[n].next \in DOMAIN m /\ m[n].next \in Int
      BY <1>0, <2>1 DEF Linked
    <3>2. m[m[n].next].used /\ m[n].next \in DOMAIN r
      BY <1>0, <1>2, <2>4, <3>1
    <3>3. CASE q = p
      BY <2>4, <2>9, <3>2, <3>3
    <3>4. CASE q # p
      <4>1. q \in DOMAIN m \ {heap_end} /\ r[q].next = m[q].next /\ r[q].next \in DOMAIN r
        BY <2>3, <2>4, <2>9, <3>4 DEF Linked
      <4> QED
        BY <2>4, <3>4, <4>1
    <3> QED
      BY <3>3, <3>4
  <2> QED
    BY <2>3, <2>5, <2>7, <2>8, <2>9
<1> QED
  BY <1>1, <1>2

\* p is merged into the block in front if that is free.
LEMMA BackwardPlugs ==
    ASSUME NEW m, Linked(m), NEW p \in DOMAIN m \ {heap_end}, ~m[p].used,
           \A q \in DOMAIN m \ {heap_end} : m[q].used \/ m[m[q].next].used \/ m[q].next = p,
           NEW l, Lowest(m, l), NEW total, UsedTotal(m, total),
           NEW r, NEW k,
           [mem |-> r, lfree |-> k] = PlugBackward([mem |-> m, lfree |-> l], p)
    PROVE  Linked(r) /\ NoFreePair(r) /\ Lowest(r, k) /\ UsedTotal(r, total) /\ SameUsed(m, r)
<1> DEFINE f == m[p].prev
<1>0. /\ heap_end \in Nat /\ HeaderSize \in Nat \ {0} /\ DOMAIN m \subseteq 0 .. heap_end
      /\ p \in Int /\ m[heap_end].used
      /\ p = 0 => f = p
      /\ p # 0 => f \in DOMAIN m \ {heap_end} /\ f < p /\ m[f].next = p
  BY HeaderAssumption, MemSizeAssumption DEF heap_end, Linked
<1>1. CASE p = 0 \/ m[f].used
  <2>1. r = m /\ k = l
    BY <1>0, <1>1 DEF PlugBackward
  <2>2. SameUsed(m, m)
    BY DEF SameUsed
  <2>3. ASSUME NEW q \in DOMAIN m \ {heap_end}, m[q].next = p PROVE m[q].used
    <3>1. p # 0 /\ f = q
      BY <1>0, <2>3 DEF Linked
    <3> QED
      BY <1>1, <3>1
  <2> QED
    BY <2>1, <2>2, <2>3 DEF NoFreePair
<1>2. CASE p # 0 /\ ~m[f].used
  <2>1. f \in DOMAIN m \ {heap_end} /\ f < p /\ m[f].next = p /\ f \in Int
    BY <1>0, <1>2
  <2>2. r = Merge(m, f, p) /\ k = IF l = p THEN f ELSE l
    BY <1>2, <2>1 DEF PlugBackward
  <2> HIDE DEF f
  <2>3. Linked(r) /\ Merged(m, f, p, r) /\ UsedTotal(r, total)
    BY <1>2, <2>1, <2>2, MergeLinked, MergeFields, MergeTotal
  <2>4. /\ DOMAIN r = DOMAIN m \ {p}
        /\ \A q \in DOMAIN r : /\ r[q].used <=> m[q].used
                               /\ r[q].next = IF q = f THEN m[p].next ELSE m[q].next
    BY <2>3, Zenon DEF Merged
  <2>5. l <= f /\ l \in Int /\ k = l
    BY <1>0, <1>2, <2>1, <2>2 DEF Lowest
  <2>6. Lowest(r, k)
    BY <1>0, <2>1, <2>4, <2>5 DEF Lowest
  <2>7. SameUsed(m, r)
    <3>1. ASSUME NEW q \in DOMAIN m, m[q].used PROVE q # p /\ q # f
      BY <1>2, <3>1
    <3> QED
      BY <2>4, <3>1 DEF SameUsed
  <2>8. NoFreePair(r)
    <3> SUFFICES ASSUME NEW q \in DOMAIN r \ {heap_end} PROVE r[q].used \/ r[r[q].next].used
      BY DEF NoFreePair
    <3>1. m[p].next > p /\ m[p].next \in DOMAIN m /\ m[p].next \in Int
      BY <1>0 DEF Linked
    <3>2. m[m[p].next].used /\ m[p].next \in DOMAIN r
      BY <1>0, <2>4, <3>1
    <3>3. CASE q = f
      BY <2>4, <3>2, <3>3
    <3>4. CASE q # f
      <4>1. q \in DOMAIN m \ {heap_end} /\ r[q].next = m[q].next /\ r[q].next \in DOMAIN r
        BY <2>3, <2>4, <3>4 DEF Linked
      <4> QED
        BY <2>4, <3>4, <4>1
    <3> QED
      BY <3>3, <3>4
  <2> QED
    BY <2>3, <2>6, <2>7, <2>8
<1> QED
  BY <1>1, <1>2

\* The used blocks of a chain.
UsedBlocks(m) == {q \in DOMAIN m \ {heap_end} : m[q].used}

\* The chain, the lowest free block and the statistics are right.
Sound(m, l, total) ==
    Linked(m) /\ NoFreePair(m) /\ Lowest(m, l) /\ UsedTotal(m, total)

\* plug_holes around a free block p, the only one with free neighbours,
\* leaves a sound heap with the same used blocks.
LEMMA PlugHoles ==
    ASSUME NEW m, Linked(m), NEW p \in DOMAIN m \ {heap_end}, ~m[p].used,
           \A q \in DOMAIN m \ {heap_end} :
               m[q].used \/ m[m[q].next].used \/ q = p \/ m[q].next = p,
           NEW l, Lowest(m, l), NEW total, UsedTotal(m, total),
           NEW h, h = plug_holes([mem |-> m, lfree |-> l], p)
    PROVE  /\ Sound(h.mem, h.lfree, total)
           /\ UsedBlocks(h.mem) = UsedBlocks(m)
           /\ \A q \in UsedBlocks(m) : h.mem[q].next = m[q].next
<1>1. PICK r1, k1 : [mem |-> r1, lfree |-> k1] = PlugForward([mem |-> m, lfree |-> l], p)
  BY DEF PlugForward
<1>2. PICK r2, k2 : [mem |-> r2, lfree |-> k2] = PlugBackward([mem |-> r1, lfree |-> k1], p)
  BY DEF PlugBackward
<1>3. h.mem = r2 /\ h.lfree = k2
  BY <1>1, <1>2 DEF plug_holes
<1>4. /\ Linked(r1) /\ p \in DOMAIN r1 \ {heap_end} /\ ~r1[p].used
      /\ \A q \in DOMAIN r1 \ {heap_end} : r1[q].used \/ r1[r1[q].next].used \/ r1[q].next = p
      /\ Lowest(r1, k1) /\ UsedTotal(r1, total) /\ SameUsed(m, r1)
  BY <1>1, ForwardPlugs
<1>5. Linked(r2) /\ NoFreePair(r2) /\ Lowest(r2, k2) /\ UsedTotal(r2, total) /\ SameUsed(r1, r2)
  BY <1>2, <1>4, BackwardPlugs
<1>6. /\ UsedBlocks(r2) = UsedBlocks(m)
      /\ \A q \in UsedBlocks(m) : r2[q].next = m[q].next
  BY <1>4, <1>5 DEF SameUsed, UsedBlocks
<1> QED
  BY <1>3, <1>5, <1>6 DEF Sound

-----------------------------------------------------------------------------
(***************************************************************************)
(* What the three ways to change the heap do to a sound one.               *)
(***************************************************************************)

\* rt_free's section: the block is not used any more, all others are as they were.
LEMMA ReleaseSound ==
    ASSUME Sound(mem, lfree, used_mem), NEW p \in UsedBlocks(mem), Release(p)
    PROVE  /\ Sound(mem', lfree', used_mem') /\ used_mem' <= used_mem
           /\ UsedBlocks(mem') = UsedBlocks(mem) \ {p}
           /\ \A q \in UsedBlocks(mem') : mem'[q].next = mem[q].next
<1> DEFINE m == [mem EXCEPT ![p].used = FALSE]
           l == LowestAfterFree(p)
           total == used_mem - (mem[p].next - p)
           h == plug_holes([mem |-> m, lfree |-> l], p)
<1>0. /\ Linked(mem) /\ NoFreePair(mem) /\ Lowest(mem, lfree) /\ UsedTotal(mem, used_mem)
      /\ p \in DOMAIN mem \ {heap_end} /\ mem[p].used
  BY DEF Sound, UsedBlocks
<1>1. mem' = h.mem /\ lfree' = h.lfree /\ used_mem' = total
  BY DEF Release
<1>2. Linked(m) /\ Flagged(mem, p, FALSE, m)
  BY <1>0, FlagLinked
<1>3. /\ DOMAIN m = DOMAIN mem /\ ~m[p].used
      /\ \A q \in DOMAIN mem : (q # p => (m[q].used <=> mem[q].used)) /\ m[q].next = mem[q].next
  BY <1>2, Zenon DEF Flagged
<1>4. /\ used_mem \in Int /\ mem[p].next \in Int /\ p \in Int /\ p < mem[p].next
      /\ DOMAIN mem \subseteq 0 .. heap_end /\ heap_end \in Nat
  BY <1>0, TotalBounds, HeaderAssumption, MemSizeAssumption DEF Linked, heap_end
<1>5. UsedTotal(m, total)
  <2>1. UsedTotal(m, used_mem + (IF FALSE THEN mem[p].next - p ELSE - (mem[p].next - p)))
    BY <1>0, FlagTotal
  <2>2. used_mem + (IF FALSE THEN mem[p].next - p ELSE - (mem[p].next - p)) = total
    BY <1>4
  <2> QED
    BY <2>1, <2>2
<1> HIDE DEF m
<1>6. \A q \in DOMAIN m \ {heap_end} :
        m[q].used \/ m[m[q].next].used \/ q = p \/ m[q].next = p
  BY <1>0, <1>3 DEF NoFreePair, Linked
<1>7. Lowest(m, l)
  BY <1>0, <1>3, <1>4 DEF Lowest, LowestAfterFree
<1> HIDE DEF l, total
<1>8. p \in DOMAIN m \ {heap_end} /\ ~m[p].used
  BY <1>0, <1>3
<1>9. /\ Sound(h.mem, h.lfree, total)
      /\ UsedBlocks(h.mem) = UsedBlocks(m)
      /\ \A q \in UsedBlocks(m) : h.mem[q].next = m[q].next
  BY <1>2, <1>5, <1>6, <1>7, <1>8, PlugHoles
<1> HIDE DEF h
<1>10. UsedBlocks(m) = UsedBlocks(mem) \ {p} /\ \A q \in UsedBlocks(m) : m[q].next = mem[q].next
  BY <1>3 DEF UsedBlocks
<1> QED
  BY <1>1, <1>4, <1>9, <1>10 DEF total

\* The section of rt_realloc that cuts a used block.
LEMMA ShrinkSound ==
    ASSUME Sound(mem, lfree, used_mem), NEW p \in UsedBlocks(mem),
           NEW newsize \in Nat \ {0}, Shrinks(p, newsize),
           NEW e, e = p + HeaderSize + newsize,
           NEW h, h = plug_holes([mem   |-> SplitAt(p, newsize, mem[p].used),
                                  lfree |-> LowestAfterFree(e)], e),
           NEW total, total = UsedAfterShrink(p, newsize)
    PROVE  /\ Sound(h.mem, h.lfree, total) /\ total <= used_mem
           /\ UsedBlocks(h.mem) = UsedBlocks(mem)
           /\ h.mem[p].next = e
           /\ \A q \in UsedBlocks(mem) \ {p} : h.mem[q].next = mem[q].next
<1> DEFINE m == SplitAt(p, newsize, mem[p].used)
           l == LowestAfterFree(e)
<1>0. /\ Linked(mem) /\ NoFreePair(mem) /\ Lowest(mem, lfree) /\ UsedTotal(mem, used_mem)
      /\ p \in DOMAIN mem \ {heap_end} /\ mem[p].used /\ mem[p].used \in BOOLEAN
  BY DEF Sound, UsedBlocks, Linked, Header
<1>1. /\ used_mem \in Int /\ mem[p].next \in DOMAIN mem /\ mem[p].next \in Int /\ p \in Int
      /\ DOMAIN mem \subseteq 0 .. heap_end /\ heap_end \in Nat /\ HeaderSize \in Nat \ {0}
      /\ MinSize \in Nat \ {0} /\ e \in Int
  BY <1>0, TotalBounds, HeaderAssumption, MemSizeAssumption, MinSizeAssumption
     DEF Linked, heap_end
<1>2. Room(p) > newsize + HeaderSize /\ p \in Blocks \ {heap_end} /\ m = SplitAt(p, newsize, TRUE)
  BY <1>0, <1>1 DEF Shrinks, Room, Blocks
<1> HIDE DEF m
<1>3. Linked(m) /\ CutInTwo(mem, p, e, TRUE, m)
  BY <1>0, <1>2, SplitLinked, SplitFields
<1>4. /\ e \notin DOMAIN mem /\ p < e /\ e + HeaderSize < mem[p].next
      /\ DOMAIN m = DOMAIN mem \cup {e}
      /\ ~m[e].used /\ m[e].next = mem[p].next
      /\ m[p].used /\ m[p].next = e
      /\ \A q \in DOMAIN mem \ {p} : (m[q].used <=> mem[q].used) /\ m[q].next = mem[q].next
  BY <1>3, Zenon DEF CutInTwo
<1>5. UsedTotal(m, total) /\ total <= used_mem
  <2>1. UsedTotal(m, used_mem + (e - p) - (IF mem[p].used THEN mem[p].next - p ELSE 0))
    BY <1>0, <1>1, <1>3, CutTotal
  <2>2. used_mem + (e - p) - (IF mem[p].used THEN mem[p].next - p ELSE 0) = total
    BY <1>0, <1>1 DEF UsedAfterShrink, Room
  <2>3. total <= used_mem
    BY <1>0, <1>1, <1>4, <2>2
  <2> QED
    BY <2>1, <2>2, <2>3
<1>6. e # heap_end
  BY <1>1, <1>4
<1>7. \A q \in DOMAIN m \ {heap_end} :
        m[q].used \/ m[m[q].next].used \/ q = e \/ m[q].next = e
  <2>1. ASSUME NEW q \in DOMAIN mem \ {heap_end}, q # p
        PROVE  m[q].used \/ m[m[q].next].used
    <3>1. m[q].next = mem[q].next /\ mem[q].next \in DOMAIN mem
      BY <1>0, <1>4, <2>1 DEF Linked
    <3>2. mem[q].used \/ mem[mem[q].next].used
      BY <1>0, <2>1 DEF NoFreePair
    <3> QED
      BY <1>4, <2>1, <3>1, <3>2
  <2> QED
    BY <1>4, <2>1
<1>8. Lowest(m, l)
  BY <1>0, <1>1, <1>4 DEF Lowest, LowestAfterFree
<1> HIDE DEF l
<1>9. h = plug_holes([mem |-> m, lfree |-> l], e)
  BY DEF m, l
<1>10. /\ Sound(h.mem, h.lfree, total)
       /\ UsedBlocks(h.mem) = UsedBlocks(m)
       /\ \A q \in UsedBlocks(m) : h.mem[q].next = m[q].next
  BY <1>3, <1>4, <1>5, <1>6, <1>7, <1>8, <1>9, PlugHoles
<1>11. UsedBlocks(m) = UsedBlocks(mem)
  BY <1>0, <1>4 DEF UsedBlocks
<1> QED
  BY <1>4, <1>5, <1>10, <1>11 DEF UsedBlocks

\* rt_malloc's section: the first block that fits is used, as a whole or cut.
LEMMA AllocateSound ==
    ASSUME Sound(mem, lfree, used_mem), max_mem \in used_mem .. heap_end,
           NEW size \in Nat \ {0}, Allocate(size), NEW p, p = Min(Fitting(size))
    PROVE  /\ Sound(mem', lfree', used_mem') /\ max_mem' \in used_mem' .. heap_end
           /\ p \in Blocks \ {heap_end} /\ p \notin UsedBlocks(mem)
           /\ UsedBlocks(mem') = UsedBlocks(mem) \cup {p}
           /\ mem'[p].next - (p + HeaderSize) >= size
           /\ \A q \in UsedBlocks(mem) : mem'[q].next = mem[q].next
<1>0. Linked(mem) /\ NoFreePair(mem) /\ Lowest(mem, lfree) /\ UsedTotal(mem, used_mem)
  BY DEF Sound
<1>1. /\ heap_end \in Nat /\ HeaderSize \in Nat \ {0} /\ MinSize \in Nat \ {0}
      /\ DOMAIN mem \subseteq 0 .. heap_end /\ heap_end \in DOMAIN mem
      /\ used_mem \in 0 .. heap_end /\ mem[heap_end].used
  BY <1>0, TotalBounds, HeaderAssumption, MemSizeAssumption, MinSizeAssumption
     DEF Linked, heap_end
<1>2. p \in DOMAIN mem \ {heap_end} /\ ~mem[p].used /\ Room(p) >= size
  <2>1. Fitting(size) \in SUBSET Nat /\ Fitting(size) # {}
    BY <1>1 DEF Fitting, Searched, Blocks, Allocate
  <2>2. p \in Fitting(size)
    BY <2>1, LeastOf
  <2> QED
    BY <1>1, <2>2 DEF Fitting, Searched, Blocks
<1>3. /\ mem[p].next \in DOMAIN mem /\ mem[p].next \in Int /\ p \in 0 .. heap_end
      /\ mem[mem[p].next].used /\ lfree \in DOMAIN mem /\ lfree \in 0 .. heap_end /\ lfree <= p
  BY <1>0, <1>1, <1>2 DEF Linked, NoFreePair, Lowest
<1>4. PICK d \in Int :
        /\ Linked(mem') /\ used_mem' = used_mem + d /\ UsedTotal(mem', used_mem + d)
        /\ 0 <= d
        /\ NoFreePair(mem')
        /\ DOMAIN mem \subseteq DOMAIN mem' /\ mem'[p].used
        /\ \A q \in DOMAIN mem' : ~mem'[q].used => q >= lfree
        /\ \A q \in DOMAIN mem \ {p} :
              (mem'[q].used <=> mem[q].used) /\ mem'[q].next = mem[q].next
        /\ \A q \in DOMAIN mem' \ DOMAIN mem : ~mem'[q].used
        /\ mem'[p].next - (p + HeaderSize) >= size
  <2>1. CASE Splits(p, size)
    <3> DEFINE e == p + HeaderSize + size
    <3>1. /\ mem' = SplitAt(p, size, TRUE) /\ used_mem' = used_mem + (size + HeaderSize)
          /\ Room(p) > size + HeaderSize /\ p \in Blocks \ {heap_end} /\ e \in Int
          /\ size + HeaderSize = e - p /\ size + HeaderSize \in Nat
      BY <1>1, <1>2, <1>3, <2>1 DEF Allocate, Splits, Room, Blocks
    <3> HIDE DEF e
    <3>2. Linked(mem') /\ CutInTwo(mem, p, e, TRUE, mem')
      BY <1>0, <3>1, SplitLinked, SplitFields DEF e
    <3>3. /\ e \notin DOMAIN mem /\ p < e /\ e + HeaderSize < mem[p].next
          /\ DOMAIN mem' = DOMAIN mem \cup {e}
          /\ ~mem'[e].used /\ mem'[e].next = mem[p].next
          /\ mem'[p].used /\ mem'[p].next = e
          /\ \A q \in DOMAIN mem \ {p} :
                (mem'[q].used <=> mem[q].used) /\ mem'[q].next = mem[q].next
      BY <3>2, Zenon DEF CutInTwo
    <3>4. UsedTotal(mem', used_mem + (size + HeaderSize))
      <4>1. UsedTotal(mem', used_mem + (e - p) - (IF mem[p].used THEN mem[p].next - p ELSE 0))
        BY <1>0, <1>2, <3>1, <3>2, CutTotal
      <4>2. used_mem + (e - p) - (IF mem[p].used THEN mem[p].next - p ELSE 0)
              = used_mem + (size + HeaderSize)
        BY <1>1, <1>2, <3>1
      <4> QED
        BY <4>1, <4>2
    <3>5. NoFreePair(mem')
      <4> SUFFICES ASSUME NEW q \in DOMAIN mem' \ {heap_end}, ~mem'[q].used
                   PROVE  mem'[mem'[q].next].used
        BY DEF NoFreePair
      <4>1. CASE q = e
        BY <1>1, <1>2, <1>3, <3>3, <4>1
      <4>2. CASE q \in DOMAIN mem \ {p}
        <5>1. mem[q].next \in DOMAIN mem /\ mem[mem[q].next].used
          BY <1>0, <3>3, <4>2 DEF NoFreePair, Linked
        <5> QED
          BY <1>2, <3>3, <4>2, <5>1
      <4> QED
        BY <3>3, <4>1, <4>2
    <3>6. \A q \in DOMAIN mem' : ~mem'[q].used => q >= lfree
      <4>1. e \in Int /\ e >= lfree
        BY <1>3, <3>1, <3>3
      <4>2. \A q \in DOMAIN mem \ {p} : ~mem'[q].used => q >= lfree
        BY <1>0, <1>1, <1>3, <3>3 DEF Lowest
      <4> QED
        BY <3>3, <4>1, <4>2
    <3>7. mem'[p].next - (p + HeaderSize) >= size
      <4>1. e - (p + HeaderSize) = size
        BY <1>1, <1>3 DEF e
      <4> QED
        BY <3>3, <4>1
    <3>8. \A q \in DOMAIN mem' \ DOMAIN mem : ~mem'[q].used
      BY <3>3
    <3>9. size + HeaderSize \in Int /\ 0 <= size + HeaderSize /\ DOMAIN mem \subseteq DOMAIN mem'
      BY <1>1, <3>3
    <3> QED
      BY <3>1, <3>2, <3>3, <3>4, <3>5, <3>6, <3>7, <3>8, <3>9
  <2>2. CASE ~Splits(p, size)
    <3>1. mem' = [mem EXCEPT ![p].used = TRUE] /\ used_mem' = used_mem + (mem[p].next - p)
      BY <2>2 DEF Allocate
    <3>2. Linked(mem') /\ Flagged(mem, p, TRUE, mem')
      BY <1>0, <1>2, <3>1, FlagLinked
    <3>3. /\ DOMAIN mem' = DOMAIN mem /\ mem'[p].used
          /\ \A q \in DOMAIN mem : /\ q # p => (mem'[q].used <=> mem[q].used)
                                   /\ mem'[q].next = mem[q].next
      BY <3>2, Zenon DEF Flagged
    <3>4. UsedTotal(mem', used_mem + (mem[p].next - p))
      <4>1. UsedTotal(mem', used_mem + (IF TRUE THEN mem[p].next - p ELSE - (mem[p].next - p)))
        BY <1>0, <1>2, <3>1, FlagTotal
      <4> QED
        BY <4>1
    <3>5. NoFreePair(mem')
      BY <1>0, <3>3 DEF NoFreePair, Linked
    <3>6. \A q \in DOMAIN mem' : ~mem'[q].used => q >= lfree
      BY <1>0, <1>1, <1>3, <3>3 DEF Lowest
    <3>7. mem'[p].next - (p + HeaderSize) >= size /\ mem[p].next - p \in Nat
      BY <1>1, <1>2, <1>3, <3>3 DEF Room
    <3> QED
      BY <3>1, <3>2, <3>3, <3>4, <3>5, <3>6, <3>7
  <2> QED
    BY <2>1, <2>2
<1>5. Lowest(mem', lfree')
  <2>1. CASE p # lfree
    <3>1. lfree' = lfree
      BY <2>1 DEF Allocate
    <3> QED
      BY <1>0, <1>1, <1>3, <1>4, <2>1, <3>1 DEF Lowest, Linked
  <2>2. CASE p = lfree
    <3> DEFINE S == {q \in DOMAIN mem' : q >= lfree /\ (~mem'[q].used \/ q = heap_end)}
    <3>1. lfree' = Min(S)
      BY <2>2 DEF Allocate
    <3>2. DOMAIN mem' \subseteq 0 .. heap_end /\ heap_end \in S
      BY <1>1, <1>3, <1>4 DEF Linked
    <3>3. S \in SUBSET Nat
      BY <1>1, <3>2
    <3>4. lfree' \in S /\ \A q \in S : lfree' <= q
      BY <3>1, <3>2, <3>3, LeastOf
    <3> QED
      BY <1>4, <3>2, <3>4 DEF Lowest
  <2> QED
    BY <2>1, <2>2
<1>6. max_mem' \in used_mem' .. heap_end
  <2>1. used_mem' \in 0 .. heap_end
    BY <1>4, TotalBounds
  <2>2. max_mem' = IF max_mem >= used_mem' THEN max_mem ELSE used_mem'
    <3>1. max_mem' = Max({max_mem, used_mem'})
      BY DEF Allocate
    <3>2. max_mem \in Int /\ used_mem' \in Int
      BY <1>1, <2>1
    <3> QED
      BY <3>1, <3>2, LargerOf
  <2> QED
    BY <1>1, <2>1, <2>2
<1>7. UsedBlocks(mem') = UsedBlocks(mem) \cup {p}
  BY <1>2, <1>4 DEF UsedBlocks
<1> QED
  BY <1>2, <1>4, <1>5, <1>6, <1>7 DEF Sound, UsedBlocks, Blocks

-----------------------------------------------------------------------------
(***************************************************************************)
(* The inductive invariant: a sound heap, whose used blocks are those the  *)
(* threads were given, and no call of rt_realloc that lost its blocks.     *)
(***************************************************************************)
Holds(t, p) == p \in DOMAIN held /\ held[p].owner = t

Given ==
    /\ held \in [DOMAIN held -> [owner : Threads, size : Sizes]]
    /\ DOMAIN held = UsedBlocks(mem)
    /\ \A p \in DOMAIN held : Room(p) >= held[p].size

\* Between its sections a call of rt_realloc still has the block it moves, at
\* the length it has read, and then the new one too.
MoveOK(t) ==
    /\ move[t].pc = "none" => move[t].rmem = 0 /\ move[t].nmem = 0
    /\ move[t].pc # "none" => /\ Holds(t, move[t].rmem)
                              /\ move[t].newsize \in Sizes
                              /\ Room(move[t].rmem) = move[t].size
    /\ move[t].pc = "malloc" => move[t].nmem = 0
    /\ move[t].pc = "free" => /\ Holds(t, move[t].nmem)
                              /\ move[t].nmem # move[t].rmem
                              /\ Room(move[t].nmem) >= move[t].newsize

MoveCall ==
    [pc : {"none", "malloc", "free"}, rmem : Int, size : Int, newsize : Int, nmem : Int]

Inv ==
    /\ Sound(mem, lfree, used_mem)
    /\ max_mem \in used_mem .. heap_end
    /\ Given
    /\ move \in [Threads -> MoveCall]
    /\ \A t \in Threads : MoveOK(t)

\* A thread whose blocks and call nobody touched.
LEMMA OtherMove ==
    ASSUME NEW u, MoveOK(u), move'[u] = move[u],
           \A p : Holds(u, p) => /\ p \in DOMAIN held' /\ held'[p].owner = u
                                 /\ mem'[p].next = mem[p].next
    PROVE  MoveOK(u)'
BY DEF MoveOK, Holds, Room

\* A section of rt_malloc gives t a block and leaves the others alone.
LEMMA BlockGiven ==
    ASSUME Inv, NEW t \in Threads, NEW size \in Sizes, NEW b, b = Min(Fitting(AtLeastMin(size))),
           Allocate(AtLeastMin(size)),
           held' = [p \in DOMAIN held \cup {b} |->
                      IF p \in DOMAIN held THEN held[p] ELSE [owner |-> t, size |-> size]]
    PROVE  /\ Sound(mem', lfree', used_mem') /\ max_mem' \in used_mem' .. heap_end
           /\ Given'
           /\ b \notin DOMAIN held /\ DOMAIN held' = DOMAIN held \cup {b}
           /\ held'[b].owner = t /\ b \in Int
           /\ mem'[b].next - (b + HeaderSize) >= size
           /\ \A p \in DOMAIN held : held'[p] = held[p] /\ mem'[p].next = mem[p].next
<1>0. /\ size \in Nat \ {0} /\ AtLeastMin(size) \in Nat \ {0} /\ AtLeastMin(size) >= size
  BY SizesAssumption, MemSizeAssumption, MinSizeAssumption DEF AtLeastMin
<1>1. /\ Sound(mem', lfree', used_mem') /\ max_mem' \in used_mem' .. heap_end
      /\ b \in Blocks \ {heap_end} /\ b \notin UsedBlocks(mem)
      /\ UsedBlocks(mem') = UsedBlocks(mem) \cup {b}
      /\ mem'[b].next - (b + HeaderSize) >= AtLeastMin(size)
      /\ \A q \in UsedBlocks(mem) : mem'[q].next = mem[q].next
  BY <1>0, AllocateSound DEF Inv
<1>2. b \notin DOMAIN held /\ DOMAIN held' = DOMAIN held \cup {b} /\ DOMAIN held' = UsedBlocks(mem')
  BY <1>1 DEF Inv, Given
<1>3. /\ held'[b] = [owner |-> t, size |-> size]
      /\ \A p \in DOMAIN held : held'[p] = held[p]
  BY <1>2
<1>4. \A p \in DOMAIN held : mem'[p].next = mem[p].next
  BY <1>1 DEF Inv, Given
<1>5. b \in Int /\ mem'[b].next \in Int /\ HeaderSize \in Int
  <2>1. Linked(mem) /\ Linked(mem') /\ b \in UsedBlocks(mem')
    BY <1>1 DEF Inv, Sound
  <2>2. mem'[b] \in Header /\ b \in 0 .. heap_end
    BY <2>1 DEF Linked, UsedBlocks
  <2> QED
    BY <2>2, HeaderAssumption DEF Header
<1>6. mem'[b].next - (b + HeaderSize) >= size
  BY <1>0, <1>1, <1>5
<1>7. Given'
  <2>1. held' \in [DOMAIN held' -> [owner : Threads, size : Sizes]]
    BY <1>2, <1>3 DEF Inv, Given
  <2>2. ASSUME NEW p \in DOMAIN held' PROVE mem'[p].next - (p + HeaderSize) >= held'[p].size
    <3>1. CASE p = b
      BY <1>3, <1>6, <3>1
    <3>2. CASE p # b
      BY <1>2, <1>3, <1>4, <3>2 DEF Inv, Given, Room
    <3> QED
      BY <3>1, <3>2
  <2> QED
    BY <1>2, <2>1, <2>2 DEF Given, Room
<1> QED
  BY <1>1, <1>2, <1>3, <1>4, <1>5, <1>6, <1>7

\* A section of rt_free takes one block back and leaves the others alone.
LEMMA BlockReleased ==
    ASSUME Inv, NEW b \in DOMAIN held, Release(b)
    PROVE  /\ Sound(mem', lfree', used_mem') /\ max_mem' \in used_mem' .. heap_end
           /\ Given'
           /\ DOMAIN held' = DOMAIN held \ {b}
           /\ \A p \in DOMAIN held \ {b} : held'[p] = held[p] /\ mem'[p].next = mem[p].next
<1>1. /\ Sound(mem', lfree', used_mem') /\ used_mem' <= used_mem
      /\ UsedBlocks(mem') = UsedBlocks(mem) \ {b}
      /\ \A q \in UsedBlocks(mem') : mem'[q].next = mem[q].next
  BY ReleaseSound DEF Inv, Given
<1>2. DOMAIN held' = DOMAIN held \ {b} /\ \A p \in DOMAIN held \ {b} : held'[p] = held[p]
  BY DEF Release
<1>3. \A p \in DOMAIN held \ {b} : mem'[p].next = mem[p].next
  BY <1>1 DEF Inv, Given
<1>4. max_mem' \in used_mem' .. heap_end
  <2>1. used_mem \in 0 .. heap_end /\ used_mem' \in 0 .. heap_end
    BY <1>1, TotalBounds DEF Inv, Sound
  <2>2. heap_end \in Int /\ max_mem' = max_mem
    BY HeaderAssumption, MemSizeAssumption DEF heap_end, Release
  <2> QED
    BY <1>1, <2>1, <2>2 DEF Inv
<1>5. Given'
  <2>1. DOMAIN held' = UsedBlocks(mem')
    BY <1>1, <1>2 DEF Inv, Given
  <2>2. held' \in [DOMAIN held' -> [owner : Threads, size : Sizes]]
    <3>1. \A p \in DOMAIN held' : held'[p] \in [owner : Threads, size : Sizes]
      BY <1>2 DEF Inv, Given
    <3> QED
      BY <1>2, <3>1 DEF Release
  <2>3. \A p \in DOMAIN held' : mem'[p].next - (p + HeaderSize) >= held'[p].size
    BY <1>2, <1>3 DEF Inv, Given, Room
  <2> QED
    BY <2>1, <2>2, <2>3 DEF Given, Room
<1> QED
  BY <1>1, <1>2, <1>3, <1>4, <1>5

-----------------------------------------------------------------------------
(***************************************************************************)
(* One lemma for each action.                                              *)
(***************************************************************************)

\* rt_malloc.
LEMMA MallocInv ==
    ASSUME Inv, NEW t \in Threads, NEW size \in Sizes, rt_malloc(t, size)
    PROVE  Inv'
<1> DEFINE b == Min(Fitting(AtLeastMin(size)))
<1>1. /\ Sound(mem', lfree', used_mem') /\ max_mem' \in used_mem' .. heap_end
      /\ Given' /\ DOMAIN held' = DOMAIN held \cup {b}
      /\ \A p \in DOMAIN held : held'[p] = held[p] /\ mem'[p].next = mem[p].next
  BY BlockGiven DEF rt_malloc
<1>2. move' = move
  BY DEF rt_malloc
<1>3. \A u \in Threads : MoveOK(u)'
  <2> SUFFICES ASSUME NEW u \in Threads PROVE MoveOK(u)'
    OBVIOUS
  <2>1. MoveOK(u) /\ move'[u] = move[u]
    BY <1>2 DEF Inv
  <2>2. \A p : Holds(u, p) => /\ p \in DOMAIN held' /\ held'[p].owner = u
                              /\ mem'[p].next = mem[p].next
    BY <1>1 DEF Holds
  <2> QED
    BY <2>1, <2>2, OtherMove
<1> QED
  BY <1>1, <1>2, <1>3 DEF Inv

\* rt_free.
LEMMA FreeInv ==
    ASSUME Inv, NEW t \in Threads, NEW b \in DOMAIN held, rt_free(t, b)
    PROVE  Inv'
<1>1. /\ Sound(mem', lfree', used_mem') /\ max_mem' \in used_mem' .. heap_end
      /\ Given' /\ DOMAIN held' = DOMAIN held \ {b}
      /\ \A p \in DOMAIN held \ {b} : held'[p] = held[p] /\ mem'[p].next = mem[p].next
  BY BlockReleased DEF rt_free
<1>2. move' = move /\ move[t].pc = "none" /\ held[b].owner = t
  BY DEF rt_free
<1>3. \A u \in Threads : MoveOK(u)'
  <2> SUFFICES ASSUME NEW u \in Threads PROVE MoveOK(u)'
    OBVIOUS
  <2>1. MoveOK(u) /\ move'[u] = move[u]
    BY <1>2 DEF Inv
  <2>2. CASE u = t
    BY <1>2, <2>1, <2>2 DEF MoveOK
  <2>3. CASE u # t
    <3>1. \A p : Holds(u, p) => /\ p \in DOMAIN held' /\ held'[p].owner = u
                                /\ mem'[p].next = mem[p].next
      BY <1>1, <1>2, <2>3 DEF Holds
    <3> QED
      BY <2>1, <3>1, OtherMove
  <2> QED
    BY <2>2, <2>3
<1> QED
  BY <1>1, <1>2, <1>3 DEF Inv

\* rt_realloc that leaves the block where it is.
LEMMA InPlaceInv ==
    ASSUME Inv, NEW t \in Threads, NEW b \in DOMAIN held, NEW newsize \in Sizes,
           ReallocInPlace(t, b, newsize)
    PROVE  Inv'
<1>0. /\ newsize \in Nat \ {0} /\ b \in UsedBlocks(mem) /\ Linked(mem)
      /\ HeaderSize \in Nat /\ heap_end \in Int
  BY SizesAssumption, MemSizeAssumption, HeaderAssumption DEF Inv, Given, Sound, heap_end
<1>1. /\ move' = move /\ move[t].pc = "none" /\ held[b].owner = t /\ max_mem' = max_mem
      /\ held' = [held EXCEPT ![b].size = newsize]
  BY DEF ReallocInPlace
<1>2. /\ Sound(mem', lfree', used_mem') /\ used_mem' <= used_mem
      /\ UsedBlocks(mem') = UsedBlocks(mem)
      /\ mem'[b].next - (b + HeaderSize) >= newsize
      /\ \A q \in UsedBlocks(mem) \ {b} : mem'[q].next = mem[q].next
  <2>0. b \in Int /\ mem[b].next \in Int /\ used_mem \in Int
    BY <1>0, TotalBounds DEF Linked, UsedBlocks, Header, Inv, Sound
  <2>1. CASE Room(b) = newsize /\ UNCHANGED <<mem, lfree, used_mem>>
    BY <1>0, <2>0, <2>1 DEF Inv, Room
  <2>2. CASE ~(Room(b) = newsize /\ UNCHANGED <<mem, lfree, used_mem>>)
    <3> DEFINE e == b + HeaderSize + newsize
               h == plug_holes([mem   |-> SplitAt(b, newsize, mem[b].used),
                                lfree |-> LowestAfterFree(e)], e)
    <3>1. /\ mem' = h.mem /\ lfree' = h.lfree /\ used_mem' = UsedAfterShrink(b, newsize)
          /\ Shrinks(b, newsize)
      BY <2>2 DEF ReallocInPlace
    <3>2. e - (b + HeaderSize) = newsize
      BY <1>0, <2>0
    <3>3. /\ Sound(h.mem, h.lfree, used_mem') /\ used_mem' <= used_mem
          /\ UsedBlocks(h.mem) = UsedBlocks(mem)
          /\ h.mem[b].next = e
          /\ \A q \in UsedBlocks(mem) \ {b} : h.mem[q].next = mem[q].next
      BY <1>0, <3>1, ShrinkSound DEF Inv
    <3> HIDE DEF h, e
    <3> QED
      BY <1>0, <3>1, <3>2, <3>3
  <2> QED
    BY <2>1, <2>2
<1>3. /\ DOMAIN held' = DOMAIN held
      /\ held'[b].owner = t /\ held'[b].size = newsize
      /\ held'[b] \in [owner : Threads, size : Sizes]
      /\ \A p \in DOMAIN held \ {b} : held'[p] = held[p]
  BY <1>1 DEF Inv, Given
<1>4. Given'
  <2>1. DOMAIN held' = UsedBlocks(mem')
    BY <1>2, <1>3 DEF Inv, Given
  <2>2. held' \in [DOMAIN held' -> [owner : Threads, size : Sizes]]
    BY <1>1, <1>3 DEF Inv, Given
  <2>3. ASSUME NEW p \in DOMAIN held' PROVE mem'[p].next - (p + HeaderSize) >= held'[p].size
    BY <1>2, <1>3 DEF Inv, Given, Room
  <2> QED
    BY <2>1, <2>2, <2>3 DEF Given, Room
<1>5. max_mem' \in used_mem' .. heap_end
  <2>1. used_mem \in Int /\ used_mem' \in Int
    BY <1>2, TotalBounds DEF Inv, Sound
  <2> QED
    BY <1>0, <1>1, <1>2, <2>1 DEF Inv
<1>6. \A u \in Threads : MoveOK(u)'
  <2> SUFFICES ASSUME NEW u \in Threads PROVE MoveOK(u)'
    OBVIOUS
  <2>1. MoveOK(u) /\ move'[u] = move[u]
    BY <1>1 DEF Inv
  <2>2. CASE u = t
    BY <1>1, <2>1, <2>2 DEF MoveOK
  <2>3. CASE u # t
    <3>1. \A p : Holds(u, p) => /\ p \in DOMAIN held' /\ held'[p].owner = u
                                /\ mem'[p].next = mem[p].next
      BY <1>1, <1>2, <1>3, <2>3 DEF Holds, Inv, Given
    <3> QED
      BY <2>1, <3>1, OtherMove
  <2> QED
    BY <2>2, <2>3
<1> QED
  BY <1>1, <1>2, <1>4, <1>5, <1>6 DEF Inv

\* rt_realloc reads the length of a block that has to move.
LEMMA MoveInv ==
    ASSUME Inv, NEW t \in Threads, NEW b \in DOMAIN held, NEW newsize \in Sizes,
           ReallocMove(t, b, newsize)
    PROVE  Inv'
<1> DEFINE c == [pc |-> "malloc", rmem |-> b, size |-> Room(b), newsize |-> newsize, nmem |-> 0]
<1>1. /\ UNCHANGED <<mem, lfree, used_mem, max_mem, held>>
      /\ move' = [move EXCEPT ![t] = c] /\ held[b].owner = t
  BY DEF ReallocMove
<1>2. c \in MoveCall
  <2>1. b \in Int /\ mem[b].next \in Int
    BY DEF Inv, Given, Sound, Linked, UsedBlocks, Header
  <2>2. Room(b) \in Int /\ newsize \in Int
    BY <2>1, HeaderAssumption, SizesAssumption, MemSizeAssumption DEF Room
  <2> QED
    BY <2>1, <2>2 DEF MoveCall
<1>3. move' \in [Threads -> MoveCall] /\ move'[t] = c
  BY <1>1, <1>2 DEF Inv
<1>4. \A u \in Threads : MoveOK(u)'
  <2> SUFFICES ASSUME NEW u \in Threads PROVE MoveOK(u)'
    OBVIOUS
  <2>1. CASE u = t
    BY <1>1, <1>3, <2>1 DEF MoveOK, Holds, Room
  <2>2. CASE u # t
    <3>1. MoveOK(u) /\ move'[u] = move[u]
      BY <1>1, <2>2 DEF Inv
    <3>2. \A p : Holds(u, p) => /\ p \in DOMAIN held' /\ held'[p].owner = u
                                /\ mem'[p].next = mem[p].next
      BY <1>1 DEF Holds
    <3> QED
      BY <3>1, <3>2, OtherMove
  <2> QED
    BY <2>1, <2>2
<1>5. Given'
  BY <1>1 DEF Inv, Given, Room
<1> QED
  BY <1>1, <1>3, <1>4, <1>5 DEF Inv

\* rt_realloc allocates the new block, or gives up.
LEMMA ReallocMallocInv ==
    ASSUME Inv, NEW t \in Threads, ReallocMalloc(t)
    PROVE  Inv'
<1> DEFINE size == move[t].newsize
           b == Min(Fitting(AtLeastMin(size)))
<1>0. /\ move[t].pc = "malloc" /\ MoveOK(t) /\ size \in Sizes
      /\ move \in [Threads -> MoveCall] /\ move[t] \in MoveCall
  BY DEF ReallocMalloc, Inv, MoveOK
<1>1. CASE Allocate(AtLeastMin(size))
           /\ move' = [move EXCEPT ![t].pc = "free", ![t].nmem = b]
           /\ held' = [p \in DOMAIN held \cup {b} |->
                         IF p \in DOMAIN held THEN held[p] ELSE [owner |-> t, size |-> size]]
  <2>1. /\ Sound(mem', lfree', used_mem') /\ max_mem' \in used_mem' .. heap_end
        /\ Given'
        /\ b \notin DOMAIN held /\ DOMAIN held' = DOMAIN held \cup {b}
        /\ held'[b].owner = t /\ b \in Int
        /\ mem'[b].next - (b + HeaderSize) >= size
        /\ \A p \in DOMAIN held : held'[p] = held[p] /\ mem'[p].next = mem[p].next
    BY <1>0, <1>1, BlockGiven
  <2> HIDE DEF b
  <2>2. move' \in [Threads -> MoveCall]
    BY <1>0, <1>1, <2>1 DEF MoveCall
  <2>3. /\ move'[t].pc = "free" /\ move'[t].nmem = b /\ move'[t].rmem = move[t].rmem
        /\ move'[t].size = move[t].size /\ move'[t].newsize = size
    BY <1>0, <1>1 DEF MoveCall
  <2>4. \A u \in Threads : MoveOK(u)'
    <3> SUFFICES ASSUME NEW u \in Threads PROVE MoveOK(u)'
      OBVIOUS
    <3>1. CASE u = t
      BY <1>0, <2>1, <2>3, <3>1 DEF MoveOK, Holds, Room
    <3>2. CASE u # t
      <4>1. MoveOK(u) /\ move'[u] = move[u]
        BY <1>0, <1>1, <3>2 DEF Inv
      <4>2. \A p : Holds(u, p) => /\ p \in DOMAIN held' /\ held'[p].owner = u
                                  /\ mem'[p].next = mem[p].next
        BY <2>1 DEF Holds
      <4> QED
        BY <4>1, <4>2, OtherMove
    <3> QED
      BY <3>1, <3>2
  <2> QED
    BY <2>1, <2>2, <2>4 DEF Inv
<1>2. CASE move' = [move EXCEPT ![t] = NoMove] /\ UNCHANGED <<mem, lfree, used_mem, max_mem, held>>
  <2>1. move' \in [Threads -> MoveCall] /\ move'[t] = NoMove
    BY <1>0, <1>2 DEF MoveCall, NoMove
  <2>2. \A u \in Threads : MoveOK(u)'
    <3> SUFFICES ASSUME NEW u \in Threads PROVE MoveOK(u)'
      OBVIOUS
    <3>1. CASE u = t
      BY <2>1, <3>1 DEF MoveOK, NoMove
    <3>2. CASE u # t
      <4>1. MoveOK(u) /\ move'[u] = move[u]
        BY <1>0, <1>2, <3>2 DEF Inv
      <4>2. \A p : Holds(u, p) => /\ p \in DOMAIN held' /\ held'[p].owner = u
                                  /\ mem'[p].next = mem[p].next
        BY <1>2 DEF Holds
      <4> QED
        BY <4>1, <4>2, OtherMove
    <3> QED
      BY <3>1, <3>2
  <2>3. Given'
    BY <1>2 DEF Inv, Given, Room
  <2> QED
    BY <1>2, <2>1, <2>2, <2>3 DEF Inv
<1> QED
  BY <1>1, <1>2 DEF ReallocMalloc

\* rt_realloc frees the old block.
LEMMA ReallocFreeInv ==
    ASSUME Inv, NEW t \in Threads, ReallocFree(t)
    PROVE  Inv'
<1> DEFINE b == move[t].rmem
<1>0. /\ move[t].pc = "free" /\ Release(b) /\ move' = [move EXCEPT ![t] = NoMove]
      /\ b \in DOMAIN held /\ held[b].owner = t
  BY DEF ReallocFree, Inv, MoveOK, Holds
<1>1. /\ Sound(mem', lfree', used_mem') /\ max_mem' \in used_mem' .. heap_end
      /\ Given' /\ DOMAIN held' = DOMAIN held \ {b}
      /\ \A p \in DOMAIN held \ {b} : held'[p] = held[p] /\ mem'[p].next = mem[p].next
  BY <1>0, BlockReleased
<1>2. move' \in [Threads -> MoveCall] /\ move'[t] = NoMove
  BY <1>0 DEF MoveCall, NoMove, Inv
<1> HIDE DEF b
<1>3. \A u \in Threads : MoveOK(u)'
  <2> SUFFICES ASSUME NEW u \in Threads PROVE MoveOK(u)'
    OBVIOUS
  <2>1. CASE u = t
    BY <1>2, <2>1 DEF MoveOK, NoMove
  <2>2. CASE u # t
    <3>1. MoveOK(u) /\ move'[u] = move[u]
      BY <1>0, <2>2 DEF Inv
    <3>2. \A p : Holds(u, p) => /\ p \in DOMAIN held' /\ held'[p].owner = u
                                /\ mem'[p].next = mem[p].next
      BY <1>0, <1>1, <2>2 DEF Holds
    <3> QED
      BY <3>1, <3>2, OtherMove
  <2> QED
    BY <2>1, <2>2
<1> QED
  BY <1>1, <1>2, <1>3 DEF Inv

-----------------------------------------------------------------------------
(***************************************************************************)
(* The theorems.                                                           *)
(***************************************************************************)

\* rt_system_heap_init makes a sound heap.
LEMMA InvInit == Init => Inv
<1> SUFFICES ASSUME Init PROVE Inv
  OBVIOUS
<1> USE DEF Init
<1>1. heap_end \in Nat /\ heap_end > HeaderSize /\ HeaderSize \in Nat \ {0}
  BY HeaderAssumption, MemSizeAssumption, MinSizeAssumption DEF heap_end
<1>2. /\ DOMAIN mem = {0, heap_end}
      /\ mem[0] = [used |-> FALSE, next |-> heap_end, prev |-> 0]
      /\ mem[heap_end] = [used |-> TRUE, next |-> heap_end, prev |-> heap_end]
  BY <1>1
<1>3. mem \in [DOMAIN mem -> Header]
  BY <1>1 DEF Header
<1>4. /\ ~mem[0].used /\ mem[0].next = heap_end /\ mem[0].prev = 0
      /\ mem[heap_end].used /\ mem[heap_end].next = heap_end /\ mem[heap_end].prev = heap_end
  BY <1>2
<1>5. Linked(mem)
  BY <1>1, <1>2, <1>3, <1>4 DEF Linked
<1>6. NoFreePair(mem) /\ Lowest(mem, lfree)
  BY <1>1, <1>2, <1>4 DEF NoFreePair, Lowest
<1>7. UsedTotal(mem, used_mem)
  <2> DEFINE U == [q \in DOMAIN mem |-> 0]
  <2>1. UsedBelow(U, mem) /\ U[heap_end] = used_mem
    BY <1>1, <1>2, <1>4 DEF UsedBelow
  <2> QED
    BY <2>1 DEF UsedTotal
<1>8. max_mem \in used_mem .. heap_end
  BY <1>1
<1>9. Given
  <2>1. UsedBlocks(mem) = {}
    BY <1>2, <1>4 DEF UsedBlocks
  <2> QED
    BY <2>1 DEF Given
<1>10. move \in [Threads -> MoveCall] /\ \A t \in Threads : MoveOK(t)
  BY DEF NoMove, MoveCall, MoveOK
<1> QED
  BY <1>5, <1>6, <1>7, <1>8, <1>9, <1>10 DEF Inv, Sound

\* Every step keeps the invariant.
LEMMA InvStep ==
    ASSUME Inv, [Next]_vars
    PROVE  Inv'
<1>1. CASE UNCHANGED vars
  <2>1. mem' = mem /\ lfree' = lfree /\ used_mem' = used_mem /\ max_mem' = max_mem
        /\ held' = held /\ move' = move
    BY <1>1 DEF vars
  <2>2. Sound(mem', lfree', used_mem')
    BY <2>1 DEF Inv
  <2>3. Given'
    BY <2>1 DEF Inv, Given, UsedBlocks, Room
  <2>4. ASSUME NEW t \in Threads
        PROVE  MoveOK(t)'
    BY <2>1 DEF Inv, MoveOK, Holds, Room
  <2>5. max_mem' \in used_mem' .. heap_end /\ move' \in [Threads -> MoveCall]
    BY <2>1 DEF Inv
  <2> QED
    BY <2>2, <2>3, <2>4, <2>5 DEF Inv, Sound
<1>2. ASSUME NEW t \in Threads, NEW b \in DOMAIN held, NEW newsize \in Sizes,
             ReallocInPlace(t, b, newsize) \/ ReallocMove(t, b, newsize)
      PROVE  Inv'
  BY <1>2, InPlaceInv, MoveInv
<1> QED
  BY <1>1, <1>2, MallocInv, FreeInv, ReallocMallocInv, ReallocFreeInv DEF Next

\* The invariant holds in every reachable state.
LEMMA HeapInvariant == Spec => []Inv
BY InvInit, InvStep, PTL DEF Spec

\* Every variable has its type: no link leaves the heap, and used_mem and
\* max_mem stay between 0 and its size although blocks are added and
\* subtracted by different formulas in rt_malloc, rt_free and rt_realloc.
THEOREM HeapTypeCorrect == Spec => []TypeOK
<1>1. ASSUME Inv PROVE TypeOK
  <2>0. /\ Linked(mem) /\ Lowest(mem, lfree) /\ UsedTotal(mem, used_mem)
        /\ max_mem \in used_mem .. heap_end /\ Given /\ move \in [Threads -> MoveCall]
    BY <1>1 DEF Inv, Sound
  <2>1. Blocks \subseteq 0 .. heap_end /\ {0, heap_end} \subseteq Blocks /\ lfree \in Blocks
    BY <2>0 DEF Blocks, Linked, Lowest
  <2>2. \A p \in Blocks : mem[p] \in [used : BOOLEAN, next : Blocks, prev : 0 .. heap_end]
    <3> SUFFICES ASSUME NEW p \in Blocks
                 PROVE  mem[p] \in [used : BOOLEAN, next : Blocks, prev : 0 .. heap_end]
      OBVIOUS
    <3>1. mem[p] \in [used : BOOLEAN, next : Int, prev : Int]
      BY <2>0 DEF Linked, Header, Blocks
    <3>2. mem[p].next \in Blocks
      BY <2>0 DEF Linked, Blocks
    <3>3. mem[p].prev \in 0 .. heap_end
      BY <2>0, <2>1 DEF Linked, Blocks
    <3> QED
      BY <3>1, <3>2, <3>3
  <2>3. used_mem \in 0 .. heap_end
    BY <2>0, TotalBounds
  <2>4. DOMAIN held \subseteq Blocks /\ \A p \in DOMAIN held : held[p] \in [owner : Threads, size : Sizes]
    BY <2>0 DEF Given, UsedBlocks, Blocks
  <2>5. ASSUME NEW t \in Threads
        PROVE  /\ move[t].pc \in {"none", "malloc", "free"}
               /\ move[t].rmem \in Blocks /\ move[t].nmem \in Blocks
    <3>1. move[t] \in MoveCall /\ MoveOK(t)
      BY <1>1, <2>0 DEF Inv
    <3> QED
      BY <2>1, <2>4, <3>1 DEF MoveCall, MoveOK, Holds
  <2> QED
    BY <2>0, <2>1, <2>2, <2>3, <2>4, <2>5 DEF TypeOK
<1> QED
  BY <1>1, HeapInvariant, PTL

\* The chain covers the heap whatever was split and merged in which order:
\* no two blocks overlap and none is lost.
THEOREM HeapChain == Spec => []ChainOK
<1>1. ASSUME Inv PROVE ChainOK
  BY <1>1 DEF Inv, Sound, Linked, ChainOK, Blocks
<1> QED
  BY <1>1, HeapInvariant, PTL

\* plug_holes has taken care: no two free blocks lie side by side.
THEOREM HeapCoalesced == Spec => []Coalesced
<1>1. ASSUME Inv PROVE Coalesced
  BY <1>1 DEF Inv, Sound, NoFreePair, Coalesced, Blocks
<1> QED
  BY <1>1, HeapInvariant, PTL

\* lfree is the lowest free block, or the end of the heap.
THEOREM HeapLowestFree == Spec => []LowestFree
<1>1. ASSUME Inv PROVE LowestFree
  <2> DEFINE S == {p \in Blocks : ~mem[p].used} \cup {heap_end}
  <2>1. Linked(mem) /\ Lowest(mem, lfree)
    BY <1>1 DEF Inv, Sound
  <2>2. /\ S \in SUBSET Nat /\ S # {} /\ lfree \in S /\ lfree \in Int
        /\ \A x \in S : lfree <= x
    <3>1. heap_end \in Nat /\ Blocks \subseteq 0 .. heap_end
      BY <2>1, HeaderAssumption, MemSizeAssumption DEF heap_end, Linked, Blocks
    <3> QED
      BY <2>1, <3>1 DEF Lowest, Blocks
  <2>3. Min(S) \in S /\ \A x \in S : Min(S) <= x
    BY <2>2, LeastOf
  <2>4. lfree = Min(S)
    BY <2>2, <2>3
  <2> QED
    BY <2>4 DEF LowestFree
<1> QED
  BY <1>1, HeapInvariant, PTL

\* The used blocks are those the threads were given, with room for what was
\* asked for, and the copy of rt_realloc stays inside both blocks although
\* heap_sem was released in between.
THEOREM HeapHeldBlocks == Spec => []HeldBlocks
<1>1. ASSUME Inv PROVE HeldBlocks
  <2>1. DOMAIN held = {p \in Blocks \ {heap_end} : mem[p].used}
    BY <1>1 DEF Inv, Given, UsedBlocks, Blocks
  <2>2. \A p \in DOMAIN held : Room(p) >= held[p].size
    BY <1>1 DEF Inv, Given
  <2>3. \A t \in Threads : move[t].pc = "free" =>
            /\ Room(move[t].rmem) = move[t].size
            /\ Room(move[t].nmem) >= move[t].newsize
    BY <1>1 DEF Inv, MoveOK
  <2> QED
    BY <2>1, <2>2, <2>3 DEF HeldBlocks
<1> QED
  BY <1>1, HeapInvariant, PTL

\* rt_malloc refuses a request only when no free block has room for it, the
\* one that would fill the end of the heap exactly excepted.
THEOREM HeapRefusal == Spec => []RefusedAtTheEndOnly
<1>1. ASSUME Inv PROVE RefusedAtTheEndOnly
  <2> SUFFICES ASSUME NEW size \in MinSize .. MemSize, Fitting(size) = {},
                      NEW p \in Blocks, ~mem[p].used, Room(p) >= size
               PROVE  mem[p].next = heap_end /\ Room(p) = size
    BY DEF RefusedAtTheEndOnly
  <2>1. Linked(mem) /\ Lowest(mem, lfree)
    BY <1>1 DEF Inv, Sound
  <2>2. /\ HeaderSize \in Nat /\ MemSize \in Nat /\ heap_end = MemSize + HeaderSize /\ size \in Int
        /\ Blocks \subseteq 0 .. heap_end /\ mem[heap_end].used
    BY <2>1, HeaderAssumption, MemSizeAssumption, MinSizeAssumption DEF heap_end, Linked, Blocks
  <2>3. p \in Int /\ p >= lfree /\ mem[p].next \in 0 .. heap_end
    BY <2>1, <2>2 DEF Lowest, Linked, Blocks
  <2>4. ~(p < MemSize - size)
    BY <2>3 DEF Fitting, Searched
  <2> QED
    BY <2>2, <2>3, <2>4 DEF Room
<1> QED
  BY <1>1, HeapInvariant, PTL

-----------------------------------------------------------------------------
(***************************************************************************)
(* The statistics as StatsRight states them, with the fold of the          *)
(* community modules.  The fold is a recursive function over the parts of  *)
(* a set: that it exists, and that the order in which it takes the members *)
(* does not matter, is shown with a part of least size that contradicts    *)
(* it.                                                                     *)
(***************************************************************************)

\* The fold takes the elements of a set one by one, each as CHOOSE picks it.
Pick(s) == CHOOSE x \in s : TRUE

\* g gives every part of A that has at most n members the sum of f over it.
SumsUpTo(g, f, A, n) ==
    g = [s \in {s \in SUBSET A : Cardinality(s) <= n} |->
            IF s = {} THEN 0 ELSE f[Pick(s)] + g[s \ {Pick(s)}]]

\* g is the fold of f over the parts of A.
IsSum(g, f, A) ==
    g = [s \in SUBSET A |-> IF s = {} THEN 0 ELSE f[Pick(s)] + g[s \ {Pick(s)}]]

\* A set without one of its members.
LEMMA OneLess ==
    ASSUME NEW A, IsFiniteSet(A), NEW s \in SUBSET A, NEW x \in s
    PROVE  /\ s \ {x} \in SUBSET A
           /\ Cardinality(s) \in Nat \ {0}
           /\ Cardinality(s \ {x}) = Cardinality(s) - 1
<1>1. IsFiniteSet(s)
  BY FS_Subset
<1>2. Cardinality(s) \in Nat
  BY <1>1, FS_CardinalityType
<1>3. Cardinality(s) # 0
  BY <1>1, FS_EmptySet
<1>4. Cardinality(s \ {x}) = Cardinality(s) - 1
  BY <1>1, FS_RemoveElement
<1> QED
  BY <1>2, <1>3, <1>4

\* The sums of the parts with n members lead to those with n + 1.
LEMMA OneMore ==
    ASSUME NEW A, IsFiniteSet(A), NEW f, NEW n \in Nat, NEW g, SumsUpTo(g, f, A, n)
    PROVE  \E h : SumsUpTo(h, f, A, n + 1)
<1> DEFINE L == {s \in SUBSET A : Cardinality(s) <= n}
           M == {s \in SUBSET A : Cardinality(s) <= n + 1}
           h == [s \in M |-> IF s = {} THEN 0 ELSE f[Pick(s)] + g[s \ {Pick(s)}]]
<1>1. \A s \in L : g[s] = IF s = {} THEN 0 ELSE f[Pick(s)] + g[s \ {Pick(s)}]
  BY DEF SumsUpTo
<1>2. \A s \in SUBSET A : Cardinality(s) \in Nat
  BY FS_Subset, FS_CardinalityType
<1>3. L \subseteq M
  BY <1>2
<1>4. \A s \in L : h[s] = g[s]
  BY <1>1, <1>3
<1>5. ASSUME NEW s \in M, s # {}
      PROVE  s \ {Pick(s)} \in L
  <2>1. Pick(s) \in s
    BY <1>5 DEF Pick
  <2>2. /\ s \ {Pick(s)} \in SUBSET A /\ Cardinality(s) \in Nat \ {0}
        /\ Cardinality(s \ {Pick(s)}) = Cardinality(s) - 1
    BY <2>1, OneLess
  <2>3. Cardinality(s) <= n + 1
    OBVIOUS
  <2> QED
    BY <2>2, <2>3
<1>6. \A s \in M : h[s] = IF s = {} THEN 0 ELSE f[Pick(s)] + h[s \ {Pick(s)}]
  BY <1>4, <1>5
<1>7. h = [s \in M |-> IF s = {} THEN 0 ELSE f[Pick(s)] + h[s \ {Pick(s)}]]
  BY <1>6
<1> HIDE DEF h
<1> QED
  BY <1>7 DEF SumsUpTo

\* So the fold over the parts of a finite set exists.
LEMMA SumExists ==
    ASSUME NEW A, IsFiniteSet(A), NEW f
    PROVE  \E g : IsSum(g, f, A)
<1> DEFINE Bad == {n \in Nat : ~ \E g : SumsUpTo(g, f, A, n)}
<1>1. \A s \in SUBSET A : IsFiniteSet(s) /\ Cardinality(s) \in Nat
  BY FS_Subset, FS_CardinalityType
<1>2. 0 \notin Bad
  <2> DEFINE g == [s \in {{}} |-> 0]
  <2>1. \A s \in SUBSET A : Cardinality(s) <= 0 <=> s = {}
    <3>1. \A s \in SUBSET A : Cardinality(s) = 0 <=> s = {}
      BY <1>1, FS_EmptySet
    <3> QED
      BY <1>1, <3>1
  <2>2. {s \in SUBSET A : Cardinality(s) <= 0} = {{}}
    BY <2>1
  <2>3. SumsUpTo(g, f, A, 0)
    BY <2>2 DEF SumsUpTo
  <2> QED
    BY <2>3
<1>3. Bad = {}
  <2> SUFFICES ASSUME Bad # {} PROVE FALSE
    OBVIOUS
  <2> DEFINE n == Min(Bad)
  <2>1. n \in Bad /\ \A x \in Bad : n <= x
    <3>1. Bad \in SUBSET Nat
      OBVIOUS
    <3> HIDE DEF Bad
    <3> QED
      BY <3>1, LeastOf
  <2> HIDE DEF n
  <2>2. n \in Nat /\ n # 0
    BY <1>2, <2>1
  <2>3. n - 1 \in Nat /\ n - 1 \notin Bad
    <3>1. n - 1 \in Nat /\ ~(n <= n - 1)
      BY <2>2
    <3> HIDE DEF Bad
    <3> QED
      BY <3>1, <2>1
  <2>4. PICK g : SumsUpTo(g, f, A, n - 1)
    BY <2>3
  <2>5. \E h : SumsUpTo(h, f, A, n - 1 + 1)
    BY <2>3, <2>4, OneMore
  <2>6. n - 1 + 1 = n
    BY <2>2
  <2> QED
    BY <2>1, <2>5, <2>6
<1> DEFINE c == Cardinality(A)
<1>4. c \in Nat
  BY <1>1
<1>5. PICK g : SumsUpTo(g, f, A, c)
  BY <1>3, <1>4
<1>6. \A s \in SUBSET A : Cardinality(s) <= c
  BY FS_Subset
<1>7. {s \in SUBSET A : Cardinality(s) <= c} = SUBSET A
  BY <1>6
<1>8. IsSum(g, f, A)
  BY <1>5, <1>7 DEF SumsUpTo, IsSum
<1> QED
  BY <1>8

\* A fold of numbers is a number, and any member may be taken out of it.
LEMMA SumTakesOut ==
    ASSUME NEW A, IsFiniteSet(A), NEW f \in [A -> Int], NEW g, IsSum(g, f, A)
    PROVE  \A s \in SUBSET A : /\ g[s] \in Int
                               /\ \A x \in s : g[s] = f[x] + g[s \ {x}]
<1> DEFINE Good(s) == g[s] \in Int /\ \A x \in s : g[s] = f[x] + g[s \ {x}]
           Bad == {n \in Nat : \E s \in SUBSET A : Cardinality(s) = n /\ ~Good(s)}
<1>0. \A s \in SUBSET A : g[s] = IF s = {} THEN 0 ELSE f[Pick(s)] + g[s \ {Pick(s)}]
  BY DEF IsSum
<1>1. \A s \in SUBSET A : Cardinality(s) \in Nat
  BY FS_Subset, FS_CardinalityType
<1>2. SUFFICES Bad = {}
  BY <1>1
<1> SUFFICES ASSUME Bad # {} PROVE FALSE
  OBVIOUS
<1> DEFINE n == Min(Bad)
<1>3. n \in Bad /\ \A x \in Bad : n <= x
  <2>1. Bad \in SUBSET Nat
    OBVIOUS
  <2> HIDE DEF Bad
  <2> QED
    BY <2>1, LeastOf
<1> HIDE DEF n
<1>4. PICK s \in SUBSET A : Cardinality(s) = n /\ ~Good(s)
  BY <1>3
<1>5. ASSUME NEW r \in SUBSET A, Cardinality(r) < n
      PROVE  Good(r)
  <2>1. Cardinality(r) \in Nat /\ ~(n <= Cardinality(r))
    BY <1>1, <1>3, <1>5
  <2>2. Cardinality(r) \notin Bad
    <3> HIDE DEF Bad
    <3> QED
      BY <1>3, <2>1
  <2> QED
    BY <2>1, <2>2
<1>6. ASSUME NEW r \in SUBSET A, NEW x \in r, Cardinality(r) <= n
      PROVE  r \ {x} \in SUBSET A /\ Good(r \ {x})
  <2>1. /\ r \ {x} \in SUBSET A /\ Cardinality(r) \in Nat \ {0}
        /\ Cardinality(r \ {x}) = Cardinality(r) - 1
    BY OneLess
  <2>2. Cardinality(r \ {x}) < n /\ n \in Nat
    BY <1>3, <1>6, <2>1
  <2> QED
    BY <1>5, <2>1, <2>2
<1>7. s # {}
  <2>1. g[{}] = 0
    BY <1>0
  <2>2. Good({})
    BY <2>1
  <2> QED
    BY <2>2, <1>4
<1> DEFINE c == Pick(s)
<1>8. c \in s
  BY <1>7 DEF Pick
<1>9. g[s] = f[c] + g[s \ {c}]
  BY <1>7, <1>0
<1> HIDE DEF c
<1>10. n \in Nat /\ Cardinality(s) <= n
  BY <1>3, <1>4
<1>11. s \ {c} \in SUBSET A /\ Good(s \ {c})
  BY <1>6, <1>8, <1>10
<1>12. f[c] \in Int /\ g[s \ {c}] \in Int
  BY <1>8, <1>11
<1>13. g[s] \in Int
  BY <1>9, <1>12
<1>14. ASSUME NEW x \in s
       PROVE  g[s] = f[x] + g[s \ {x}]
  <2>1. CASE x = c
    BY <2>1, <1>9
  <2>2. CASE x # c
    <3> DEFINE r == (s \ {c}) \ {x}
    <3>1. x \in s \ {c} /\ c \in s \ {x} /\ r = (s \ {x}) \ {c}
      BY <2>2, <1>8
    <3>2. g[s \ {c}] = f[x] + g[r]
      BY <3>1, <1>11
    <3>3. s \ {x} \in SUBSET A /\ Good(s \ {x})
      BY <1>6, <1>10
    <3>4. g[s \ {x}] = f[c] + g[r]
      BY <3>1, <3>3
    <3>5. g[r] \in Int
      <4>1. Cardinality(s \ {c}) = Cardinality(s) - 1 /\ Cardinality(s) \in Nat
        BY <1>8, OneLess
      <4>2. Cardinality(s \ {c}) <= n
        BY <4>1, <1>10
      <4> QED
        BY <1>6, <1>11, <3>1, <4>2
    <3>6. f[x] \in Int
      OBVIOUS
    <3> HIDE DEF r
    <3> QED
      BY <3>2, <3>4, <3>5, <3>6, <1>9, <1>12
  <2> QED
    BY <2>1, <2>2
<1> QED
  BY <1>4, <1>13, <1>14

\* The fold of StatsRight, over the blocks A of the chain m.
SizeSum(m, A) == MapThenSumSet(LAMBDA p : m[p].next - p, A)

\* SizeSum is the fold of the sizes of the blocks.
LEMMA BlockSum ==
    ASSUME NEW m, NEW A, IsFiniteSet(A), \A p \in A : m[p].next - p \in Int
    PROVE  \E g : /\ IsSum(g, [p \in A |-> m[p].next - p], A)
                  /\ SizeSum(m, A) = g[A]
<1> DEFINE f == [p \in A |-> m[p].next - p]
           fold(g) == [s \in SUBSET A |->
                         IF s = {} THEN 0 ELSE (m[Pick(s)].next - Pick(s)) + g[s \ {Pick(s)}]]
           it == CHOOSE g : g = fold(g)
<1>1. SizeSum(m, A) = it[A]
  BY DEF SizeSum, MapThenSumSet, MapThenFoldSet, Pick
<1>2. \A s \in SUBSET A : s # {} => Pick(s) \in A
  BY DEF Pick
<1>3. \A g : g = fold(g) <=> IsSum(g, f, A)
  <2> SUFFICES ASSUME NEW g PROVE g = fold(g) <=> IsSum(g, f, A)
    OBVIOUS
  <2> DEFINE sum == [s \in SUBSET A |-> IF s = {} THEN 0 ELSE f[Pick(s)] + g[s \ {Pick(s)}]]
  <2>1. \A s \in SUBSET A : s # {} => f[Pick(s)] = m[Pick(s)].next - Pick(s)
    BY <1>2
  <2>2. fold(g) = sum
    <3> HIDE DEF f
    <3> QED
      BY <2>1
  <2> HIDE DEF f
  <2>3. IsSum(g, f, A) <=> g = sum
    BY DEF IsSum
  <2> QED
    BY <2>2, <2>3
<1>4. \E g : IsSum(g, f, A)
  BY SumExists
<1> HIDE DEF f
<1>5. \E g : g = fold(g)
  BY <1>3, <1>4
<1>6. it = fold(it)
  <2> HIDE DEF fold
  <2> QED
    BY <1>5
<1>7. IsSum(it, f, A)
  BY <1>3, <1>6
<1> HIDE DEF it
<1> QED
  BY <1>1, <1>7 DEF f

\* The two forms of the statistics agree: the fold over the used blocks is the
\* sum that next adds up from the start of the chain to its end.
LEMMA TotalIsSum ==
    ASSUME NEW m, Linked(m), NEW total, UsedTotal(m, total)
    PROVE  total = SizeSum(m, {p \in DOMAIN m \ {heap_end} : m[p].used})
<1> DEFINE A == {p \in DOMAIN m \ {heap_end} : m[p].used}
           f == [p \in A |-> m[p].next - p]
           Below(p) == {q \in A : q < p}
<1>1. heap_end \in Nat /\ DOMAIN m \subseteq 0 .. heap_end /\ 0 \in DOMAIN m /\ heap_end \in DOMAIN m
  BY HeaderAssumption, MemSizeAssumption DEF heap_end, Linked
<1>2. \A p \in DOMAIN m : p \in Nat /\ m[p].next \in Int
  BY <1>1 DEF Linked, Header
<1>3. IsFiniteSet(A)
  <2>1. IsFiniteSet(0 .. heap_end)
    BY <1>1, FS_Interval
  <2>2. A \in SUBSET (0 .. heap_end)
    BY <1>1
  <2> QED
    BY <2>1, <2>2, FS_Subset
<1>4. \A p \in A : m[p].next - p \in Int
  BY <1>2
<1>5. PICK g : IsSum(g, f, A) /\ SizeSum(m, A) = g[A]
  <2> HIDE DEF A
  <2> QED
    BY <1>3, <1>4, BlockSum
<1>6. f \in [A -> Int] /\ \A p \in A : f[p] = m[p].next - p
  BY <1>4
<1> HIDE DEF f
<1>7. \A s \in SUBSET A : g[s] \in Int /\ \A x \in s : g[s] = f[x] + g[s \ {x}]
  <2>1. f \in [A -> Int]
    BY <1>6
  <2>2. IsSum(g, f, A)
    BY <1>5
  <2> HIDE DEF A
  <2> QED
    BY <1>3, <2>1, <2>2, SumTakesOut
<1>8. g[{}] = 0
  BY <1>5 DEF IsSum
<1>9. PICK U : UsedBelow(U, m) /\ U[heap_end] = total
  BY DEF UsedTotal
<1> DEFINE Bad == {p \in DOMAIN m : g[Below(p)] # U[p]}
<1>10. Bad = {}
  <2> SUFFICES ASSUME Bad # {} PROVE FALSE
    OBVIOUS
  <2> DEFINE n == Min(Bad)
  <2>1. n \in Bad /\ \A x \in Bad : n <= x
    <3>1. Bad \in SUBSET Nat
      BY <1>2
    <3> HIDE DEF Bad
    <3> QED
      BY <3>1, LeastOf
  <2> HIDE DEF n
  <2>2. n \in DOMAIN m /\ n \in Nat /\ g[Below(n)] # U[n]
    BY <2>1, <1>2
  <2>3. n # 0
    <3>1. Below(0) = {}
      BY <1>2
    <3>2. U[0] = 0
      BY <1>9 DEF UsedBelow
    <3> QED
      BY <3>1, <3>2, <2>2, <1>8
  <2>4. PICK q \in DOMAIN m \ {heap_end} : m[q].next = n /\ q < n
    <3> DEFINE D == {n - r : r \in {r \in DOMAIN m : r < n}}
    <3>1. D \in SUBSET Nat /\ D # {}
      BY <1>1, <1>2, <2>2, <2>3
    <3>2. Min(D) \in D /\ \A d \in D : Min(D) <= d
      <4> HIDE DEF D
      <4> QED
        BY <3>1, LeastOf
    <3>3. PICK q \in DOMAIN m : q < n /\ \A r \in DOMAIN m : r < n => n - q <= n - r
      BY <3>2
    <3>4. q \in Nat /\ q # heap_end
      BY <3>3, <1>1, <1>2, <2>2
    <3>5. /\ m[q].next \in DOMAIN m /\ m[q].next > q + HeaderSize
          /\ ~(q < n /\ n < m[q].next)
      BY <3>3, <3>4, <2>2 DEF Linked
    <3>6. m[q].next \in Nat /\ m[q].next > q
      BY <3>4, <3>5, <1>2, HeaderAssumption
    <3>7. ~(m[q].next < n)
      BY <3>3, <3>4, <3>5, <3>6, <2>2
    <3>8. m[q].next = n
      BY <3>3, <3>5, <3>6, <3>7, <2>2
    <3> QED
      BY <3>3, <3>4, <3>8
  <2>5. q \in Nat /\ q \notin Bad
    BY <1>2, <2>1, <2>2, <2>4
  <2>6. g[Below(q)] = U[q]
    BY <2>4, <2>5
  <2>7. \A r \in A : r < n <=> r < q \/ r = q
    <3>1. \A r \in DOMAIN m : ~(q < r /\ r < n)
      BY <2>4 DEF Linked
    <3> QED
      BY <3>1, <1>2, <2>2, <2>4, <2>5
  <2>8. U[n] = U[q] + (IF m[q].used THEN n - q ELSE 0) /\ U[q] \in Nat
    BY <1>9, <2>4 DEF UsedBelow
  <2>9. CASE m[q].used
    <3>1. q \in A /\ q \in Below(n) /\ Below(n) \in SUBSET A
      BY <2>4, <2>9
    <3>2. Below(n) \ {q} = Below(q)
      BY <2>7, <2>5, <1>2
    <3>3. g[Below(n)] = f[q] + g[Below(q)]
      BY <1>7, <3>1, <3>2
    <3>4. f[q] = n - q /\ n - q \in Int
      BY <1>6, <3>1, <2>2, <2>4, <2>5
    <3> QED
      BY <3>3, <3>4, <2>2, <2>6, <2>8, <2>9
  <2>10. CASE ~m[q].used
    <3>1. Below(n) = Below(q)
      BY <2>7, <2>10
    <3>2. U[n] = U[q]
      BY <2>8, <2>10
    <3> QED
      BY <3>1, <3>2, <2>2, <2>6
  <2> QED
    BY <2>9, <2>10
<1>11. Below(heap_end) = A
  BY <1>1
<1>12. g[A] = U[heap_end]
  BY <1>1, <1>10, <1>11
<1> QED
  BY <1>5, <1>9, <1>12

\* What rt_memory_info reports as used is what the used blocks and their
\* headers take, after every section of rt_malloc, rt_free and rt_realloc.
THEOREM HeapStatistics == Spec => []StatsRight
<1>1. Inv => StatsRight
  <2> SUFFICES ASSUME Inv PROVE StatsRight
    OBVIOUS
  <2>1. Linked(mem) /\ UsedTotal(mem, used_mem)
    BY DEF Inv, Sound
  <2>2. used_mem = SizeSum(mem, {p \in DOMAIN mem \ {heap_end} : mem[p].used})
    BY <2>1, TotalIsSum
  <2> QED
    BY <2>2 DEF StatsRight, SizeSum, Blocks
<1> QED
  BY <1>1, HeapInvariant, PTL
=============================================================================
