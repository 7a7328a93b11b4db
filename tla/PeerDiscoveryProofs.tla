------------------------- MODULE PeerDiscoveryProofs -------------------------
(***************************************************************************)
(* Proofs about PeerDiscovery, for every device whose attribute table is in *)
(* order, pools of any size, and any failures.                              *)
(***************************************************************************)
EXTENDS PeerDiscovery, SequenceTheorems, FiniteSetTheorems, WellFoundedInduction, TLAPS

Attribute == Service \cup Characteristic \cup Descriptor

\* The types of the variables, in full.
Types ==
  /\ link \in {"down", "up", "broken"}
  /\ db \in Databases \cup {Nothing}
  /\ peer \in [svcs : Seq(Service), disc_prev_chr_val : 0 .. MaxHandle,
               cur_svc : -1 .. MaxHandle]
  /\ free \in [peer : Nat, svc : Nat, chr : Nat, dsc : Nat]
  /\ proc \in [op : {"none", "svcs", "chrs", "dscs"}, heard : BOOLEAN,
               rest : SUBSET Attribute, chr : 0 .. MaxHandle]
  /\ started \in BOOLEAN /\ terminating \in BOOLEAN
  /\ answers \in {<<>>, <<TRUE>>, <<FALSE>>}
  /\ written \in 0 .. MaxHandle

\* A procedure is under way exactly while a discovery has not answered, and
\* only on a connection that is up.
ControlInv ==
  /\ link = "down" <=> db = Nothing
  /\ link = "down" => peer = NoPeer
  /\ peer = NoPeer <=> peer.cur_svc = -1
  /\ peer = NoPeer => ~started
  /\ ~started => answers = <<>>
  /\ proc.op # "none" <=> started /\ answers = <<>>
  /\ proc.op = "none" => proc = NoProc
  /\ proc.op # "none" => link = "up" /\ peer.disc_prev_chr_val > 0
  /\ answers = <<>> => written = 0 /\ ~terminating

\* What is known of a characteristic, of a service, of a device is the first
\* part of what there is.
ChrPart(c, g) ==
  /\ c.def = g.def /\ c.val = g.val /\ c.uuid = g.uuid
  /\ Len(c.dscs) <= Len(g.dscs)
  /\ \A k \in 1 .. Len(c.dscs) : c.dscs[k] = g.dscs[k]

SvcPart(s, g) ==
  /\ s.start = g.start /\ s.end = g.end /\ s.uuid = g.uuid
  /\ Len(s.chrs) <= Len(g.chrs)
  /\ \A j \in 1 .. Len(s.chrs) : ChrPart(s.chrs[j], g.chrs[j])

TableInv ==
  /\ Len(peer.svcs) <= Len(db)
  /\ \A i \in 1 .. Len(peer.svcs) : SvcPart(peer.svcs[i], db[i])

\* Elements of a sequence from place n on.
After(q, n) == {q[i] : i \in n + 1 .. Len(q)}

SvcsInv ==
  proc.op = "svcs" =>
    /\ peer.disc_prev_chr_val = 1
    /\ proc.rest = After(db, Len(peer.svcs))
    /\ \A i \in 1 .. Len(peer.svcs) : peer.svcs[i].chrs = <<>>

HasChrs(i) == Len(peer.svcs[i].chrs) = Len(db[i].chrs)
HasDscs(i, j) == Len(peer.svcs[i].chrs[j].dscs) = Len(db[i].chrs[j].dscs)

ChrsOf(c) ==
  /\ peer.cur_svc = db[c].start
  /\ proc.rest = After(db[c].chrs, Len(peer.svcs[c].chrs))
  /\ \A i \in 1 .. Len(db) : i # c => peer.svcs[i].chrs = <<>> \/ HasChrs(i)

ChrsInv ==
  proc.op = "chrs" =>
    /\ peer.disc_prev_chr_val = 1
    /\ Len(peer.svcs) = Len(db)
    /\ \A i \in 1 .. Len(db) : \A j \in 1 .. Len(peer.svcs[i].chrs) :
         peer.svcs[i].chrs[j].dscs = <<>>
    /\ \E c \in 1 .. Len(db) : ChrsOf(c)

DscsOf(c, d) ==
  /\ proc.chr = db[c].chrs[d].val
  /\ proc.rest = After(db[c].chrs[d].dscs, Len(peer.svcs[c].chrs[d].dscs))
  /\ \A i \in 1 .. Len(db) : \A j \in 1 .. Len(db[i].chrs) :
       <<i, j>> # <<c, d>> =>
         \/ HasDscs(i, j)
         \/ peer.svcs[i].chrs[j].dscs = <<>> /\ proc.chr < db[i].chrs[j].def

DscsInv ==
  proc.op = "dscs" =>
    /\ peer.disc_prev_chr_val = proc.chr
    /\ Len(peer.svcs) = Len(db)
    /\ \A i \in 1 .. Len(db) : HasChrs(i)
    /\ \E c \in 1 .. Len(db) : \E d \in 1 .. Len(db[c].chrs) : DscsOf(c, d)

FoundInv == answers = <<TRUE>> => peer.svcs = db

PoolInv ==
  /\ PoolsAccounted
  /\ IsFiniteSet(ChrPlaces(peer.svcs)) /\ IsFiniteSet(DscPlaces(peer.svcs))

DiscInv ==
  /\ Types /\ ControlInv /\ TableInv
  /\ SvcsInv /\ ChrsInv /\ DscsInv
  /\ FoundInv /\ SubscribesToSpeedometer /\ PoolInv
-----------------------------------------------------------------------------
(* Lemmas about the operators.                                             *)

\* A set of numbers that is not empty has a least element.
LEMMA LeastNumber ==
  ASSUME NEW S \in SUBSET Nat, S # {}
  PROVE  Min(S) \in S /\ \A x \in S : Min(S) <= x
  <1>1. \E m \in S : \A x \in S : ~(<<x, m>> \in OpToRel(<, Nat))
    BY NatLessThanWellFounded, WFMin
  <1>2. PICK m \in S : \A x \in S : ~(<<x, m>> \in OpToRel(<, Nat))
    BY <1>1
  <1>3. \A x \in S : m <= x
    <2> SUFFICES ASSUME NEW x \in S PROVE m <= x
      OBVIOUS
    <2>1. <<x, m>> \notin OpToRel(<, Nat)
      BY <1>2
    <2>2. <<x, m>> \in Nat \X Nat /\ x \in Nat /\ m \in Nat
      OBVIOUS
    <2>3. ~(x < m)
      BY <2>1, <2>2 DEF OpToRel
    <2>4. QED
      BY <2>2, <2>3
  <1>4. QED
    BY <1>2, <1>3 DEF Min

\* An element below all the others is the least.
LEMMA MinIs ==
  ASSUME NEW S \in SUBSET Int, NEW m \in S, \A x \in S : m <= x
  PROVE  Min(S) = m
  <1>1. Min(S) \in S /\ \A x \in S : Min(S) <= x
    BY DEF Min
  <1>2. Min(S) <= m /\ m <= Min(S) /\ Min(S) \in Int /\ m \in Int
    BY <1>1
  <1>3. QED
    BY <1>2

\* Places of a list, of a longer one, and of one with an entry more.
LEMMA NextPlaces ==
  \A m, k \in Nat :
    /\ 0 <= k
    /\ m < k => m + 1 \in 1 .. k
    /\ \A n \in 1 .. m : n < m + 1 /\ (m <= k => n \in 1 .. k)
    /\ \A n \in 1 .. m + 1 : n \in 1 .. m \/ n = m + 1
  OBVIOUS

\* Handles below h all come before it.
LEMMA PrevLast ==
  ASSUME NEW q \in Seq(Nat), NEW h \in Nat, \A n \in 1 .. Len(q) : q[n] < h
  PROVE  Prev(q, h) = Len(q) /\ ~Present(q, h)
  <1> DEFINE S == {n \in 0 .. Len(q) : n = Len(q) \/ q[n + 1] >= h}
  <1>1. S = {Len(q)}
    <2>1. ASSUME NEW n \in S, n # Len(q) PROVE FALSE
      <3>1. n + 1 \in 1 .. Len(q) /\ q[n + 1] >= h
        BY <2>1
      <3>2. q[n + 1] \in Nat /\ q[n + 1] < h
        BY <3>1
      <3>3. QED
        BY <3>1, <3>2
    <2>2. Len(q) \in S
      OBVIOUS
    <2>3. QED
      BY <2>1, <2>2
  <1>2. Prev(q, h) = Min(S)
    BY DEF Prev
  <1> HIDE DEF S
  <1>3. Prev(q, h) = Len(q)
    BY <1>1, <1>2 DEF Min
  <1>4. QED
    BY <1>3 DEF Present

\* The handle at place m, when those before it are below.
LEMMA PrevAt ==
  ASSUME NEW q \in Seq(Nat), NEW m \in 1 .. Len(q), \A n \in 1 .. m - 1 : q[n] < q[m]
  PROVE  Prev(q, q[m]) = m - 1
  <1> DEFINE S == {n \in 0 .. Len(q) : n = Len(q) \/ q[n + 1] >= q[m]}
  <1>1. m - 1 \in S
    OBVIOUS
  <1>2. ASSUME NEW n \in S PROVE m - 1 <= n
    <2> SUFFICES ASSUME n < m - 1 PROVE FALSE
      OBVIOUS
    <2>1. n + 1 \in 1 .. m - 1 /\ n # Len(q)
      OBVIOUS
    <2>2. q[n + 1] < q[m] /\ q[n + 1] >= q[m] /\ q[n + 1] \in Nat /\ q[m] \in Nat
      BY <2>1
    <2>3. QED
      BY <2>2
  <1>3. S \in SUBSET Int
    OBVIOUS
  <1>4. Prev(q, q[m]) = Min(S)
    BY DEF Prev
  <1> HIDE DEF S
  <1>5. QED
    BY <1>1, <1>2, <1>3, <1>4, MinIs

-----------------------------------------------------------------------------
(* Attribute tables: the handles in them ascend.                           *)

\* Services do not overlap, and follow each other.
LEMMA SvcOrder ==
  ASSUME NEW d \in Databases, NEW i \in 1 .. Len(d)
  PROVE  /\ d \in Seq(Service) /\ d[i] \in Service
         /\ d[i].start \in Nat /\ d[i].end \in Nat
         /\ d[i].start <= d[i].end
         /\ \A k \in 1 .. Len(d) : i < k => d[i].end < d[k].start
  <1>1. d \in Seq(Service) /\ Ascending(d)
    BY TableAssumption
  <1>2. d[i] \in Service /\ DOMAIN d = 1 .. Len(d)
    BY <1>1
  <1>3. d[i].start \in Nat /\ d[i].end \in Nat
    BY <1>2 DEF Service, Handle
  <1>4. d[i].start <= d[i].end /\ \A k \in DOMAIN d : i < k => d[i].end < d[k].start
    BY <1>1, <1>2 DEF Ascending
  <1>5. QED
    BY <1>1, <1>2, <1>3, <1>4

\* Characteristics lie within their service, declaration before value, and
\* follow each other.
LEMMA ChrOrder ==
  ASSUME NEW d \in Databases, NEW i \in 1 .. Len(d), NEW j \in 1 .. Len(d[i].chrs)
  PROVE  LET chrs == d[i].chrs
         IN  /\ chrs \in Seq(Characteristic) /\ chrs[j] \in Characteristic
             /\ chrs[j].def \in Nat /\ chrs[j].val \in Nat
             /\ d[i].start < chrs[j].def /\ chrs[j].def < chrs[j].val
             /\ chrs[j].val <= d[i].end
             /\ \A m \in 1 .. Len(chrs) : j < m => chrs[j].val < chrs[m].def
  <1> DEFINE chrs == d[i].chrs
  <1>1. d \in Seq(Service) /\ Ascending(d) /\ d[i] \in Service /\ DOMAIN d = 1 .. Len(d)
    BY SvcOrder, TableAssumption
  <1>2. chrs \in Seq(Characteristic) /\ DOMAIN chrs = 1 .. Len(chrs)
    BY <1>1 DEF Service
  <1>3. chrs[j] \in Characteristic
    BY <1>2
  <1>4. chrs[j].def \in Nat /\ chrs[j].val \in Nat
    BY <1>3 DEF Characteristic, Handle
  <1>5. /\ d[i].start < chrs[j].def /\ chrs[j].def < chrs[j].val
        /\ chrs[j].val <= d[i].end
        /\ \A m \in DOMAIN chrs : j < m => chrs[j].val < chrs[m].def
    BY <1>1, <1>2, SMTT(30) DEF Ascending
  <1>6. QED
    BY <1>2, <1>3, <1>4, <1>5

\* Descriptors lie behind their characteristic's value, before the next
\* characteristic and within the service, and follow each other.
LEMMA DscOrder ==
  ASSUME NEW d \in Databases, NEW i \in 1 .. Len(d), NEW j \in 1 .. Len(d[i].chrs),
         NEW k \in 1 .. Len(d[i].chrs[j].dscs)
  PROVE  LET chrs == d[i].chrs
             dscs == chrs[j].dscs
         IN  /\ dscs \in Seq(Descriptor) /\ dscs[k] \in Descriptor
             /\ dscs[k].handle \in Nat
             /\ chrs[j].val < dscs[k].handle /\ dscs[k].handle <= d[i].end
             /\ \A m \in 1 .. Len(chrs) : j < m => dscs[k].handle < chrs[m].def
             /\ \A m \in 1 .. Len(dscs) : k < m => dscs[k].handle < dscs[m].handle
  <1> DEFINE chrs == d[i].chrs
             dscs == chrs[j].dscs
  <1>1. d \in Seq(Service) /\ Ascending(d) /\ d[i] \in Service /\ DOMAIN d = 1 .. Len(d)
    BY SvcOrder, TableAssumption
  <1>2. /\ chrs \in Seq(Characteristic) /\ chrs[j] \in Characteristic
        /\ DOMAIN chrs = 1 .. Len(chrs)
    BY ChrOrder
  <1>3. dscs \in Seq(Descriptor) /\ DOMAIN dscs = 1 .. Len(dscs)
    BY <1>2 DEF Characteristic
  <1>4. dscs[k] \in Descriptor
    BY <1>3
  <1>5. dscs[k].handle \in Nat
    BY <1>4 DEF Descriptor, Handle
  <1>6. /\ chrs[j].val < dscs[k].handle /\ dscs[k].handle <= d[i].end
        /\ \A m \in DOMAIN chrs : j < m => dscs[k].handle < chrs[m].def
        /\ \A m \in DOMAIN dscs : k < m => dscs[k].handle < dscs[m].handle
    BY <1>1, <1>2, <1>3 DEF Ascending
  <1>7. QED
    BY <1>2, <1>3, <1>4, <1>5, <1>6

\* No two entries of a list have the same handle, so none is there twice.
LEMMA SvcOnce ==
  ASSUME NEW d \in Databases, NEW i \in 1 .. Len(d), NEW k \in 1 .. Len(d), d[i] = d[k]
  PROVE  i = k
  <1>1. /\ d[i].start = d[k].start /\ i \in Nat /\ k \in Nat
        /\ d[i].start \in Nat /\ d[i].end \in Nat /\ d[k].start \in Nat /\ d[k].end \in Nat
        /\ d[i].start <= d[i].end /\ d[k].start <= d[k].end
        /\ i < k => d[i].end < d[k].start
        /\ k < i => d[k].end < d[i].start
    BY SvcOrder
  <1>2. QED
    BY <1>1

\* Nor do two characteristics of a service.
LEMMA ChrOnce ==
  ASSUME NEW d \in Databases, NEW i \in 1 .. Len(d),
         NEW j \in 1 .. Len(d[i].chrs), NEW m \in 1 .. Len(d[i].chrs),
         d[i].chrs[j].def >= d[i].chrs[m].def, d[i].chrs[m].def >= d[i].chrs[j].def
  PROVE  j = m
  <1> DEFINE a == d[i].chrs[j]
             b == d[i].chrs[m]
  <1>1. /\ a.def \in Nat /\ a.val \in Nat /\ b.def \in Nat /\ b.val \in Nat
        /\ a.def < a.val /\ b.def < b.val
        /\ j < m => a.val < b.def
        /\ m < j => b.val < a.def
    BY ChrOrder
  <1>2. a.def >= b.def /\ b.def >= a.def
    OBVIOUS
  <1>3. j \in Nat /\ m \in Nat
    <2>1. d[i].chrs \in Seq(Characteristic)
      BY ChrOrder
    <2>2. QED
      BY <2>1
  <1> HIDE DEF a, b
  <1>4. ~(j < m) /\ ~(m < j)
    BY <1>1, <1>2
  <1>5. QED
    BY <1>3, <1>4

\* Nor do two descriptors of a characteristic.
LEMMA DscOnce ==
  ASSUME NEW d \in Databases, NEW i \in 1 .. Len(d), NEW j \in 1 .. Len(d[i].chrs),
         NEW k \in 1 .. Len(d[i].chrs[j].dscs), NEW m \in 1 .. Len(d[i].chrs[j].dscs),
         d[i].chrs[j].dscs[k].handle = d[i].chrs[j].dscs[m].handle
  PROVE  k = m
  <1> DEFINE a == d[i].chrs[j].dscs[k]
             b == d[i].chrs[j].dscs[m]
  <1>1. /\ a.handle \in Nat /\ b.handle \in Nat /\ a.handle = b.handle
        /\ k < m => a.handle < b.handle
        /\ m < k => b.handle < a.handle
    BY DscOrder, Zenon
  <1>2. QED
    BY <1>1

\* What is left of a list after its first elements.
LEMMA AfterFirst ==
  ASSUME NEW q, Len(q) \in Nat, NEW n \in 0 .. Len(q)
  PROVE  /\ After(q, n) = {} <=> n = Len(q)
         /\ n < Len(q) => q[n + 1] \in After(q, n)
         /\ (n < Len(q) /\ \A i, k \in 1 .. Len(q) : q[i] = q[k] => i = k)
              => After(q, n) \ {q[n + 1]} = After(q, n + 1)
  <1>1. After(q, n) = {} <=> n = Len(q)
    <2>1. ASSUME n = Len(q) PROVE After(q, n) = {}
      <3>1. n + 1 .. Len(q) = {}
        BY <2>1
      <3>2. QED
        BY <3>1 DEF After
    <2>2. ASSUME n # Len(q) PROVE q[n + 1] \in After(q, n)
      <3>1. n + 1 \in n + 1 .. Len(q)
        BY <2>2
      <3>2. QED
        BY <3>1 DEF After
    <2>3. QED
      BY <2>1, <2>2
  <1>2. ASSUME n < Len(q) PROVE q[n + 1] \in After(q, n)
    <2>1. n + 1 \in n + 1 .. Len(q)
      BY <1>2
    <2>2. QED
      BY <2>1 DEF After
  <1>3. ASSUME n < Len(q), \A i, k \in 1 .. Len(q) : q[i] = q[k] => i = k
        PROVE  After(q, n) \ {q[n + 1]} = After(q, n + 1)
    <2>1. ASSUME NEW x \in After(q, n), x # q[n + 1] PROVE x \in After(q, n + 1)
      <3>1. PICK i \in n + 1 .. Len(q) : x = q[i]
        BY DEF After
      <3>2. i # n + 1
        BY <2>1, <3>1
      <3>3. i \in n + 1 + 1 .. Len(q)
        BY <3>2
      <3>4. QED
        BY <3>1, <3>3 DEF After
    <2>2. ASSUME NEW x \in After(q, n + 1) PROVE x \in After(q, n) /\ x # q[n + 1]
      <3>1. PICK i \in n + 1 + 1 .. Len(q) : x = q[i]
        BY DEF After
      <3>2. i \in n + 1 .. Len(q) /\ i # n + 1 /\ i \in 1 .. Len(q) /\ n + 1 \in 1 .. Len(q)
        BY <1>3
      <3>3. q[i] # q[n + 1]
        BY <1>3, <3>2
      <3>4. QED
        BY <3>1, <3>2, <3>3 DEF After
    <2>3. QED
      BY <2>1, <2>2
  <1>4. QED
    BY <1>1, <1>2, <1>3

\* When nothing is left of a list, all of it is known.
LEMMA NoneLeft ==
  ASSUME NEW q, Len(q) \in Nat, NEW n \in Nat, n <= Len(q), After(q, n) = {}
  PROVE  n = Len(q)
  <1>1. n \in 0 .. Len(q)
    OBVIOUS
  <1>2. QED
    BY <1>1, AfterFirst

\* The characteristics in the range of a service are the service's own.
LEMMA ChrsInRange ==
  ASSUME NEW d \in Databases, NEW c \in 1 .. Len(d)
  PROVE  {x \in Chrs(d) : d[c].start <= x.def /\ x.def <= d[c].end} = After(d[c].chrs, 0)
  <1>1. ASSUME NEW x \in Chrs(d), d[c].start <= x.def, x.def <= d[c].end
        PROVE  x \in After(d[c].chrs, 0)
    <2>1. PICK s \in ToSet(d) : x \in ToSet(s.chrs)
      BY DEF Chrs
    <2>2. PICK i \in 1 .. Len(d) : s = d[i]
      BY <2>1, SvcOrder DEF ToSet
    <2>3. d[i].chrs \in Seq(Characteristic)
      BY SvcOrder DEF Service
    <2>4. PICK j \in 1 .. Len(d[i].chrs) : x = d[i].chrs[j]
      BY <2>1, <2>2, <2>3 DEF ToSet
    <2>5. /\ x.def \in Nat /\ x.val \in Nat
          /\ d[i].start < x.def /\ x.def < x.val /\ x.val <= d[i].end
      BY <2>4, ChrOrder
    <2>6. /\ d[i].start \in Nat /\ d[i].end \in Nat /\ d[c].start \in Nat /\ d[c].end \in Nat
          /\ i < c => d[i].end < d[c].start
          /\ c < i => d[c].end < d[i].start
      BY SvcOrder
    <2>7. i = c
      BY <1>1, <2>5, <2>6
    <2>8. QED
      BY <2>3, <2>4, <2>7 DEF After
  <1>2. ASSUME NEW x \in After(d[c].chrs, 0)
        PROVE  x \in Chrs(d) /\ d[c].start <= x.def /\ x.def <= d[c].end
    <2>1. PICK j \in 1 .. Len(d[c].chrs) : x = d[c].chrs[j]
      BY DEF After
    <2>2. d[c] \in ToSet(d) /\ d[c].chrs \in Seq(Characteristic)
      BY SvcOrder DEF ToSet, Service
    <2>3. x \in ToSet(d[c].chrs)
      BY <2>1, <2>2 DEF ToSet
    <2>4. /\ x.def \in Nat /\ x.val \in Nat /\ d[c].start \in Nat /\ d[c].end \in Nat
          /\ d[c].start < x.def /\ x.def < x.val /\ x.val <= d[c].end
      BY <2>1, ChrOrder, SvcOrder
    <2>5. QED
      BY <2>2, <2>3, <2>4 DEF Chrs
  <1>3. QED
    BY <1>1, <1>2

\* peer_svc_find_range finds the service a characteristic is in.
LEMMA RangeFound ==
  ASSUME NEW d \in Databases, NEW svcs \in Seq(Service), Len(svcs) = Len(d),
         \A i \in 1 .. Len(d) : svcs[i].start = d[i].start /\ svcs[i].end = d[i].end,
         NEW c \in 1 .. Len(d), NEW h \in Nat, d[c].start <= h, h <= d[c].end
  PROVE  FindRange(svcs, h) = c
  <1> DEFINE I == {i \in 1 .. Len(svcs) : svcs[i].start <= h /\ h <= svcs[i].end}
  <1>1. FindRange(svcs, h) = IF I # {} THEN Min(I) ELSE 0
    BY DEF FindRange, SelectInSeq
  <1>2. I = {c}
    <2>1. ASSUME NEW i \in I PROVE i = c
      <3>1. i \in 1 .. Len(d) /\ d[i].start <= h /\ h <= d[i].end
        OBVIOUS
      <3>2. /\ d[i].start \in Nat /\ d[i].end \in Nat /\ d[c].start \in Nat /\ d[c].end \in Nat
            /\ i < c => d[i].end < d[c].start
            /\ c < i => d[c].end < d[i].start
        BY <3>1, SvcOrder
      <3>3. QED
        BY <3>1, <3>2
    <2>2. c \in I
      OBVIOUS
    <2>3. QED
      BY <2>1, <2>2
  <1>3. Min({c}) = c
    BY DEF Min
  <1>4. QED
    BY <1>1, <1>2, <1>3

-----------------------------------------------------------------------------
(* The lists grow at their end.                                            *)

\* q is l with e at its end.
Grown(l, e, q) ==
  /\ Len(q) = Len(l) + 1
  /\ \A n \in 1 .. Len(l) : q[n] = l[n]
  /\ q[Len(l) + 1] = e

\* An entry after the last one: both ways to link it are the same.
LEMMA LinkedLast ==
  ASSUME NEW S, NEW l \in Seq(S), NEW e \in S
  PROVE  Linked(l, Len(l), e) \in Seq(S) /\ Grown(l, e, Linked(l, Len(l), e))
  <1>1. SubSeq(l, 1, Len(l)) = l /\ SubSeq(l, Len(l) + 1, Len(l)) = <<>>
    BY SubSeqFull, SubSeqEmpty
  <1>2. Linked(l, Len(l), e) = (l \o <<e>>) \o <<>>
    <2>1. Len(l) + 1 - 1 = Len(l)
      OBVIOUS
    <2>2. Linked(l, Len(l), e) =
            SubSeq(l, 1, Len(l) + 1 - 1) \o <<e>> \o SubSeq(l, Len(l) + 1, Len(l))
      BY DEF Linked, InsertAt
    <2>3. QED
      BY <1>1, <2>1, <2>2, Zenon
  <1>3. Linked(l, Len(l), e) = l \o <<e>>
    BY <1>2
  <1>4. QED
    BY <1>3 DEF Grown

\* The same of the lists whose insertion sets only the previous entry's link.
LEMMA ChainedLast ==
  ASSUME NEW S, NEW l \in Seq(S), NEW e \in S
  PROVE  Chained(l, Len(l), e) \in Seq(S) /\ Grown(l, e, Chained(l, Len(l), e))
  <1>1. Chained(l, Len(l), e) = l \o <<e>>
    <2>1. CASE Len(l) = 0
      <3>1. l = <<>>
        BY <2>1
      <3>2. QED
        BY <2>1, <3>1 DEF Chained
    <2>2. CASE Len(l) # 0
      BY <2>2, SubSeqFull DEF Chained
    <2>3. QED
      BY <2>1, <2>2
  <1>2. QED
    BY <1>1 DEF Grown

\* The shape of the lists.
LEMMA ListTypes ==
  ASSUME NEW svcs \in Seq(Service)
  PROVE  /\ Len(svcs) \in Nat /\ DOMAIN svcs = 1 .. Len(svcs)
         /\ \A i \in 1 .. Len(svcs) :
              /\ svcs[i] \in Service
              /\ svcs[i].chrs \in Seq(Characteristic)
              /\ Len(svcs[i].chrs) \in Nat
              /\ DOMAIN svcs[i].chrs = 1 .. Len(svcs[i].chrs)
              /\ \A j \in 1 .. Len(svcs[i].chrs) :
                   /\ svcs[i].chrs[j] \in Characteristic
                   /\ svcs[i].chrs[j].dscs \in Seq(Descriptor)
                   /\ Len(svcs[i].chrs[j].dscs) \in Nat
                   /\ DOMAIN svcs[i].chrs[j].dscs = 1 .. Len(svcs[i].chrs[j].dscs)
  <1>1. Len(svcs) \in Nat /\ DOMAIN svcs = 1 .. Len(svcs)
    OBVIOUS
  <1>2. ASSUME NEW i \in 1 .. Len(svcs)
        PROVE  svcs[i] \in Service /\ svcs[i].chrs \in Seq(Characteristic)
    <2>1. svcs[i] \in Service
      OBVIOUS
    <2>2. QED
      BY <2>1 DEF Service
  <1>3. ASSUME NEW i \in 1 .. Len(svcs), NEW j \in 1 .. Len(svcs[i].chrs)
        PROVE  svcs[i].chrs[j] \in Characteristic /\ svcs[i].chrs[j].dscs \in Seq(Descriptor)
    <2>1. svcs[i].chrs[j] \in Characteristic
      BY <1>2
    <2>2. QED
      BY <2>1 DEF Characteristic
  <1>4. ASSUME NEW i \in 1 .. Len(svcs)
        PROVE  Len(svcs[i].chrs) \in Nat /\ DOMAIN svcs[i].chrs = 1 .. Len(svcs[i].chrs)
    BY <1>2
  <1>5. ASSUME NEW i \in 1 .. Len(svcs), NEW j \in 1 .. Len(svcs[i].chrs)
        PROVE  /\ Len(svcs[i].chrs[j].dscs) \in Nat
               /\ DOMAIN svcs[i].chrs[j].dscs = 1 .. Len(svcs[i].chrs[j].dscs)
    BY <1>3, SMTT(30)
  <1>6. QED
    BY <1>1, <1>2, <1>3, <1>4, <1>5

\* Places of the characteristics and of the descriptors in the lists.
IsDscPlace(svcs, x) ==
  \E i \in 1 .. Len(svcs) : \E j \in 1 .. Len(svcs[i].chrs) :
    \E k \in 1 .. Len(svcs[i].chrs[j].dscs) : x = <<<<i, j>>, k>>

\* The places are those of the entries, counted list by list.
LEMMA PlacesAre ==
  ASSUME NEW svcs \in Seq(Service)
  PROVE  /\ \A x : x \in ChrPlaces(svcs) <=>
              \E i \in 1 .. Len(svcs) : \E j \in 1 .. Len(svcs[i].chrs) : x = <<i, j>>
         /\ \A x : x \in DscPlaces(svcs) <=> IsDscPlace(svcs, x)
  <1>1. \A x : x \in ChrPlaces(svcs) <=>
          \E i \in 1 .. Len(svcs) : \E j \in 1 .. Len(svcs[i].chrs) : x = <<i, j>>
    <2>1. \A x : x \in ChrPlaces(svcs) <=>
            \E i \in DOMAIN svcs : x \in {i} \X DOMAIN svcs[i].chrs
      BY DEF ChrPlaces
    <2>2. ASSUME NEW i \in 1 .. Len(svcs), NEW x
          PROVE  x \in {i} \X DOMAIN svcs[i].chrs <=> \E j \in 1 .. Len(svcs[i].chrs) : x = <<i, j>>
      <3>1. DOMAIN svcs[i].chrs = 1 .. Len(svcs[i].chrs)
        BY ListTypes
      <3>2. QED
        BY <3>1
    <2>3. QED
      BY <2>1, <2>2, ListTypes
  <1>2. \A x : x \in DscPlaces(svcs) <=>
          \E ij \in ChrPlaces(svcs) : x \in {ij} \X DOMAIN svcs[ij[1]].chrs[ij[2]].dscs
    BY DEF DscPlaces
  <1>3. ASSUME NEW i \in 1 .. Len(svcs), NEW j \in 1 .. Len(svcs[i].chrs), NEW x
        PROVE  x \in {<<i, j>>} \X DOMAIN svcs[<<i, j>>[1]].chrs[<<i, j>>[2]].dscs <=>
                 \E k \in 1 .. Len(svcs[i].chrs[j].dscs) : x = <<<<i, j>>, k>>
    <2>1. DOMAIN svcs[i].chrs[j].dscs = 1 .. Len(svcs[i].chrs[j].dscs)
      BY ListTypes
    <2>2. <<i, j>>[1] = i /\ <<i, j>>[2] = j
      OBVIOUS
    <2>3. QED
      BY <2>1, <2>2
  <1>4. ASSUME NEW x PROVE x \in DscPlaces(svcs) <=> IsDscPlace(svcs, x)
    <2>1. ASSUME x \in DscPlaces(svcs)
          PROVE  \E i \in 1 .. Len(svcs) : \E j \in 1 .. Len(svcs[i].chrs) :
                   \E k \in 1 .. Len(svcs[i].chrs[j].dscs) : x = <<<<i, j>>, k>>
      <3>1. PICK ij \in ChrPlaces(svcs) : x \in {ij} \X DOMAIN svcs[ij[1]].chrs[ij[2]].dscs
        BY <1>2, <2>1
      <3>2. PICK i \in 1 .. Len(svcs) : \E j \in 1 .. Len(svcs[i].chrs) : ij = <<i, j>>
        BY <1>1, <3>1
      <3>3. PICK j \in 1 .. Len(svcs[i].chrs) : ij = <<i, j>>
        BY <3>2
      <3>4. x \in {<<i, j>>} \X DOMAIN svcs[<<i, j>>[1]].chrs[<<i, j>>[2]].dscs
        BY <3>1, <3>3
      <3>5. \E k \in 1 .. Len(svcs[i].chrs[j].dscs) : x = <<<<i, j>>, k>>
        BY <1>3, <3>4
      <3>6. QED
        BY <3>5
    <2>2. ASSUME NEW i \in 1 .. Len(svcs), NEW j \in 1 .. Len(svcs[i].chrs),
                 NEW k \in 1 .. Len(svcs[i].chrs[j].dscs), x = <<<<i, j>>, k>>
          PROVE  x \in DscPlaces(svcs)
      <3>1. <<i, j>> \in ChrPlaces(svcs)
        BY <1>1
      <3>2. QED
        BY <1>2, <1>3, <2>2, <3>1
    <2>3. QED
      BY <2>1, <2>2 DEF IsDscPlace
  <1>5. QED
    BY <1>1, <1>4

\* A place of a characteristic is one in some service.
LEMMA ChrPlaceOf ==
  ASSUME NEW svcs \in Seq(Service), NEW x \in ChrPlaces(svcs)
  PROVE  \E i \in 1 .. Len(svcs) : \E j \in 1 .. Len(svcs[i].chrs) : x = <<i, j>>
  BY PlacesAre

\* A place of a descriptor is one in some characteristic.
LEMMA DscPlaceOf ==
  ASSUME NEW svcs \in Seq(Service), NEW x \in DscPlaces(svcs)
  PROVE  \E i \in 1 .. Len(svcs) : \E j \in 1 .. Len(svcs[i].chrs) :
           \E k \in 1 .. Len(svcs[i].chrs[j].dscs) : x = <<<<i, j>>, k>>
  <1>1. IsDscPlace(svcs, x)
    BY PlacesAre
  <1>2. QED
    BY <1>1 DEF IsDscPlace

\* Every characteristic has its place.
LEMMA ChrPlaceAt ==
  ASSUME NEW svcs \in Seq(Service), NEW i \in 1 .. Len(svcs), NEW j \in 1 .. Len(svcs[i].chrs)
  PROVE  <<i, j>> \in ChrPlaces(svcs)
  BY PlacesAre

\* Every descriptor has its place.
LEMMA DscPlaceAt ==
  ASSUME NEW svcs \in Seq(Service), NEW i \in 1 .. Len(svcs), NEW j \in 1 .. Len(svcs[i].chrs),
         NEW k \in 1 .. Len(svcs[i].chrs[j].dscs)
  PROVE  <<<<i, j>>, k>> \in DscPlaces(svcs)
  <1> DEFINE x == <<<<i, j>>, k>>
  <1>1. IsDscPlace(svcs, x)
    BY DEF IsDscPlace
  <1> HIDE DEF x
  <1>2. x \in DscPlaces(svcs)
    BY <1>1, PlacesAre
  <1>3. QED
    BY <1>2 DEF x

\* q is svcs with the characteristic e at the end of service c's list.
ChrAdded(svcs, c, e, q) ==
  /\ Len(q) = Len(svcs)
  /\ \A i \in 1 .. Len(svcs) :
       /\ q[i].start = svcs[i].start /\ q[i].end = svcs[i].end /\ q[i].uuid = svcs[i].uuid
       /\ i # c => q[i].chrs = svcs[i].chrs
  /\ Grown(svcs[c].chrs, e, q[c].chrs)

\* chrs becomes q with the descriptor e at the end of the list at place j.
DscChained(chrs, j, e, q) ==
  /\ Len(q) = Len(chrs)
  /\ \A m \in 1 .. Len(chrs) :
       /\ q[m].def = chrs[m].def /\ q[m].val = chrs[m].val /\ q[m].uuid = chrs[m].uuid
       /\ m # j => q[m].dscs = chrs[m].dscs
  /\ Grown(chrs[j].dscs, e, q[j].dscs)

\* q is svcs with the descriptor e at the end of the list of characteristic
\* j of service c.
DscAdded(svcs, c, j, e, q) ==
  /\ Len(q) = Len(svcs)
  /\ \A i \in 1 .. Len(svcs) :
       /\ q[i].start = svcs[i].start /\ q[i].end = svcs[i].end /\ q[i].uuid = svcs[i].uuid
       /\ i # c => q[i].chrs = svcs[i].chrs
  /\ DscChained(svcs[c].chrs, j, e, q[c].chrs)

\* A new service takes one block, and none for what it contains.
LEMMA SvcTakesOne ==
  ASSUME NEW svcs \in Seq(Service), NEW q \in Seq(Service), NEW e,
         Grown(svcs, e, q), e.chrs = <<>>
  PROVE  ChrPlaces(q) = ChrPlaces(svcs) /\ DscPlaces(q) = DscPlaces(svcs)
  <1>1. /\ Len(svcs) \in Nat /\ Len(q) = Len(svcs) + 1
        /\ \A i \in 1 .. Len(svcs) : q[i] = svcs[i]
        /\ q[Len(q)].chrs = <<>>
    BY DEF Grown
  <1>2. \A i \in 1 .. Len(q) : i \in 1 .. Len(svcs) \/ (i = Len(q) /\ Len(q[i].chrs) = 0)
    BY <1>1
  <1>3. \A x : x \in ChrPlaces(q) <=> x \in ChrPlaces(svcs)
    BY <1>1, <1>2, PlacesAre
  <1>4. \A x : x \in DscPlaces(q) <=> x \in DscPlaces(svcs)
    <2>1. ASSUME NEW x \in DscPlaces(q) PROVE x \in DscPlaces(svcs)
      <3>1. PICK i \in 1 .. Len(q) : \E j \in 1 .. Len(q[i].chrs) :
              \E k \in 1 .. Len(q[i].chrs[j].dscs) : x = <<<<i, j>>, k>>
        BY DscPlaceOf
      <3>2. i \in 1 .. Len(svcs) /\ q[i] = svcs[i]
        BY <1>1, <1>2, <3>1
      <3>3. QED
        BY <3>1, <3>2, DscPlaceAt
    <2>2. ASSUME NEW x \in DscPlaces(svcs) PROVE x \in DscPlaces(q)
      <3>1. PICK i \in 1 .. Len(svcs) : \E j \in 1 .. Len(svcs[i].chrs) :
              \E k \in 1 .. Len(svcs[i].chrs[j].dscs) : x = <<<<i, j>>, k>>
        BY DscPlaceOf
      <3>2. i \in 1 .. Len(q) /\ q[i] = svcs[i]
        BY <1>1
      <3>3. QED
        BY <3>1, <3>2, DscPlaceAt
    <2>3. QED
      BY <2>1, <2>2
  <1>5. QED
    BY <1>3, <1>4

\* A new characteristic takes one block, and none for what it contains.
LEMMA ChrTakesOne ==
  ASSUME NEW svcs \in Seq(Service), NEW q \in Seq(Service), NEW c \in 1 .. Len(svcs),
         NEW e, ChrAdded(svcs, c, e, q), e.dscs = <<>>
  PROVE  LET new == <<c, Len(svcs[c].chrs) + 1>>
         IN  /\ ChrPlaces(q) = ChrPlaces(svcs) \cup {new} /\ new \notin ChrPlaces(svcs)
             /\ DscPlaces(q) = DscPlaces(svcs)
  <1> DEFINE n == Len(svcs[c].chrs)
  <1>1. /\ n \in Nat /\ Len(q) = Len(svcs)
        /\ \A i \in 1 .. Len(svcs) : i # c => q[i].chrs = svcs[i].chrs
        /\ Len(q[c].chrs) = n + 1
        /\ \A j \in 1 .. n : q[c].chrs[j] = svcs[c].chrs[j]
        /\ Len(q[c].chrs[n + 1].dscs) = 0
    BY ListTypes DEF Grown, ChrAdded
  <1>2. \A i \in 1 .. Len(q) : \A j \in 1 .. Len(q[i].chrs) :
          <<i, j>> = <<c, n + 1>> \/ (i \in 1 .. Len(svcs) /\ j \in 1 .. Len(svcs[i].chrs)
                                       /\ q[i].chrs[j] = svcs[i].chrs[j])
    BY <1>1
  <1>3. \A i \in 1 .. Len(svcs) : \A j \in 1 .. Len(svcs[i].chrs) :
          i \in 1 .. Len(q) /\ j \in 1 .. Len(q[i].chrs) /\ q[i].chrs[j] = svcs[i].chrs[j]
    BY <1>1, SMTT(30)
  <1>4. c \in 1 .. Len(q) /\ n + 1 \in 1 .. Len(q[c].chrs)
    BY <1>1
  <1>5. <<c, n + 1>> \notin ChrPlaces(svcs)
    <2>1. ASSUME NEW i \in 1 .. Len(svcs), NEW j \in 1 .. Len(svcs[i].chrs), <<c, n + 1>> = <<i, j>>
          PROVE  FALSE
      <3>1. i = c /\ j = n + 1
        BY <2>1
      <3>2. QED
        BY <1>1, <3>1
    <2>2. QED
      BY <2>1, PlacesAre
  <1>6. \A x : x \in ChrPlaces(q) <=> x \in ChrPlaces(svcs) \/ x = <<c, n + 1>>
    BY <1>2, <1>3, <1>4, PlacesAre
  <1>7. \A x : x \in DscPlaces(q) => x \in DscPlaces(svcs)
    <2>1. ASSUME NEW i \in 1 .. Len(q), NEW j \in 1 .. Len(q[i].chrs),
                 NEW k \in 1 .. Len(q[i].chrs[j].dscs)
          PROVE  <<<<i, j>>, k>> \in DscPlaces(svcs)
      <3>1. ~(i = c /\ j = n + 1)
        BY <1>1
      <3>2. i \in 1 .. Len(svcs) /\ j \in 1 .. Len(svcs[i].chrs)
              /\ q[i].chrs[j] = svcs[i].chrs[j]
        BY <1>2, <3>1
      <3>3. k \in 1 .. Len(svcs[i].chrs[j].dscs)
        BY <3>2
      <3>4. QED
        BY <3>2, <3>3, DscPlaceAt
    <2>2. QED
      <3>1. ASSUME NEW x \in DscPlaces(q) PROVE x \in DscPlaces(svcs)
        <4>1. PICK i \in 1 .. Len(q) : \E j \in 1 .. Len(q[i].chrs) :
                \E k \in 1 .. Len(q[i].chrs[j].dscs) : x = <<<<i, j>>, k>>
          BY DscPlaceOf
        <4>2. PICK j \in 1 .. Len(q[i].chrs) :
                \E k \in 1 .. Len(q[i].chrs[j].dscs) : x = <<<<i, j>>, k>>
          BY <4>1
        <4>3. PICK k \in 1 .. Len(q[i].chrs[j].dscs) : x = <<<<i, j>>, k>>
          BY <4>2
        <4>4. QED
          BY <2>1, <4>3
      <3>2. QED
        BY <3>1
  <1>8. \A x : x \in DscPlaces(svcs) => x \in DscPlaces(q)
    <2>1. ASSUME NEW i \in 1 .. Len(svcs), NEW j \in 1 .. Len(svcs[i].chrs),
                 NEW k \in 1 .. Len(svcs[i].chrs[j].dscs)
          PROVE  <<<<i, j>>, k>> \in DscPlaces(q)
      <3>1. i \in 1 .. Len(q) /\ j \in 1 .. Len(q[i].chrs) /\ q[i].chrs[j] = svcs[i].chrs[j]
        BY <1>3
      <3>2. k \in 1 .. Len(q[i].chrs[j].dscs)
        BY <3>1
      <3>3. QED
        BY <3>1, <3>2, DscPlaceAt
    <2>2. QED
      <3>1. ASSUME NEW x \in DscPlaces(svcs) PROVE x \in DscPlaces(q)
        <4>1. PICK i \in 1 .. Len(svcs) : \E j \in 1 .. Len(svcs[i].chrs) :
                \E k \in 1 .. Len(svcs[i].chrs[j].dscs) : x = <<<<i, j>>, k>>
          BY DscPlaceOf
        <4>2. PICK j \in 1 .. Len(svcs[i].chrs) :
                \E k \in 1 .. Len(svcs[i].chrs[j].dscs) : x = <<<<i, j>>, k>>
          BY <4>1
        <4>3. PICK k \in 1 .. Len(svcs[i].chrs[j].dscs) : x = <<<<i, j>>, k>>
          BY <4>2
        <4>4. QED
          BY <2>1, <4>3
      <3>2. QED
        BY <3>1
  <1>9. QED
    BY <1>5, <1>6, <1>7, <1>8

\* The place of the next descriptor of a characteristic.
NewPlace(svcs, c, d) == <<<<c, d>>, Len(svcs[c].chrs[d].dscs) + 1>>

\* A new descriptor takes one block.
LEMMA DscTakesOne ==
  ASSUME NEW svcs \in Seq(Service), NEW q \in Seq(Service), NEW c \in 1 .. Len(svcs),
         NEW d \in 1 .. Len(svcs[c].chrs), NEW e, DscAdded(svcs, c, d, e, q)
  PROVE  LET new == NewPlace(svcs, c, d)
         IN  /\ ChrPlaces(q) = ChrPlaces(svcs)
             /\ DscPlaces(q) = DscPlaces(svcs) \cup {new} /\ new \notin DscPlaces(svcs)
  <1> DEFINE n == Len(svcs[c].chrs[d].dscs)
  <1>1. /\ n \in Nat /\ Len(q) = Len(svcs)
        /\ \A i \in 1 .. Len(svcs) : i # c => q[i].chrs = svcs[i].chrs
        /\ Len(q[c].chrs) = Len(svcs[c].chrs)
        /\ \A j \in 1 .. Len(svcs[c].chrs) : j # d => q[c].chrs[j].dscs = svcs[c].chrs[j].dscs
        /\ Len(q[c].chrs[d].dscs) = n + 1
    BY ListTypes DEF Grown, DscAdded, DscChained
  <1>2. \A i \in 1 .. Len(svcs) : Len(q[i].chrs) = Len(svcs[i].chrs)
    BY <1>1
  <1>3. \A i \in 1 .. Len(svcs) : \A j \in 1 .. Len(svcs[i].chrs) :
          Len(q[i].chrs[j].dscs) =
            IF <<i, j>> = <<c, d>> THEN n + 1 ELSE Len(svcs[i].chrs[j].dscs)
    BY <1>1
  <1>4. <<<<c, d>>, n + 1>> \notin DscPlaces(svcs)
    <2>1. ASSUME NEW i \in 1 .. Len(svcs), NEW j \in 1 .. Len(svcs[i].chrs),
                 NEW k \in 1 .. Len(svcs[i].chrs[j].dscs), <<<<c, d>>, n + 1>> = <<<<i, j>>, k>>
          PROVE  FALSE
      <3>1. i = c /\ j = d /\ k = n + 1
        BY <2>1
      <3>2. QED
        BY <1>1, <3>1
    <2>2. QED
      BY <2>1, DscPlaceOf
  <1>5. \A x : x \in ChrPlaces(q) <=> x \in ChrPlaces(svcs)
    <2>1. ASSUME NEW x \in ChrPlaces(q) PROVE x \in ChrPlaces(svcs)
      <3>1. PICK i \in 1 .. Len(q) : \E j \in 1 .. Len(q[i].chrs) : x = <<i, j>>
        BY ChrPlaceOf
      <3>2. i \in 1 .. Len(svcs) /\ Len(q[i].chrs) = Len(svcs[i].chrs)
        BY <1>1, <1>2
      <3>3. QED
        BY <3>1, <3>2, ChrPlaceAt
    <2>2. ASSUME NEW x \in ChrPlaces(svcs) PROVE x \in ChrPlaces(q)
      <3>1. PICK i \in 1 .. Len(svcs) : \E j \in 1 .. Len(svcs[i].chrs) : x = <<i, j>>
        BY ChrPlaceOf
      <3>2. i \in 1 .. Len(q) /\ Len(q[i].chrs) = Len(svcs[i].chrs)
        BY <1>1, <1>2
      <3>3. QED
        BY <3>1, <3>2, ChrPlaceAt
    <2>3. QED
      BY <2>1, <2>2
  <1>6. ASSUME NEW i \in 1 .. Len(q), NEW j \in 1 .. Len(q[i].chrs),
               NEW k \in 1 .. Len(q[i].chrs[j].dscs)
        PROVE  <<<<i, j>>, k>> \in DscPlaces(svcs) \cup {<<<<c, d>>, n + 1>>}
    <2>1. i \in 1 .. Len(svcs) /\ j \in 1 .. Len(svcs[i].chrs)
      BY <1>1, <1>2
    <2>2. CASE <<i, j>> = <<c, d>> /\ k = n + 1
      BY <2>2
    <2>3. CASE ~(<<i, j>> = <<c, d>> /\ k = n + 1)
      <3>1. k \in 1 .. Len(svcs[i].chrs[j].dscs)
        <4>1. CASE <<i, j>> = <<c, d>>
          <5>1. i = c /\ j = d /\ k \in 1 .. n + 1 /\ k # n + 1
            BY <1>1, <2>3, <4>1
          <5>2. QED
            BY <1>1, <5>1, SMTT(30)
        <4>2. CASE <<i, j>> # <<c, d>>
          BY <1>3, <2>1, <4>2
        <4>3. QED
          BY <4>1, <4>2
      <3>2. QED
        BY <2>1, <3>1, DscPlaceAt
    <2>4. QED
      BY <2>2, <2>3
  <1>7. ASSUME NEW i \in 1 .. Len(svcs), NEW j \in 1 .. Len(svcs[i].chrs),
               NEW k \in 1 .. Len(svcs[i].chrs[j].dscs)
        PROVE  <<<<i, j>>, k>> \in DscPlaces(q)
    <2>1. i \in 1 .. Len(q) /\ j \in 1 .. Len(q[i].chrs)
      BY <1>1, <1>2
    <2>2. Len(svcs[i].chrs[j].dscs) \in Nat
      BY ListTypes
    <2>3. k \in 1 .. Len(q[i].chrs[j].dscs)
      <3>1. CASE <<i, j>> = <<c, d>>
        <4>1. i = c /\ j = d
          BY <3>1
        <4>2. QED
          BY <1>1, <4>1, SMTT(30)
      <3>2. CASE <<i, j>> # <<c, d>>
        BY <1>3, <3>2
      <3>3. QED
        BY <3>1, <3>2
    <2>4. QED
      BY <2>1, <2>3, DscPlaceAt
  <1>8. <<<<c, d>>, n + 1>> \in DscPlaces(q)
    <2>1. c \in 1 .. Len(q) /\ d \in 1 .. Len(q[c].chrs) /\ n + 1 \in 1 .. Len(q[c].chrs[d].dscs)
      BY <1>1
    <2>2. QED
      BY <2>1, DscPlaceAt
  <1>9. \A x : x \in DscPlaces(q) => x \in DscPlaces(svcs) \cup {<<<<c, d>>, n + 1>>}
    <2>1. ASSUME NEW x \in DscPlaces(q) PROVE x \in DscPlaces(svcs) \cup {<<<<c, d>>, n + 1>>}
      <3>1. PICK i \in 1 .. Len(q) : \E j \in 1 .. Len(q[i].chrs) :
              \E k \in 1 .. Len(q[i].chrs[j].dscs) : x = <<<<i, j>>, k>>
        BY DscPlaceOf
      <3>2. PICK j \in 1 .. Len(q[i].chrs) :
              \E k \in 1 .. Len(q[i].chrs[j].dscs) : x = <<<<i, j>>, k>>
        BY <3>1
      <3>3. PICK k \in 1 .. Len(q[i].chrs[j].dscs) : x = <<<<i, j>>, k>>
        BY <3>2
      <3>4. QED
        BY <1>6, <3>3
    <2>2. QED
      BY <2>1
  <1>10. \A x : x \in DscPlaces(svcs) => x \in DscPlaces(q)
    <2>1. ASSUME NEW x \in DscPlaces(svcs) PROVE x \in DscPlaces(q)
      <3>1. PICK i \in 1 .. Len(svcs) : \E j \in 1 .. Len(svcs[i].chrs) :
              \E k \in 1 .. Len(svcs[i].chrs[j].dscs) : x = <<<<i, j>>, k>>
        BY DscPlaceOf
      <3>2. PICK j \in 1 .. Len(svcs[i].chrs) :
              \E k \in 1 .. Len(svcs[i].chrs[j].dscs) : x = <<<<i, j>>, k>>
        BY <3>1
      <3>3. PICK k \in 1 .. Len(svcs[i].chrs[j].dscs) : x = <<<<i, j>>, k>>
        BY <3>2
      <3>4. QED
        BY <1>7, <3>3
    <2>2. QED
      BY <2>1
  <1>11. QED
    BY <1>4, <1>5, <1>8, <1>9, <1>10 DEF NewPlace

-----------------------------------------------------------------------------
(* The range that is asked for descriptors.                                *)

\* The range of a characteristic reaches to the next declaration or to the
\* end of the service, and takes in all of its descriptors.
LEMMA EndHandle ==
  ASSUME NEW d \in Databases, NEW c \in 1 .. Len(d), NEW j \in 1 .. Len(d[c].chrs)
  PROVE  LET end == chr_end_handle(d[c], j)
         IN  /\ end \in Nat /\ end <= d[c].end
             /\ \A m \in 1 .. Len(d[c].chrs) : j < m => end < d[c].chrs[m].def
             /\ \A k \in 1 .. Len(d[c].chrs[j].dscs) : d[c].chrs[j].dscs[k].handle <= end
  <1> DEFINE chrs == d[c].chrs
             end == chr_end_handle(d[c], j)
  <1>1. chrs \in Seq(Characteristic) /\ Len(chrs) \in Nat /\ j \in Nat
    <2>1. chrs \in Seq(Characteristic)
      BY SvcOrder DEF Service
    <2>2. QED
      BY <2>1
  <1>2. d[c].end \in Nat
    BY SvcOrder
  <1>3. CASE j < Len(chrs)
    <2>1. j + 1 \in 1 .. Len(chrs) /\ j < j + 1
      BY <1>1, <1>3
    <2>2. end = chrs[j + 1].def - 1
      BY <1>3 DEF chr_end_handle
    <2> DEFINE def == chrs[j + 1].def
               val == chrs[j + 1].val
    <2>3. /\ def \in Nat /\ val \in Nat /\ d[c].start \in Nat
          /\ d[c].start < def /\ def < val /\ val <= d[c].end
      BY <2>1, ChrOrder, SvcOrder
    <2>a. \A m \in 1 .. Len(chrs) : j + 1 < m => val < chrs[m].def /\ chrs[m].def \in Nat
      BY <2>1, ChrOrder
    <2>b. \A k \in 1 .. Len(chrs[j].dscs) :
            chrs[j].dscs[k].handle < def /\ chrs[j].dscs[k].handle \in Nat
      BY <2>1, DscOrder
    <2> HIDE DEF val
    <2>c. end \in Nat /\ end < def /\ end <= d[c].end /\ \A h \in Nat : h < def => h <= end
      <3>1. end = def - 1
        BY <2>2
      <3> HIDE DEF def, end
      <3>2. QED
        BY <1>2, <2>3, <3>1
    <2> HIDE DEF end
    <2>4. ASSUME NEW m \in 1 .. Len(chrs), j < m PROVE end < chrs[m].def
      <3>1. CASE m = j + 1
        BY <2>c, <3>1
      <3>2. CASE m # j + 1
        <4>1. j + 1 < m
          BY <1>1, <2>4, <3>2
        <4> DEFINE later == chrs[m].def
        <4>2. val < later /\ later \in Nat
          BY <2>a, <4>1, Zenon
        <4>3. end \in Nat /\ end < def /\ def < val /\ def \in Nat /\ val \in Nat
          BY <2>3, <2>c
        <4> HIDE DEF later
        <4>4. end < later
          BY <4>2, <4>3, SMTT(30)
        <4>5. QED
          BY <4>4 DEF later
      <3>3. QED
        BY <3>1, <3>2
    <2>5. ASSUME NEW k \in 1 .. Len(chrs[j].dscs) PROVE chrs[j].dscs[k].handle <= end
      BY <2>b, <2>c, Zenon
    <2>7. QED
      BY <2>4, <2>5, <2>c DEF end
  <1>4. CASE ~(j < Len(chrs))
    <2>1. end = d[c].end
      BY <1>4 DEF chr_end_handle
    <2>2. ASSUME NEW k \in 1 .. Len(chrs[j].dscs) PROVE chrs[j].dscs[k].handle <= end
      BY <2>1, DscOrder
    <2>3. \A m \in 1 .. Len(chrs) : ~(j < m)
      BY <1>1, <1>4
    <2>4. QED
      BY <1>2, <2>1, <2>2, <2>3
  <1>5. QED
    BY <1>3, <1>4

\* An attribute that is not a descriptor: a service's declaration, or the
\* declaration or the value of a characteristic.
LEMMA AttributeIs ==
  ASSUME NEW d \in Databases, NEW a \in Attributes(d)
  PROVE  \E i \in 1 .. Len(d) :
           \/ a.handle = d[i].start
           \/ \E m \in 1 .. Len(d[i].chrs) :
                \/ a.handle = d[i].chrs[m].def
                \/ a.handle = d[i].chrs[m].val
                \/ \E k \in 1 .. Len(d[i].chrs[m].dscs) : a = d[i].chrs[m].dscs[k]
  <1>1. CASE \E s \in ToSet(d) : a = [handle |-> s.start, uuid |-> "svc"]
    <2>1. PICK s \in ToSet(d) : a = [handle |-> s.start, uuid |-> "svc"]
      BY <1>1
    <2>2. PICK i \in 1 .. Len(d) : s = d[i]
      BY TableAssumption DEF ToSet
    <2>3. a.handle = d[i].start
      BY <2>1, <2>2
    <2>4. QED
      BY <2>3
  <1>2. CASE \E c \in Chrs(d) :
               a \in {[handle |-> c.def, uuid |-> "chr"], [handle |-> c.val, uuid |-> c.uuid]}
                       \cup ToSet(c.dscs)
    <2>1. PICK c \in Chrs(d) :
            a \in {[handle |-> c.def, uuid |-> "chr"], [handle |-> c.val, uuid |-> c.uuid]}
                    \cup ToSet(c.dscs)
      BY <1>2
    <2>2. PICK s \in ToSet(d) : c \in ToSet(s.chrs)
      BY DEF Chrs
    <2>3. PICK i \in 1 .. Len(d) : s = d[i]
      BY TableAssumption DEF ToSet
    <2>4. d[i].chrs \in Seq(Characteristic)
      BY SvcOrder DEF Service
    <2>5. PICK m \in 1 .. Len(d[i].chrs) : c = d[i].chrs[m]
      BY <2>2, <2>3, <2>4 DEF ToSet
    <2>6. c \in Characteristic
      BY <2>4, <2>5
    <2>7. c.dscs \in Seq(Descriptor)
      BY <2>6 DEF Characteristic
    <2>8. \/ a.handle = d[i].chrs[m].def \/ a.handle = d[i].chrs[m].val
          \/ \E k \in 1 .. Len(d[i].chrs[m].dscs) : a = d[i].chrs[m].dscs[k]
      BY <2>1, <2>5, <2>7 DEF ToSet
    <2>9. QED
      BY <2>8
  <1>3. QED
    BY <1>1, <1>2 DEF Attributes

\* Only descriptors of the characteristic are in its range.
LEMMA DscsInRange ==
  ASSUME NEW d \in Databases, NEW c \in 1 .. Len(d), NEW j \in 1 .. Len(d[c].chrs)
  PROVE  {a \in Attributes(d) : /\ d[c].chrs[j].val < a.handle
                                /\ a.handle <= chr_end_handle(d[c], j)}
           = After(d[c].chrs[j].dscs, 0)
  <1> DEFINE val == d[c].chrs[j].val
             end == chr_end_handle(d[c], j)
  <1>1. /\ end \in Nat /\ end <= d[c].end /\ d[c].end \in Nat /\ d[c].start \in Nat
        /\ val \in Nat /\ d[c].chrs[j].def \in Nat /\ d[c].start < val /\ d[c].chrs[j].def < val
    <2>1. /\ end \in Nat /\ end <= d[c].end /\ d[c].end \in Nat /\ d[c].start \in Nat
      BY EndHandle, SvcOrder
    <2>2. /\ val \in Nat /\ d[c].chrs[j].def \in Nat /\ d[c].start < d[c].chrs[j].def
          /\ d[c].chrs[j].def < val
      BY ChrOrder
    <2>3. QED
      BY <2>1, <2>2
  <1> HIDE DEF end
  <1>2. \A m \in 1 .. Len(d[c].chrs) : j < m => end < d[c].chrs[m].def
    BY EndHandle DEF end
  <1>3. ASSUME NEW a \in Attributes(d), val < a.handle, a.handle <= end
        PROVE  a \in After(d[c].chrs[j].dscs, 0)
    <2>1. PICK i \in 1 .. Len(d) :
           \/ a.handle = d[i].start
           \/ \E m \in 1 .. Len(d[i].chrs) :
                \/ a.handle = d[i].chrs[m].def
                \/ a.handle = d[i].chrs[m].val
                \/ \E k \in 1 .. Len(d[i].chrs[m].dscs) : a = d[i].chrs[m].dscs[k]
      BY AttributeIs
    <2>2. /\ d[i].start \in Nat /\ d[i].end \in Nat /\ d[i].start <= d[i].end
          /\ i < c => d[i].end < d[c].start
          /\ c < i => d[c].end < d[i].start
      BY SvcOrder
    <2>3. i \in Nat /\ c \in Nat
      BY SvcOrder
    <2> DEFINE h  == a.handle
               s  == d[i].start
               e  == d[i].end
               cs == d[c].start
               ce == d[c].end
               cd == d[c].chrs[j].def
    <2>a. /\ s \in Nat /\ e \in Nat /\ cs \in Nat /\ ce \in Nat /\ val \in Nat /\ cd \in Nat
          /\ end \in Nat /\ s <= e /\ cs < val /\ cd < val /\ end <= ce
          /\ val < h /\ h <= end
          /\ i < c => e < cs
          /\ c < i => ce < s
      BY <1>1, <1>3, <2>2
    <2>b. i = c => s = cs
      OBVIOUS
    <2>4. h # s
      <3> HIDE DEF h, s, e, cs, ce, cd, val
      <3>1. CASE i < c
        BY <2>a, <3>1
      <3>2. CASE c < i
        BY <2>a, <3>2
      <3>3. CASE i = c
        BY <2>a, <2>b, <3>3
      <3>4. QED
        BY <2>3, <3>1, <3>2, <3>3
    <2>5. PICK m \in 1 .. Len(d[i].chrs) :
                \/ a.handle = d[i].chrs[m].def
                \/ a.handle = d[i].chrs[m].val
                \/ \E k \in 1 .. Len(d[i].chrs[m].dscs) : a = d[i].chrs[m].dscs[k]
      BY <2>1, <2>4
    <2> DEFINE df == d[i].chrs[m].def
               v  == d[i].chrs[m].val
    <2>6. /\ df \in Nat /\ v \in Nat /\ s < df /\ df < v /\ v <= e
      BY ChrOrder
    <2>7. \A k \in 1 .. Len(d[i].chrs[m].dscs) :
            /\ d[i].chrs[m].dscs[k].handle \in Nat
            /\ d[i].chrs[m].dscs[k].handle <= d[i].end
            /\ d[i].chrs[m].val < d[i].chrs[m].dscs[k].handle
      BY DscOrder
    <2>c. h = df \/ h = v \/ (h \in Nat /\ v < h /\ h <= e)
      BY <2>5, <2>7
    <2>8. h \in Nat /\ s < h /\ df <= h /\ h <= e
      <3> HIDE DEF h, s, e, df, v
      <3>1. QED
        BY <2>6, <2>a, <2>c, SMTT(30)
    <2>9. i = c
      <3> HIDE DEF h, s, e, cs, ce, cd, val
      <3>1. ~(i < c)
        BY <2>8, <2>a
      <3>2. ~(c < i)
        BY <2>8, <2>a
      <3>3. QED
        BY <2>3, <3>1, <3>2
    <2>10. ~(j < m)
      <3> SUFFICES ASSUME j < m PROVE FALSE
        OBVIOUS
      <3>1. end < df
        BY <1>2, <2>9
      <3> HIDE DEF h, df
      <3>2. QED
        BY <2>6, <2>8, <2>a, <3>1
    <2>11. ~(m < j)
      <3> SUFFICES ASSUME m < j PROVE FALSE
        OBVIOUS
      <3>1. v < cd
        BY <2>9, ChrOrder
      <3>2. \A k \in 1 .. Len(d[c].chrs[m].dscs) : d[c].chrs[m].dscs[k].handle < cd
        BY <2>9, DscOrder
      <3>3. h = df \/ h = v \/ h < cd
        BY <2>5, <2>9, <3>2
      <3> HIDE DEF h, df, v, cd, val
      <3>4. QED
        BY <2>6, <2>8, <2>a, <3>1, <3>3
    <2>12. m = j
      BY <2>9, <2>10, <2>11
    <2>13. PICK k \in 1 .. Len(d[c].chrs[j].dscs) : a = d[c].chrs[j].dscs[k]
      BY <1>1, <1>3, <2>5, <2>6, <2>9, <2>12, SMTT(30)
    <2>14. QED
      BY <2>13 DEF After
  <1>4. ASSUME NEW a \in After(d[c].chrs[j].dscs, 0)
        PROVE  a \in Attributes(d) /\ val < a.handle /\ a.handle <= end
    <2>1. PICK k \in 1 .. Len(d[c].chrs[j].dscs) : a = d[c].chrs[j].dscs[k]
      BY DEF After
    <2>2. val < a.handle /\ a.handle <= end
      BY <2>1, DscOrder, EndHandle DEF end
    <2>3. d[c] \in ToSet(d) /\ d[c].chrs \in Seq(Characteristic)
      BY SvcOrder DEF ToSet, Service
    <2>4. d[c].chrs[j] \in ToSet(d[c].chrs) /\ d[c].chrs[j] \in Characteristic
      BY <2>3 DEF ToSet
    <2>5. d[c].chrs[j] \in Chrs(d)
      BY <2>3, <2>4 DEF Chrs
    <2>6. d[c].chrs[j].dscs \in Seq(Descriptor)
      BY <2>4 DEF Characteristic
    <2>7. a \in ToSet(d[c].chrs[j].dscs)
      BY <2>1, <2>6 DEF ToSet
    <2>8. a \in Attributes(d)
      BY <2>5, <2>7 DEF Attributes
    <2>9. QED
      BY <2>2, <2>8
  <1>5. QED
    BY <1>3, <1>4 DEF end

-----------------------------------------------------------------------------
(* What the steps of peer.c have in common.                                *)

\* Place of the first entry of a list with a UUID.
First(l, u) == SelectInSeq(l, LAMBDA e : e.uuid = u)

\* The first entry with a UUID is an entry with that UUID, if there is one.
LEMMA FirstIs ==
  ASSUME NEW l, Len(l) \in Nat, NEW u
  PROVE  First(l, u) = 0 \/ (First(l, u) \in 1 .. Len(l) /\ l[First(l, u)].uuid = u)
  <1> DEFINE S == {n \in 1 .. Len(l) : l[n].uuid = u}
  <1>1. First(l, u) = IF S # {} THEN Min(S) ELSE 0
    BY DEF First, SelectInSeq
  <1>2. S # {} => Min(S) \in S
    <2>1. S \in SUBSET Nat
      OBVIOUS
    <2> HIDE DEF S
    <2>2. QED
      BY <2>1, LeastNumber
  <1>3. QED
    BY <1>1, <1>2

\* peer_dsc_find_uuid finds nothing, or the descriptor with the three UUIDs.
LEMMA FindUuid ==
  ASSUME NEW svcs \in Seq(Service), DscFindUuid(svcs) # 0
  PROVE  \E i \in 1 .. Len(svcs) : \E j \in 1 .. Len(svcs[i].chrs) :
           \E k \in 1 .. Len(svcs[i].chrs[j].dscs) :
             /\ svcs[i].uuid = GATT_SVC_UUID
             /\ svcs[i].chrs[j].uuid = GATT_CHR_UUID
             /\ svcs[i].chrs[j].dscs[k].uuid = CLT_CFG_UUID
             /\ DscFindUuid(svcs) = svcs[i].chrs[j].dscs[k].handle
  <1> DEFINE i == First(svcs, GATT_SVC_UUID)
             j == First(svcs[i].chrs, GATT_CHR_UUID)
             k == First(svcs[i].chrs[j].dscs, CLT_CFG_UUID)
  <1>1. DscFindUuid(svcs) =
          CASE i = 0 -> 0
            [] i # 0 /\ j = 0 -> 0
            [] i # 0 /\ j # 0 /\ k = 0 -> 0
            [] OTHER -> svcs[i].chrs[j].dscs[k].handle
    BY Zenon DEF DscFindUuid, First
  <1>2. i # 0 /\ j # 0 /\ k # 0
    <2> HIDE DEF i, j, k
    <2>1. QED
      BY <1>1
  <1>3. DscFindUuid(svcs) = svcs[i].chrs[j].dscs[k].handle
    <2> HIDE DEF i, j, k
    <2>1. QED
      BY <1>1, <1>2
  <1>4. i \in 1 .. Len(svcs) /\ svcs[i].uuid = GATT_SVC_UUID
    BY <1>2, FirstIs
  <1>5. Len(svcs[i].chrs) \in Nat
    <2> HIDE DEF i
    <2>1. QED
      BY <1>4, ListTypes
  <1>6. j \in 1 .. Len(svcs[i].chrs) /\ svcs[i].chrs[j].uuid = GATT_CHR_UUID
    <2> HIDE DEF i
    <2>1. QED
      BY <1>2, <1>5, FirstIs
  <1>7. Len(svcs[i].chrs[j].dscs) \in Nat
    <2> HIDE DEF i, j
    <2>1. QED
      BY <1>4, <1>6, ListTypes
  <1>8. k \in 1 .. Len(svcs[i].chrs[j].dscs) /\ svcs[i].chrs[j].dscs[k].uuid = CLT_CFG_UUID
    <2> HIDE DEF i, j
    <2>1. QED
      BY <1>2, <1>7, FirstIs
  <1> HIDE DEF i, j, k
  <1>9. QED
    BY <1>3, <1>4, <1>6, <1>8, Zenon

\* While a procedure is under way the discovery has not answered.
LEMMA UnderWay ==
  ASSUME DiscInv, proc.op # "none"
  PROVE  /\ link = "up" /\ started /\ answers = <<>> /\ db \in Databases
         /\ peer.cur_svc # -1 /\ peer.disc_prev_chr_val > 0
         /\ written = 0 /\ ~terminating /\ peer # NoPeer
  BY DEF DiscInv, Types, ControlInv

\* The lists of the peer, and the table they are compared with.
LEMMA PeerLists ==
  ASSUME DiscInv
  PROVE  /\ peer.svcs \in Seq(Service) /\ Len(peer.svcs) \in Nat
         /\ db \in Seq(Service) /\ Len(db) \in Nat
         /\ Len(peer.svcs) <= Len(db)
         /\ \A i \in 1 .. Len(peer.svcs) : SvcPart(peer.svcs[i], db[i])
  <1>1. peer.svcs \in Seq(Service)
    BY DEF DiscInv, Types
  <1>2. db \in Seq(Service)
    <2>1. db \in Databases \/ db = <<>>
      BY DEF DiscInv, Types, Nothing
    <2>2. db \in Databases => db \in Seq(Service)
      BY TableAssumption
    <2>3. QED
      BY <2>1, <2>2, EmptySeq
  <1>3. QED
    BY <1>1, <1>2 DEF DiscInv, TableInv

\* What is unchanged when the lists are.
LEMMA SameLists ==
  ASSUME DiscInv, peer'.svcs = peer.svcs, peer' # NoPeer, peer # NoPeer,
         UNCHANGED <<db, free>>
  PROVE  TableInv' /\ PoolInv'
  <1>1. TableInv'
    BY DEF DiscInv, TableInv
  <1>2. PoolInv'
    BY DEF DiscInv, PoolInv, PoolsAccounted
  <1>3. QED
    BY <1>1, <1>2

\* The values of the peer other than its lists.
OtherPeer(p) ==
  /\ p \in [svcs : Seq(Service), disc_prev_chr_val : 0 .. MaxHandle, cur_svc : -1 .. MaxHandle]
  /\ p.svcs = peer.svcs /\ p.cur_svc # -1

\* A peer that has been added is told from none by its current service.
LEMMA NotNoPeer ==
  ASSUME NEW p, p.cur_svc # -1
  PROVE  p # NoPeer
  BY DEF NoPeer

\* The discovery gives up.
LEMMA GaveUp ==
  ASSUME DiscInv, proc.op # "none", OtherPeer(peer'), NEW p, DiscCb(p, FALSE),
         UNCHANGED <<db, free, started>>, link' \in {"up", "broken"}
  PROVE  DiscInv'
  <1>1. /\ link = "up" /\ started /\ answers = <<>> /\ db \in Databases
        /\ written = 0 /\ peer # NoPeer
    BY UnderWay
  <1>2. peer' # NoPeer /\ peer'.svcs = peer.svcs /\ peer'.cur_svc # -1
    BY NotNoPeer DEF OtherPeer
  <1>3. TableInv' /\ PoolInv'
    BY <1>1, <1>2, SameLists
  <1>4. proc' = NoProc /\ answers' = <<FALSE>> /\ written' = 0 /\ terminating'
    <2>1. proc' = NoProc /\ answers' = Append(answers, FALSE)
      BY DEF DiscCb
    <2>2. \/ written' = 0 /\ terminating' = (0 = 0)
          \/ 0 # 0 /\ written' = 0 /\ terminating' = TRUE
      BY DEF DiscCb
    <2>3. answers' = <<FALSE>>
      BY <1>1, <2>1
    <2>4. written' = 0 /\ terminating'
      BY <2>2, Zenon
    <2>5. QED
      BY <2>1, <2>3, <2>4
  <1>5. proc'.op = "none"
    BY <1>4 DEF NoProc
  <1>6. Types'
    <2>1. peer' \in [svcs : Seq(Service), disc_prev_chr_val : 0 .. MaxHandle,
                      cur_svc : -1 .. MaxHandle]
      BY DEF OtherPeer
    <2>2. proc' \in [op : {"none", "svcs", "chrs", "dscs"}, heard : BOOLEAN,
                      rest : SUBSET Attribute, chr : 0 .. MaxHandle]
      BY <1>4, PoolAssumption DEF NoProc
    <2>3. written' \in 0 .. MaxHandle
      BY <1>4, PoolAssumption
    <2>4. terminating' \in BOOLEAN
      BY DEF DiscCb
    <2>5. link' \in {"down", "up", "broken"}
      OBVIOUS
    <2>6. QED
      BY <1>1, <1>4, <2>1, <2>2, <2>3, <2>4, <2>5 DEF DiscInv, Types
  <1>7. ControlInv'
    BY <1>1, <1>2, <1>4, <1>5 DEF DiscInv, ControlInv
  <1>8. SvcsInv' /\ ChrsInv' /\ DscsInv' /\ FoundInv'
    BY <1>4, <1>5 DEF SvcsInv, ChrsInv, DscsInv, FoundInv
  <1>9. SubscribesToSpeedometer'
    BY <1>4 DEF SubscribesToSpeedometer
  <1>10. QED
    BY <1>3, <1>6, <1>7, <1>8, <1>9 DEF DiscInv

\* The descriptor subscribed to is the speedometer's, when everything is known.
LEMMA FoundIt ==
  ASSUME NEW d \in Databases, DscFindUuid(d) # 0
  PROVE  /\ DscFindUuid(d) \in 0 .. MaxHandle
         /\ \E s \in ToSet(d) : s.uuid = GATT_SVC_UUID /\
              \E c \in ToSet(s.chrs) : c.uuid = GATT_CHR_UUID /\
                [handle |-> DscFindUuid(d), uuid |-> CLT_CFG_UUID] \in ToSet(c.dscs)
  <1>1. d \in Seq(Service)
    BY TableAssumption
  <1>2. PICK i \in 1 .. Len(d) : \E j \in 1 .. Len(d[i].chrs) :
           \E k \in 1 .. Len(d[i].chrs[j].dscs) :
             /\ d[i].uuid = GATT_SVC_UUID
             /\ d[i].chrs[j].uuid = GATT_CHR_UUID
             /\ d[i].chrs[j].dscs[k].uuid = CLT_CFG_UUID
             /\ DscFindUuid(d) = d[i].chrs[j].dscs[k].handle
    BY <1>1, FindUuid
  <1>3. PICK j \in 1 .. Len(d[i].chrs) :
           \E k \in 1 .. Len(d[i].chrs[j].dscs) :
             /\ d[i].uuid = GATT_SVC_UUID
             /\ d[i].chrs[j].uuid = GATT_CHR_UUID
             /\ d[i].chrs[j].dscs[k].uuid = CLT_CFG_UUID
             /\ DscFindUuid(d) = d[i].chrs[j].dscs[k].handle
    BY <1>2
  <1>4. PICK k \in 1 .. Len(d[i].chrs[j].dscs) :
             /\ d[i].uuid = GATT_SVC_UUID
             /\ d[i].chrs[j].uuid = GATT_CHR_UUID
             /\ d[i].chrs[j].dscs[k].uuid = CLT_CFG_UUID
             /\ DscFindUuid(d) = d[i].chrs[j].dscs[k].handle
    BY <1>3
  <1> DEFINE e == d[i].chrs[j].dscs[k]
  <1>5. e \in Descriptor
    BY DscOrder
  <1>6. e = [handle |-> DscFindUuid(d), uuid |-> CLT_CFG_UUID]
    BY <1>4, <1>5 DEF Descriptor
  <1>7. DscFindUuid(d) \in 0 .. MaxHandle
    <2>1. DscFindUuid(d) \in 1 .. MaxHandle
      BY <1>4, <1>5 DEF Descriptor, Handle
    <2>2. MaxHandle \in Nat
      BY PoolAssumption
    <2>3. QED
      BY <2>1, <2>2
  <1>8. d[i] \in ToSet(d)
    BY <1>1 DEF ToSet
  <1>9. d[i].chrs[j] \in ToSet(d[i].chrs)
    BY <1>1, ListTypes DEF ToSet
  <1>10. e \in ToSet(d[i].chrs[j].dscs)
    BY <1>1, ListTypes DEF ToSet
  <1>11. QED
    BY <1>4, <1>6, <1>7, <1>8, <1>9, <1>10

\* The discovery has found everything.
LEMMA Found ==
  ASSUME DiscInv, proc.op # "none", peer.svcs = db, Complete(peer, TRUE),
         UNCHANGED <<link, db, free, started>>
  PROVE  DiscInv'
  <1>1. /\ link = "up" /\ started /\ answers = <<>> /\ db \in Databases
        /\ written = 0 /\ peer # NoPeer /\ peer.cur_svc # -1
    BY UnderWay
  <1>2. /\ peer' \in [svcs : Seq(Service), disc_prev_chr_val : 0 .. MaxHandle,
                       cur_svc : -1 .. MaxHandle]
        /\ peer'.svcs = peer.svcs /\ peer'.cur_svc # -1
    <2>1. peer' = [peer EXCEPT !.disc_prev_chr_val = 0]
      BY DEF Complete
    <2>2. QED
      BY <1>1, <2>1, PoolAssumption DEF DiscInv, Types
  <1>3. TableInv' /\ PoolInv' /\ peer' # NoPeer
    BY <1>1, <1>2, SameLists, NotNoPeer
  <1>4. /\ proc' = NoProc /\ answers' = <<TRUE>>
        /\ \/ written' = DscFindUuid(db) /\ terminating' = (DscFindUuid(db) = 0)
           \/ DscFindUuid(db) # 0 /\ written' = 0 /\ terminating' = TRUE
    BY <1>1 DEF Complete, DiscCb
  <1>5. proc'.op = "none" /\ (written' = 0) = terminating' /\ terminating' \in BOOLEAN
    BY <1>4 DEF NoProc
  <1>6. written' \in 0 .. MaxHandle
    <2>1. DscFindUuid(db) \in 0 .. MaxHandle
      <3>1. MaxHandle \in Nat
        BY PoolAssumption
      <3>2. CASE DscFindUuid(db) # 0
        BY <1>1, <3>2, FoundIt, Zenon
      <3>3. CASE DscFindUuid(db) = 0
        BY <3>1, <3>3
      <3>4. QED
        BY <3>2, <3>3
    <2>2. 0 \in 0 .. MaxHandle
      BY PoolAssumption
    <2>3. QED
      BY <1>4, <2>1, <2>2
  <1>7. Types'
    <2>1. proc' \in [op : {"none", "svcs", "chrs", "dscs"}, heard : BOOLEAN,
                      rest : SUBSET Attribute, chr : 0 .. MaxHandle]
      BY <1>4, PoolAssumption DEF NoProc
    <2>2. QED
      BY <1>2, <1>4, <1>5, <1>6, <2>1 DEF DiscInv, Types
  <1>8. ControlInv'
    BY <1>1, <1>2, <1>3, <1>4, <1>5 DEF DiscInv, ControlInv
  <1>9. SvcsInv' /\ ChrsInv' /\ DscsInv' /\ FoundInv'
    BY <1>2, <1>4, <1>5 DEF SvcsInv, ChrsInv, DscsInv, FoundInv
  <1>10. SubscribesToSpeedometer'
    <2>1. written' # 0 => written' = DscFindUuid(db)
      BY <1>4
    <2>2. QED
      BY <1>1, <1>5, <2>1, FoundIt DEF SubscribesToSpeedometer
  <1>11. QED
    BY <1>3, <1>7, <1>8, <1>9, <1>10 DEF DiscInv

-----------------------------------------------------------------------------
(* From one procedure to the next.                                         *)

\* All characteristics are known; of each the descriptors, or it is still to
\* come.
DscsReady ==
  /\ Len(peer.svcs) = Len(db)
  /\ \A i \in 1 .. Len(db) : HasChrs(i)
  /\ \A i \in 1 .. Len(db) : \A j \in 1 .. Len(db[i].chrs) :
       \/ HasDscs(i, j)
       \/ /\ peer.svcs[i].chrs[j].dscs = <<>>
          /\ peer.disc_prev_chr_val <= db[i].chrs[j].def

\* A characteristic of the peer is known as far as it goes.
LEMMA KnownChr ==
  ASSUME DiscInv, NEW i \in 1 .. Len(peer.svcs), NEW j \in 1 .. Len(peer.svcs[i].chrs)
  PROVE  /\ i \in 1 .. Len(db) /\ j \in 1 .. Len(db[i].chrs)
         /\ ChrPart(peer.svcs[i].chrs[j], db[i].chrs[j])
         /\ Len(peer.svcs[i].chrs) \in Nat /\ Len(db[i].chrs) \in Nat
  <1>1. /\ Len(peer.svcs) \in Nat /\ Len(db) \in Nat /\ Len(peer.svcs) <= Len(db)
        /\ SvcPart(peer.svcs[i], db[i])
        /\ peer.svcs \in Seq(Service) /\ db \in Seq(Service)
    BY PeerLists
  <1>2. i \in 1 .. Len(db)
    BY <1>1
  <1>3. Len(peer.svcs[i].chrs) \in Nat /\ Len(db[i].chrs) \in Nat
    BY <1>1, <1>2, ListTypes
  <1>4. Len(peer.svcs[i].chrs) <= Len(db[i].chrs)
    BY <1>1 DEF SvcPart
  <1>5. j \in 1 .. Len(db[i].chrs)
    BY <1>3, <1>4
  <1>6. ChrPart(peer.svcs[i].chrs[j], db[i].chrs[j])
    BY <1>1 DEF SvcPart
  <1>7. QED
    BY <1>2, <1>3, <1>5, <1>6

\* With all characteristics of a service known, the ranges are those of the
\* table.
LEMMA SameEnd ==
  ASSUME DiscInv, NEW i \in 1 .. Len(peer.svcs), HasChrs(i), NEW j \in 1 .. Len(db[i].chrs)
  PROVE  /\ chr_end_handle(peer.svcs[i], j) = chr_end_handle(db[i], j)
         /\ j \in 1 .. Len(peer.svcs[i].chrs)
         /\ peer.svcs[i].chrs[j].val = db[i].chrs[j].val
         /\ peer.svcs[i].chrs[j].def = db[i].chrs[j].def
  <1>1. Len(peer.svcs[i].chrs) = Len(db[i].chrs) /\ j \in 1 .. Len(peer.svcs[i].chrs)
    BY DEF HasChrs
  <1>2. Len(db[i].chrs) \in Nat /\ Len(peer.svcs[i].chrs) \in Nat
    BY <1>1, KnownChr
  <1>3. \A m \in 1 .. Len(db[i].chrs) : peer.svcs[i].chrs[m].def = db[i].chrs[m].def
    BY <1>1, KnownChr DEF ChrPart
  <1>4. peer.svcs[i].end = db[i].end
    BY PeerLists DEF SvcPart
  <1>5. chr_end_handle(peer.svcs[i], j) = chr_end_handle(db[i], j)
    <2>1. CASE j < Len(db[i].chrs)
      <3>1. j + 1 \in 1 .. Len(db[i].chrs)
        BY <1>2, <2>1
      <3>2. peer.svcs[i].chrs[j + 1].def = db[i].chrs[j + 1].def
        BY <1>3, <3>1
      <3>3. QED
        BY <1>1, <2>1, <3>2 DEF chr_end_handle
    <2>2. CASE ~(j < Len(db[i].chrs))
      BY <1>1, <1>4, <2>2 DEF chr_end_handle
    <2>3. QED
      BY <2>1, <2>2
  <1>6. QED
    BY <1>1, <1>5, KnownChr DEF ChrPart

\* A characteristic whose descriptors are not known is asked for them.
LEMMA Needed ==
  ASSUME DiscInv, proc.op # "none", DscsReady,
         NEW i \in 1 .. Len(db), NEW j \in 1 .. Len(db[i].chrs), ~HasDscs(i, j)
  PROVE  <<i, j>> \in NeedDscs(peer)
  <1>1. db \in Databases /\ peer.svcs \in Seq(Service) /\ i \in 1 .. Len(peer.svcs) /\ HasChrs(i)
    BY UnderWay, PeerLists DEF DscsReady
  <1>2. /\ chr_end_handle(peer.svcs[i], j) = chr_end_handle(db[i], j)
        /\ j \in 1 .. Len(peer.svcs[i].chrs)
        /\ peer.svcs[i].chrs[j].val = db[i].chrs[j].val
        /\ peer.svcs[i].chrs[j].def = db[i].chrs[j].def
    BY <1>1, SameEnd
  <1>3. /\ peer.svcs[i].chrs[j].dscs = <<>>
        /\ peer.disc_prev_chr_val <= db[i].chrs[j].def
    BY DEF DscsReady
  <1>4. Len(db[i].chrs[j].dscs) \in Nat /\ Len(db[i].chrs[j].dscs) # 0
    BY <1>1, <1>3, ListTypes, TableAssumption, SMTT(30) DEF HasDscs
  <1>5. 1 \in 1 .. Len(db[i].chrs[j].dscs)
    BY <1>4
  <1> DEFINE h == db[i].chrs[j].dscs[1].handle
             end == chr_end_handle(db[i], j)
  <1>6. h \in Nat /\ db[i].chrs[j].val < h /\ db[i].chrs[j].val \in Nat
    BY <1>1, <1>5, DscOrder, ChrOrder
  <1>7. end \in Nat /\ h <= end
    BY <1>1, <1>5, EndHandle
  <1> HIDE DEF h, end
  <1>8. ~(end <= db[i].chrs[j].val)
    BY <1>6, <1>7
  <1>9. ~chr_is_empty(peer.svcs[i], j)
    BY <1>2, <1>8 DEF chr_is_empty, end
  <1>10. <<i, j>> \in ChrPlaces(peer.svcs)
    BY <1>1, <1>2, ChrPlaceAt
  <1>11. <<i, j>>[1] = i /\ <<i, j>>[2] = j
    OBVIOUS
  <1>12. QED
    BY <1>2, <1>3, <1>9, <1>10, <1>11 DEF NeedDscs

\* Nothing left to ask for: everything is known.
LEMMA AllKnown ==
  ASSUME DiscInv, proc.op # "none", DscsReady, NeedDscs(peer) = {}
  PROVE  peer.svcs = db
  <1>1. /\ db \in Seq(Service) /\ peer.svcs \in Seq(Service) /\ Len(peer.svcs) = Len(db)
    BY PeerLists DEF DscsReady
  <1>2. \A i \in 1 .. Len(db) : \A j \in 1 .. Len(db[i].chrs) : HasDscs(i, j)
    BY Needed
  <1>3. ASSUME NEW i \in 1 .. Len(db), NEW j \in 1 .. Len(db[i].chrs)
        PROVE  peer.svcs[i].chrs[j] = db[i].chrs[j]
    <2> DEFINE c == peer.svcs[i].chrs[j]
               g == db[i].chrs[j]
    <2>1. i \in 1 .. Len(peer.svcs) /\ j \in 1 .. Len(peer.svcs[i].chrs)
      BY <1>1, SameEnd DEF DscsReady
    <2>2. c \in Characteristic /\ g \in Characteristic
      BY <1>1, <2>1, ListTypes
    <2>3. c.dscs \in Seq(Descriptor) /\ g.dscs \in Seq(Descriptor)
      BY <1>1, <2>1, ListTypes
    <2>4. ChrPart(c, g)
      BY <2>1, KnownChr
    <2>5. Len(c.dscs) = Len(g.dscs)
      BY <1>2 DEF HasDscs
    <2> HIDE DEF c, g
    <2>6. \A k \in 1 .. Len(c.dscs) : c.dscs[k] = g.dscs[k]
      BY <2>4 DEF ChrPart
    <2>7. c.dscs = g.dscs
      BY <2>3, <2>5, <2>6, SeqEqual
    <2>8. c.def = g.def /\ c.val = g.val /\ c.uuid = g.uuid
      BY <2>4 DEF ChrPart
    <2>9. c = g
      BY <2>2, <2>7, <2>8 DEF Characteristic
    <2>10. QED
      BY <2>9 DEF c, g
  <1>4. ASSUME NEW i \in 1 .. Len(db) PROVE peer.svcs[i] = db[i]
    <2> DEFINE s == peer.svcs[i]
               g == db[i]
    <2>1. s \in Service /\ g \in Service
      BY <1>1, ListTypes
    <2>2. s.chrs \in Seq(Characteristic) /\ g.chrs \in Seq(Characteristic)
      BY <1>1, ListTypes
    <2>3. Len(s.chrs) = Len(g.chrs)
      BY DEF DscsReady, HasChrs
    <2>4. SvcPart(s, g)
      BY <1>1, PeerLists
    <2>5. \A j \in 1 .. Len(g.chrs) : s.chrs[j] = g.chrs[j]
      BY <1>3
    <2> HIDE DEF s, g
    <2>6. s.chrs = g.chrs
      BY <2>2, <2>3, <2>5, SeqEqual
    <2>7. s.start = g.start /\ s.end = g.end /\ s.uuid = g.uuid
      BY <2>4 DEF SvcPart
    <2>8. s = g
      BY <2>1, <2>6, <2>7 DEF Service
    <2>9. QED
      BY <2>8 DEF s, g
  <1>5. QED
    BY <1>1, <1>4, SeqEqual

\* A set of places that is not empty has a first one.
Precedes(a, b) == a[1] < b[1] \/ (a[1] = b[1] /\ a[2] <= b[2])

\* A set of places that is not empty has one that precedes the others.
LEMMA FirstPlace ==
  ASSUME NEW S \in SUBSET (Nat \X Nat), S # {}
  PROVE  \E a \in S : \A b \in S : Precedes(a, b)
  <1> DEFINE I == {n \in Nat : \E b \in S : b[1] = n}
  <1>1. I \in SUBSET Nat /\ I # {}
    <2>1. PICK b \in S : TRUE
      OBVIOUS
    <2>2. b[1] \in Nat
      BY <2>1
    <2>3. QED
      BY <2>2
  <1> DEFINE i == Min(I)
  <1>2. i \in I /\ \A n \in I : i <= n
    <2> HIDE DEF I
    <2>1. QED
      BY <1>1, LeastNumber
  <1> HIDE DEF i
  <1>3. i \in Nat /\ \E b \in S : b[1] = i
    BY <1>2
  <1>4. \A b \in S : b[1] \in Nat /\ b[2] \in Nat /\ b = <<b[1], b[2]>>
    OBVIOUS
  <1>5. \A b \in S : i <= b[1]
    BY <1>2, <1>4
  <1> DEFINE J == {n \in Nat : \E b \in S : b[1] = i /\ b[2] = n}
  <1>6. J \in SUBSET Nat /\ J # {}
    BY <1>3, <1>4
  <1> DEFINE j == Min(J)
  <1>7. j \in J /\ \A n \in J : j <= n
    <2> HIDE DEF J
    <2>1. QED
      BY <1>6, LeastNumber
  <1> HIDE DEF j
  <1>8. PICK a \in S : a[1] = i /\ a[2] = j
    BY <1>7
  <1>9. \A b \in S : b[1] = i => j <= b[2]
    BY <1>4, <1>7
  <1>10. ASSUME NEW b \in S PROVE Precedes(a, b)
    <2>1. i <= b[1] /\ b[1] \in Nat
      BY <1>4, <1>5
    <2>2. CASE b[1] = i
      BY <1>8, <1>9, <2>2 DEF Precedes
    <2>3. CASE b[1] # i
      BY <1>3, <1>8, <2>1, <2>3 DEF Precedes
    <2>4. QED
      BY <2>2, <2>3
  <1>11. QED
    BY <1>10

\* The next characteristic to ask for its descriptors: it is in the table,
\* none of its descriptors is known, and of all that come before it they are.
LEMMA NextNeeded ==
  ASSUME DiscInv, proc.op # "none", DscsReady, NeedDscs(peer) # {}
  PROVE  LET at == CHOOSE a \in NeedDscs(peer) : \A b \in NeedDscs(peer) :
                     a[1] < b[1] \/ (a[1] = b[1] /\ a[2] <= b[2])
         IN  \E c \in 1 .. Len(db) : \E d \in 1 .. Len(db[c].chrs) :
               /\ at = <<c, d>>
               /\ peer.svcs[c].chrs[d].dscs = <<>>
               /\ \A i \in 1 .. Len(db) : \A j \in 1 .. Len(db[i].chrs) :
                    ~HasDscs(i, j) => Precedes(<<c, d>>, <<i, j>>)
  <1> DEFINE N == NeedDscs(peer)
             at == CHOOSE a \in N : \A b \in N : Precedes(a, b)
  <1>1. /\ db \in Seq(Service) /\ peer.svcs \in Seq(Service) /\ Len(peer.svcs) = Len(db)
        /\ Len(db) \in Nat
    BY PeerLists DEF DscsReady
  <1>2. ASSUME NEW a \in N
        PROVE  \E i \in 1 .. Len(db) : \E j \in 1 .. Len(db[i].chrs) :
                 a = <<i, j>> /\ peer.svcs[i].chrs[j].dscs = <<>> /\ i \in Nat /\ j \in Nat
    <2>1. a \in ChrPlaces(peer.svcs) /\ peer.svcs[a[1]].chrs[a[2]].dscs = <<>>
      BY DEF NeedDscs
    <2>2. PICK i \in 1 .. Len(peer.svcs) : \E j \in 1 .. Len(peer.svcs[i].chrs) : a = <<i, j>>
      BY <1>1, <2>1, ChrPlaceOf
    <2>3. PICK j \in 1 .. Len(peer.svcs[i].chrs) : a = <<i, j>>
      BY <2>2
    <2>4. i \in 1 .. Len(db) /\ j \in 1 .. Len(db[i].chrs) /\ Len(db[i].chrs) \in Nat
      BY KnownChr
    <2>5. i \in Nat /\ j \in Nat
      BY <1>1, <2>4
    <2>6. peer.svcs[i].chrs[j].dscs = <<>>
      BY <2>1, <2>3
    <2>7. QED
      BY <2>3, <2>4, <2>5, <2>6
  <1>3. N \in SUBSET (Nat \X Nat)
    BY <1>2
  <1>4. at \in N /\ \A b \in N : Precedes(at, b)
    <2> HIDE DEF N
    <2>1. \E a \in N : \A b \in N : Precedes(a, b)
      BY <1>3, FirstPlace DEF N
    <2>2. QED
      BY <2>1
  <1>5. at = CHOOSE a \in NeedDscs(peer) : \A b \in NeedDscs(peer) :
               a[1] < b[1] \/ (a[1] = b[1] /\ a[2] <= b[2])
    BY DEF Precedes
  <1>6. \A i \in 1 .. Len(db) : \A j \in 1 .. Len(db[i].chrs) :
          ~HasDscs(i, j) => <<i, j>> \in N
    BY Needed
  <1> HIDE DEF at, N
  <1>7. PICK c \in 1 .. Len(db) : \E d \in 1 .. Len(db[c].chrs) :
                 at = <<c, d>> /\ peer.svcs[c].chrs[d].dscs = <<>>
    BY <1>2, <1>4
  <1>8. PICK d \in 1 .. Len(db[c].chrs) : at = <<c, d>> /\ peer.svcs[c].chrs[d].dscs = <<>>
    BY <1>7
  <1>9. \A i \in 1 .. Len(db) : \A j \in 1 .. Len(db[i].chrs) :
          ~HasDscs(i, j) => Precedes(<<c, d>>, <<i, j>>)
    BY <1>4, <1>6, <1>8
  <1>10. QED
    BY <1>5, <1>8, <1>9

\* A procedure starts: what it leaves as it is.
LEMMA Started ==
  ASSUME DiscInv, proc.op # "none", OtherPeer(peer'), NEW p, Run(p, proc'),
         UNCHANGED <<link, db, free, started>>,
         proc' \in [op : {"svcs", "chrs", "dscs"}, heard : BOOLEAN,
                    rest : SUBSET Attribute, chr : 0 .. MaxHandle],
         peer'.disc_prev_chr_val > 0,
         SvcsInv' /\ ChrsInv' /\ DscsInv'
  PROVE  DiscInv'
  <1>1. /\ link = "up" /\ started /\ answers = <<>> /\ db \in Databases
        /\ written = 0 /\ ~terminating /\ peer # NoPeer
    BY UnderWay
  <1>2. peer' # NoPeer /\ peer'.svcs = peer.svcs /\ peer'.cur_svc # -1
    BY NotNoPeer DEF OtherPeer
  <1>3. TableInv' /\ PoolInv'
    BY <1>1, <1>2, SameLists
  <1>4. answers' = answers /\ written' = written /\ terminating' = terminating
    BY DEF Run
  <1>5. proc'.op # "none" /\ proc'.op \in {"svcs", "chrs", "dscs"}
    OBVIOUS
  <1>6. Types'
    <2>1. peer' \in [svcs : Seq(Service), disc_prev_chr_val : 0 .. MaxHandle,
                      cur_svc : -1 .. MaxHandle]
      BY DEF OtherPeer
    <2>2. proc' \in [op : {"none", "svcs", "chrs", "dscs"}, heard : BOOLEAN,
                      rest : SUBSET Attribute, chr : 0 .. MaxHandle]
      OBVIOUS
    <2>3. QED
      BY <1>4, <2>1, <2>2 DEF DiscInv, Types
  <1>7. ControlInv'
    BY <1>1, <1>2, <1>4, <1>5 DEF DiscInv, ControlInv
  <1>8. FoundInv' /\ SubscribesToSpeedometer'
    BY <1>1, <1>4 DEF FoundInv, SubscribesToSpeedometer
  <1>9. QED
    BY <1>3, <1>6, <1>7, <1>8 DEF DiscInv

\* The characteristic after the one that was asked is still to come.
LEMMA LaterChr ==
  ASSUME db \in Databases, NEW c \in 1 .. Len(db), NEW d \in 1 .. Len(db[c].chrs),
         NEW i \in 1 .. Len(db), NEW j \in 1 .. Len(db[i].chrs),
         <<i, j>> # <<c, d>>, Precedes(<<c, d>>, <<i, j>>)
  PROVE  db[c].chrs[d].val < db[i].chrs[j].def
  <1>1. c < i \/ (c = i /\ d <= j)
    BY DEF Precedes
  <1>2. CASE c < i
    <2>1. db[c].end < db[i].start /\ db[c].end \in Nat /\ db[i].start \in Nat
      BY <1>2, SvcOrder
    <2>2. db[c].chrs[d].val <= db[c].end /\ db[c].chrs[d].val \in Nat
      BY ChrOrder
    <2>3. db[i].start < db[i].chrs[j].def /\ db[i].chrs[j].def \in Nat
      BY ChrOrder
    <2> DEFINE val   == db[c].chrs[d].val
               end   == db[c].end
               start == db[i].start
               def   == db[i].chrs[j].def
    <2>4. /\ val \in Nat /\ end \in Nat /\ start \in Nat /\ def \in Nat
          /\ val <= end /\ end < start /\ start < def
      BY <2>1, <2>2, <2>3
    <2> HIDE DEF val, end, start, def
    <2>5. val < def
      BY <2>4
    <2>6. QED
      BY <2>5 DEF val, def
  <1>3. CASE c = i /\ d <= j
    <2>1. Len(db[c].chrs) \in Nat
      BY TableAssumption, ListTypes
    <2>2. d < j
      BY <1>3, <2>1
    <2>3. QED
      BY <1>3, <2>2, ChrOrder
  <1>4. QED
    BY <1>1, <1>2, <1>3

\* peer_disc_dscs keeps the invariant: it asks for the next descriptors, fails
\* to, or has found everything.
LEMMA DscsStep ==
  ASSUME DiscInv, proc.op # "none", DscsReady, DiscDscs(peer),
         UNCHANGED <<link, db, free, started>>
  PROVE  DiscInv'
  <1>1. /\ link = "up" /\ db \in Databases /\ peer # NoPeer /\ peer.cur_svc # -1
    BY UnderWay
  <1>2. CASE NeedDscs(peer) = {}
    <2>1. Complete(peer, TRUE)
      BY <1>2 DEF DiscDscs
    <2>2. QED
      BY <1>2, <2>1, AllKnown, Found
  <1>3. CASE NeedDscs(peer) # {}
    <2> DEFINE at  == CHOOSE a \in NeedDscs(peer) : \A b \in NeedDscs(peer) :
                        a[1] < b[1] \/ (a[1] = b[1] /\ a[2] <= b[2])
               svc == peer.svcs[at[1]]
               val == svc.chrs[at[2]].val
               q   == [peer EXCEPT !.disc_prev_chr_val = val]
    <2>1. \/ Run(q, DiscAllDscs(val, chr_end_handle(svc, at[2])))
          \/ DiscCb(peer, FALSE) /\ peer' = q
      BY <1>3, Zenon DEF DiscDscs
    <2>2. PICK c \in 1 .. Len(db) : \E d \in 1 .. Len(db[c].chrs) :
               /\ at = <<c, d>>
               /\ peer.svcs[c].chrs[d].dscs = <<>>
               /\ \A i \in 1 .. Len(db) : \A j \in 1 .. Len(db[i].chrs) :
                    ~HasDscs(i, j) => Precedes(<<c, d>>, <<i, j>>)
      BY <1>3, NextNeeded
    <2>3. PICK d \in 1 .. Len(db[c].chrs) :
               /\ at = <<c, d>>
               /\ peer.svcs[c].chrs[d].dscs = <<>>
               /\ \A i \in 1 .. Len(db) : \A j \in 1 .. Len(db[i].chrs) :
                    ~HasDscs(i, j) => Precedes(<<c, d>>, <<i, j>>)
      BY <2>2
    <2> HIDE DEF at
    <2>4. at[1] = c /\ at[2] = d
      BY <2>3
    <2>5. c \in 1 .. Len(peer.svcs) /\ HasChrs(c)
      BY DEF DscsReady
    <2>6. /\ val = db[c].chrs[d].val
          /\ chr_end_handle(svc, at[2]) = chr_end_handle(db[c], d)
      BY <2>4, <2>5, SameEnd
    <2> HIDE DEF val, svc
    <2>7. val \in 1 .. MaxHandle /\ val > 0
      <3>1. db[c].chrs[d] \in Characteristic
        BY <1>1, ChrOrder
      <3>2. QED
        <4>1. val \in 1 .. MaxHandle
          BY <2>6, <3>1 DEF Characteristic, Handle
        <4>2. MaxHandle \in Nat
          BY PoolAssumption
        <4>3. QED
          BY <4>1, <4>2
    <2>8. OtherPeer(q) /\ q.disc_prev_chr_val = val
      <3>1. peer \in [svcs : Seq(Service), disc_prev_chr_val : 0 .. MaxHandle,
                      cur_svc : -1 .. MaxHandle]
        BY DEF DiscInv, Types
      <3>2. val \in 0 .. MaxHandle
        <4>1. MaxHandle \in Nat
          BY PoolAssumption
        <4>2. QED
          BY <2>7, <4>1
      <3>3. QED
        BY <1>1, <3>1, <3>2 DEF OtherPeer
    <2>9. CASE DiscCb(peer, FALSE) /\ peer' = q
      <3>1. OtherPeer(peer')
        BY <2>8, <2>9 DEF OtherPeer
      <3>2. QED
        BY <1>1, <2>9, <3>1, GaveUp
    <2>10. CASE Run(q, DiscAllDscs(val, chr_end_handle(svc, at[2])))
      <3>1. /\ peer' = q /\ proc' = DiscAllDscs(val, chr_end_handle(db[c], d))
            /\ Run(q, proc')
        BY <2>6, <2>10 DEF Run
      <3>2. /\ proc'.op = "dscs" /\ proc'.chr = val
            /\ proc'.rest = {a \in Attributes(db) : /\ val < a.handle
                                                   /\ a.handle <= chr_end_handle(db[c], d)}
        BY <3>1 DEF DiscAllDscs
      <3>3. proc'.rest = After(db[c].chrs[d].dscs, 0)
        BY <1>1, <2>6, <3>2, DscsInRange, SMTT(30)
      <3>4. proc' \in [op : {"svcs", "chrs", "dscs"}, heard : BOOLEAN,
                       rest : SUBSET Attribute, chr : 0 .. MaxHandle]
        <4> DEFINE R == After(db[c].chrs[d].dscs, 0)
        <4>1. R \in SUBSET Attribute
          <5>1. ASSUME NEW x \in R PROVE x \in Descriptor
            <6>1. PICK k \in 1 .. Len(db[c].chrs[d].dscs) : x = db[c].chrs[d].dscs[k]
              BY DEF After
            <6>2. QED
              BY <1>1, <6>1, DscOrder
          <5>2. QED
            BY <5>1 DEF Attribute
        <4>2. val \in 0 .. MaxHandle
          BY <2>7
        <4>3. proc' = [op |-> "dscs", heard |-> FALSE, chr |-> val, rest |-> R]
          BY <3>1, <3>2, <3>3 DEF DiscAllDscs
        <4> HIDE DEF R
        <4>4. QED
          BY <4>1, <4>2, <4>3
      <3>5. peer'.svcs = peer.svcs /\ peer'.disc_prev_chr_val = val
        BY <2>8, <3>1 DEF OtherPeer
      <3>6. SvcsInv' /\ ChrsInv'
        BY <3>2 DEF SvcsInv, ChrsInv
      <3>7. ASSUME NEW i \in 1 .. Len(db), NEW j \in 1 .. Len(db[i].chrs), <<i, j>> # <<c, d>>
            PROVE  \/ HasDscs(i, j)
                   \/ peer.svcs[i].chrs[j].dscs = <<>> /\ val < db[i].chrs[j].def
        <4>1. CASE HasDscs(i, j)
          BY <4>1
        <4>2. CASE ~HasDscs(i, j)
          <5>1. peer.svcs[i].chrs[j].dscs = <<>>
            BY <4>2 DEF DscsReady
          <5>2. Precedes(<<c, d>>, <<i, j>>)
            BY <2>3, <4>2
          <5>3. db[c].chrs[d].val < db[i].chrs[j].def
            BY <1>1, <3>7, <5>2, LaterChr
          <5>4. QED
            BY <2>6, <5>1, <5>3
        <4>3. QED
          BY <4>1, <4>2
      <3>8. DscsOf(c, d)'
        <4>1. proc'.rest = After(db[c].chrs[d].dscs, Len(peer.svcs[c].chrs[d].dscs))
          <5>1. Len(peer.svcs[c].chrs[d].dscs) = 0
            BY <2>3
          <5>2. QED
            BY <3>3, <5>1
        <4>2. QED
          BY <2>6, <3>2, <3>5, <3>7, <4>1 DEF DscsOf, HasDscs
      <3>9. DscsInv'
        <4>1. Len(peer'.svcs) = Len(db') /\ \A i \in 1 .. Len(db') : HasChrs(i)'
          BY <3>5 DEF DscsReady, HasChrs
        <4>2. peer'.disc_prev_chr_val = proc'.chr
          BY <3>2, <3>5
        <4>3. QED
          BY <3>8, <4>1, <4>2 DEF DscsInv
      <3>10. OtherPeer(peer') /\ peer'.disc_prev_chr_val > 0
        BY <2>7, <2>8, <3>1 DEF OtherPeer
      <3>11. QED
        BY <3>1, <3>4, <3>6, <3>9, <3>10, Started
    <2>11. QED
      BY <2>1, <2>9, <2>10
  <1>4. QED
    BY <1>2, <1>3

\* All services are known, no descriptor yet, and of each service all of the
\* characteristics or none.
ChrsReady ==
  /\ peer.disc_prev_chr_val = 1
  /\ Len(peer.svcs) = Len(db)
  /\ \A i \in 1 .. Len(db) :
       /\ peer.svcs[i].chrs = <<>> \/ HasChrs(i)
       /\ \A j \in 1 .. Len(peer.svcs[i].chrs) : peer.svcs[i].chrs[j].dscs = <<>>

\* The place of the next service to ask for its characteristics, 0 if none.
NextAsked(svcs) == SelectInSeq(svcs, LAMBDA s : ~svc_is_empty(s) /\ s.chrs = <<>>)

\* It is a service without known characteristics; if there is none, all have
\* some or are too short to.
LEMMA NextAskedIs ==
  ASSUME NEW svcs, Len(svcs) \in Nat
  PROVE  LET n == NextAsked(svcs)
         IN  \/ n = 0 /\ \A i \in 1 .. Len(svcs) : svc_is_empty(svcs[i]) \/ svcs[i].chrs # <<>>
             \/ n \in 1 .. Len(svcs) /\ n # 0 /\ svcs[n].chrs = <<>>
  <1> DEFINE S == {n \in 1 .. Len(svcs) : ~svc_is_empty(svcs[n]) /\ svcs[n].chrs = <<>>}
  <1>1. NextAsked(svcs) = IF S # {} THEN Min(S) ELSE 0
    BY DEF NextAsked, SelectInSeq
  <1>2. S # {} => Min(S) \in S
    <2>1. S \in SUBSET Nat
      OBVIOUS
    <2> HIDE DEF S
    <2>2. QED
      BY <2>1, LeastNumber
  <1>3. CASE S = {}
    BY <1>1, <1>3
  <1>4. CASE S # {}
    BY <1>1, <1>2, <1>4
  <1>5. QED
    BY <1>3, <1>4

\* A service that is one handle long has no characteristics.
LEMMA EmptyService ==
  ASSUME NEW d \in Databases, NEW i \in 1 .. Len(d), svc_is_empty(d[i])
  PROVE  Len(d[i].chrs) = 0
  <1>1. d[i].chrs \in Seq(Characteristic)
    BY SvcOrder DEF Service
  <1>2. ASSUME Len(d[i].chrs) # 0 PROVE FALSE
    <2>1. 1 \in 1 .. Len(d[i].chrs)
      BY <1>1, <1>2
    <2> DEFINE c == d[i].chrs[1]
    <2>2. c.def \in Nat /\ c.val \in Nat /\ d[i].start < c.def /\ c.def < c.val /\ c.val <= d[i].end
      BY <2>1, ChrOrder
    <2>3. d[i].start \in Nat /\ d[i].end \in Nat /\ d[i].end <= d[i].start
      BY SvcOrder DEF svc_is_empty
    <2>4. QED
      BY <2>2, <2>3
  <1>3. QED
    BY <1>2

\* peer_disc_chrs keeps the invariant: it asks for the next characteristics,
\* fails to, or goes on to the descriptors.
LEMMA ChrsStep ==
  ASSUME DiscInv, proc.op # "none", ChrsReady, DiscChrs(peer),
         UNCHANGED <<link, db, free, started>>
  PROVE  DiscInv'
  <1>1. /\ link = "up" /\ db \in Databases /\ peer # NoPeer /\ peer.cur_svc # -1
        /\ peer.disc_prev_chr_val > 0
    BY UnderWay
  <1>2. /\ peer.svcs \in Seq(Service) /\ Len(peer.svcs) \in Nat /\ Len(db) \in Nat
        /\ Len(peer.svcs) = Len(db)
        /\ \A i \in 1 .. Len(peer.svcs) : SvcPart(peer.svcs[i], db[i])
    BY PeerLists DEF ChrsReady
  <1> DEFINE n == NextAsked(peer.svcs)
             Asking(c) == [peer EXCEPT !.cur_svc = peer.svcs[c].start]
  <1>3. IF n = 0 THEN DiscDscs(peer)
        ELSE Run(Asking(n), DiscAllChrs(peer.svcs[n])) \/ Complete(Asking(n), FALSE)
    BY DEF DiscChrs, NextAsked
  <1>4. \/ n = 0 /\ \A i \in 1 .. Len(db) : svc_is_empty(peer.svcs[i]) \/ peer.svcs[i].chrs # <<>>
        \/ n \in 1 .. Len(db) /\ n # 0 /\ peer.svcs[n].chrs = <<>>
    BY <1>2, NextAskedIs
  <1> HIDE DEF n
  <1>5. CASE n = 0
    <2>1. \A i \in 1 .. Len(db) : svc_is_empty(peer.svcs[i]) \/ peer.svcs[i].chrs # <<>>
      BY <1>4, <1>5
    <2>2. ASSUME NEW i \in 1 .. Len(db) PROVE HasChrs(i)
      <3>1. CASE peer.svcs[i].chrs # <<>>
        BY <3>1 DEF ChrsReady
      <3>2. CASE svc_is_empty(peer.svcs[i]) /\ peer.svcs[i].chrs = <<>>
        <4>1. SvcPart(peer.svcs[i], db[i])
          BY <1>2
        <4>2. svc_is_empty(db[i])
          BY <3>2, <4>1 DEF SvcPart, svc_is_empty
        <4>3. Len(db[i].chrs) = 0
          BY <1>1, <4>2, EmptyService
        <4>4. QED
          BY <3>2, <4>3 DEF HasChrs
      <3>3. QED
        BY <2>1, <3>1, <3>2
    <2>3. ASSUME NEW i \in 1 .. Len(db), NEW j \in 1 .. Len(db[i].chrs)
          PROVE  /\ peer.svcs[i].chrs[j].dscs = <<>>
                 /\ peer.disc_prev_chr_val <= db[i].chrs[j].def
      <3>1. j \in 1 .. Len(peer.svcs[i].chrs)
        BY <2>2 DEF HasChrs
      <3>2. db[i].chrs[j] \in Characteristic
        BY <1>1, ChrOrder
      <3>3. db[i].chrs[j].def \in 1 .. MaxHandle /\ MaxHandle \in Nat
        BY <3>2, PoolAssumption DEF Characteristic, Handle
      <3>4. peer.svcs[i].chrs[j].dscs = <<>>
        BY <3>1 DEF ChrsReady
      <3>5. peer.disc_prev_chr_val = 1
        BY DEF ChrsReady
      <3>6. QED
        BY <3>3, <3>4, <3>5
    <2>4. DscsReady
      BY <1>2, <2>2, <2>3 DEF DscsReady
    <2>5. DiscDscs(peer)
      BY <1>3, <1>5
    <2>6. QED
      BY <2>4, <2>5, DscsStep
  <1>6. CASE n # 0
    <2>1. PICK c \in 1 .. Len(db) : c = n /\ peer.svcs[c].chrs = <<>>
      BY <1>4, <1>6
    <2> DEFINE q == Asking(c)
    <2>2. peer.svcs[c].start = db[c].start /\ peer.svcs[c].end = db[c].end
      BY <1>2, <2>1 DEF SvcPart
    <2>3. peer.svcs[c].start \in 1 .. MaxHandle
      <3>1. db[c] \in Service
        BY <1>1, <2>1, SvcOrder
      <3>2. QED
        BY <2>2, <3>1 DEF Service, Handle
    <2>4. /\ q \in [svcs : Seq(Service), disc_prev_chr_val : 0 .. MaxHandle,
                     cur_svc : -1 .. MaxHandle]
          /\ q.svcs = peer.svcs /\ q.cur_svc = db[c].start /\ q.cur_svc # -1
          /\ q.disc_prev_chr_val = peer.disc_prev_chr_val
      <3>1. peer.svcs[c].start \in -1 .. MaxHandle /\ peer.svcs[c].start # -1
        BY <2>3, PoolAssumption
      <3>2. peer \in [svcs : Seq(Service), disc_prev_chr_val : 0 .. MaxHandle,
                      cur_svc : -1 .. MaxHandle]
        BY DEF DiscInv, Types
      <3>3. QED
        BY <2>2, <3>1, <3>2
    <2> HIDE DEF q
    <2>5. CASE Complete(q, FALSE)
      <3>1. peer' = [q EXCEPT !.disc_prev_chr_val = 0] /\ DiscCb(q, FALSE)
        BY <2>5 DEF Complete
      <3>2. OtherPeer(peer')
        BY <2>4, <3>1, PoolAssumption, SMTT(30) DEF OtherPeer
      <3>3. QED
        BY <1>1, <3>1, <3>2, GaveUp
    <2>6. CASE Run(q, DiscAllChrs(peer.svcs[c]))
      <3>1. peer' = q /\ proc' = DiscAllChrs(peer.svcs[c]) /\ Run(q, proc')
        BY <2>6 DEF Run
      <3> DEFINE R == After(db[c].chrs, 0)
      <3>2. {x \in Chrs(db) : peer.svcs[c].start <= x.def /\ x.def <= peer.svcs[c].end} = R
        BY <1>1, <2>1, <2>2, ChrsInRange
      <3>3. proc' = [op |-> "chrs", heard |-> FALSE, chr |-> 0, rest |-> R]
        BY <3>1, <3>2 DEF DiscAllChrs
      <3>4. R \in SUBSET Attribute
        <4>1. ASSUME NEW x \in R PROVE x \in Characteristic
          <5>1. PICK k \in 1 .. Len(db[c].chrs) : x = db[c].chrs[k]
            BY DEF After
          <5>2. QED
            BY <1>1, <2>1, <5>1, ChrOrder
        <4>2. QED
          BY <4>1 DEF Attribute
      <3>5. proc'.op = "chrs" /\ proc'.rest = After(db[c].chrs, 0)
        BY <3>3
      <3> HIDE DEF R
      <3>6. proc' \in [op : {"svcs", "chrs", "dscs"}, heard : BOOLEAN,
                       rest : SUBSET Attribute, chr : 0 .. MaxHandle]
        BY <3>3, <3>4, PoolAssumption
      <3>7. OtherPeer(peer') /\ peer'.disc_prev_chr_val = 1
        BY <2>4, <3>1 DEF OtherPeer, ChrsReady
      <3>8. SvcsInv' /\ DscsInv'
        BY <3>5 DEF SvcsInv, DscsInv
      <3>9. peer'.svcs = peer.svcs /\ peer'.cur_svc = db[c].start
        BY <2>4, <3>1
      <3>10. ChrsOf(c)'
        <4>1. proc'.rest = After(db[c].chrs, Len(peer.svcs[c].chrs))
          <5>1. Len(peer.svcs[c].chrs) = 0
            BY <2>1
          <5>2. QED
            BY <3>5, <5>1
        <4>2. \A i \in 1 .. Len(db) : i # c => peer.svcs[i].chrs = <<>> \/ HasChrs(i)
          BY DEF ChrsReady
        <4>3. QED
          BY <3>9, <4>1, <4>2 DEF ChrsOf, HasChrs
      <3>11. ChrsInv'
        <4>1. Len(peer'.svcs) = Len(db')
          BY <1>2, <3>9
        <4>2. \A i \in 1 .. Len(db') : \A j \in 1 .. Len(peer'.svcs[i].chrs) :
                peer'.svcs[i].chrs[j].dscs = <<>>
          BY <3>9 DEF ChrsReady
        <4>3. QED
          BY <2>1, <3>7, <3>10, <4>1, <4>2 DEF ChrsInv
      <3>12. peer'.disc_prev_chr_val > 0
        BY <3>7
      <3>13. QED
        BY <3>1, <3>6, <3>7, <3>8, <3>11, <3>12, Started
    <2>7. QED
      BY <1>3, <1>6, <2>1, <2>5, <2>6 DEF q
  <1>7. QED
    BY <1>5, <1>6

-----------------------------------------------------------------------------
(* The steps.                                                              *)

\* The device's response changes nothing but what may be reported.
LEMMA RespondStep ==
  ASSUME DiscInv, Respond
  PROVE  DiscInv'
  <1>1. UNCHANGED <<link, db, peer, free, started, answers, written, terminating>>
    BY DEF Respond
  <1>2. proc' = [proc EXCEPT !.heard = TRUE] /\ proc # NoProc
    BY DEF Respond
  <1>3. proc \in [op : {"none", "svcs", "chrs", "dscs"}, heard : BOOLEAN,
                 rest : SUBSET Attribute, chr : 0 .. MaxHandle]
    BY DEF DiscInv, Types
  <1>4. /\ proc'.op = proc.op /\ proc'.rest = proc.rest /\ proc'.chr = proc.chr
        /\ proc' \in [op : {"none", "svcs", "chrs", "dscs"}, heard : BOOLEAN,
                     rest : SUBSET Attribute, chr : 0 .. MaxHandle]
    BY <1>2, <1>3
  <1>5. Types'
    BY <1>1, <1>4 DEF DiscInv, Types
  <1>6. ControlInv'
    BY <1>1, <1>2, <1>4 DEF DiscInv, ControlInv
  <1>7. TableInv' /\ FoundInv' /\ SubscribesToSpeedometer' /\ PoolInv'
    BY <1>1 DEF DiscInv, TableInv, FoundInv, SubscribesToSpeedometer, PoolInv, PoolsAccounted
  <1>8. SvcsInv'
    BY <1>1, <1>4 DEF DiscInv, SvcsInv
  <1>9. ChrsInv'
    BY <1>1, <1>4 DEF DiscInv, ChrsInv, ChrsOf, HasChrs
  <1>10. DscsInv'
    <2> SUFFICES ASSUME proc'.op = "dscs"
                 PROVE  /\ peer'.disc_prev_chr_val = proc'.chr
                        /\ Len(peer'.svcs) = Len(db')
                        /\ \A i \in 1 .. Len(db') : HasChrs(i)'
                        /\ \E c \in 1 .. Len(db') : \E d \in 1 .. Len(db'[c].chrs) : DscsOf(c, d)'
      BY DEF DscsInv
    <2>1. /\ peer.disc_prev_chr_val = proc.chr /\ Len(peer.svcs) = Len(db)
          /\ \A i \in 1 .. Len(db) : HasChrs(i)
          /\ \E c \in 1 .. Len(db) : \E d \in 1 .. Len(db[c].chrs) : DscsOf(c, d)
      BY <1>4 DEF DiscInv, DscsInv
    <2>2. PICK c \in 1 .. Len(db) : \E d \in 1 .. Len(db[c].chrs) : DscsOf(c, d)
      BY <2>1
    <2>3. PICK d \in 1 .. Len(db[c].chrs) : DscsOf(c, d)
      BY <2>2, SMTT(30)
    <2>4. DscsOf(c, d)'
      BY <1>1, <1>4, <2>3 DEF DscsOf, HasDscs
    <2>5. QED
      BY <1>1, <1>4, <2>1, <2>4 DEF HasChrs
  <1>11. QED
    BY <1>5, <1>6, <1>7, <1>8, <1>9, <1>10 DEF DiscInv

\* The peer with its mark reset.
LEMMA Reset ==
  ASSUME DiscInv, proc.op # "none", peer' = [peer EXCEPT !.disc_prev_chr_val = 0]
  PROVE  OtherPeer(peer')
  BY UnderWay, PoolAssumption DEF DiscInv, Types, OtherPeer

\* The end of a procedure without success ends the discovery.
LEMMA FailsStep ==
  ASSUME DiscInv, proc # NoProc, Complete(peer, FALSE), UNCHANGED <<db, free, started>>,
         link' \in {"up", "broken"}
  PROVE  DiscInv'
  <1>1. proc.op # "none"
    BY DEF DiscInv, ControlInv
  <1>2. OtherPeer(peer') /\ DiscCb(peer, FALSE)
    BY <1>1, Reset DEF Complete
  <1>3. QED
    BY <1>1, <1>2, GaveUp

\* An error or a timeout.
LEMMA ProcFailsStep ==
  ASSUME DiscInv, ProcFails
  PROVE  DiscInv'
  <1>1. link' \in {"up", "broken"}
    BY DEF ProcFails
  <1>2. proc # NoProc /\ Complete(peer, FALSE) /\ UNCHANGED <<db, free, started>>
    BY DEF ProcFails
  <1>3. QED
    BY <1>1, <1>2, FailsStep

\* The connection breaks, with a procedure under way or without.
LEMMA LinkBreaksStep ==
  ASSUME DiscInv, LinkBreaks
  PROVE  DiscInv'
  <1>1. CASE proc # NoProc
    <2>1. Complete(peer, FALSE) /\ UNCHANGED <<db, free, started>> /\ link' \in {"up", "broken"}
      BY <1>1 DEF LinkBreaks
    <2>2. QED
      BY <1>1, <2>1, FailsStep
  <1>2. CASE proc = NoProc
    <2>1. /\ link = "up" /\ link' = "broken"
          /\ UNCHANGED <<peer, proc, answers, written, terminating, db, free, started>>
      BY <1>2 DEF LinkBreaks
    <2>2. proc.op = "none"
      BY <1>2 DEF NoProc
    <2>3. Types'
      BY <2>1 DEF DiscInv, Types
    <2>4. ControlInv'
      BY <2>1, <2>2 DEF DiscInv, ControlInv
    <2>5. TableInv' /\ FoundInv' /\ SubscribesToSpeedometer' /\ PoolInv'
      BY <2>1 DEF DiscInv, TableInv, FoundInv, SubscribesToSpeedometer, PoolInv, PoolsAccounted
    <2>6. SvcsInv' /\ ChrsInv' /\ DscsInv'
      BY <2>1, <2>2 DEF SvcsInv, ChrsInv, DscsInv
    <2>7. QED
      BY <2>3, <2>4, <2>5, <2>6 DEF DiscInv
  <1>3. QED
    BY <1>1, <1>2

\* A mark that is still set: the discovery goes on.
LEMMA NotEnded ==
  ASSUME DiscInv, proc.op # "none"
  PROVE  ~Ended
  BY UnderWay DEF Ended

\* All services are known: on to their characteristics.
LEMMA SvcsDoneStep ==
  ASSUME DiscInv, SvcsDone
  PROVE  DiscInv'
  <1>1. /\ proc.op = "svcs" /\ proc.op # "none" /\ proc.rest = {}
        /\ UNCHANGED <<link, db, free, started>>
    BY DEF SvcsDone, Done, Callback
  <1>2. DiscChrs(peer)
    BY <1>1, NotEnded DEF SvcsDone
  <1>3. /\ Len(peer.svcs) \in Nat /\ Len(db) \in Nat /\ Len(peer.svcs) <= Len(db)
    BY PeerLists
  <1>4. /\ peer.disc_prev_chr_val = 1
        /\ After(db, Len(peer.svcs)) = {}
        /\ \A i \in 1 .. Len(peer.svcs) : peer.svcs[i].chrs = <<>>
    BY <1>1 DEF DiscInv, SvcsInv
  <1>5. Len(peer.svcs) = Len(db)
    BY <1>3, <1>4, NoneLeft
  <1>6. ASSUME NEW i \in 1 .. Len(db), NEW j \in 1 .. Len(peer.svcs[i].chrs) PROVE FALSE
    <2>1. Len(peer.svcs[i].chrs) = 0
      BY <1>4, <1>5
    <2>2. QED
      BY <2>1
  <1>7. ChrsReady
    BY <1>4, <1>5, <1>6 DEF ChrsReady
  <1>8. QED
    BY <1>1, <1>2, <1>7, ChrsStep

\* All characteristics of a service are known: on to the next service.
LEMMA ChrsDoneStep ==
  ASSUME DiscInv, ChrsDone
  PROVE  DiscInv'
  <1>1. /\ proc.op = "chrs" /\ proc.op # "none" /\ proc.rest = {}
        /\ UNCHANGED <<link, db, free, started>>
    BY DEF ChrsDone, Done, Callback
  <1>2. DiscChrs(peer)
    BY <1>1, NotEnded DEF ChrsDone
  <1>3. /\ peer.disc_prev_chr_val = 1
        /\ Len(peer.svcs) = Len(db)
        /\ \A i \in 1 .. Len(db) : \A j \in 1 .. Len(peer.svcs[i].chrs) :
             peer.svcs[i].chrs[j].dscs = <<>>
        /\ \E c \in 1 .. Len(db) : ChrsOf(c)
    BY <1>1 DEF DiscInv, ChrsInv
  <1>4. PICK c \in 1 .. Len(db) : ChrsOf(c)
    BY <1>3
  <1>5. /\ After(db[c].chrs, Len(peer.svcs[c].chrs)) = {}
        /\ \A i \in 1 .. Len(db) : i # c => peer.svcs[i].chrs = <<>> \/ HasChrs(i)
    BY <1>1, <1>4 DEF ChrsOf
  <1>6. HasChrs(c)
    <2>1. Len(peer.svcs[c].chrs) \in Nat /\ Len(db[c].chrs) \in Nat
      BY <1>3, PeerLists, ListTypes
    <2>2. Len(peer.svcs[c].chrs) <= Len(db[c].chrs)
      BY <1>3, PeerLists DEF SvcPart
    <2>3. QED
      BY <1>5, <2>1, <2>2, NoneLeft DEF HasChrs
  <1>7. ChrsReady
    BY <1>3, <1>5, <1>6 DEF ChrsReady
  <1>8. QED
    BY <1>1, <1>2, <1>7, ChrsStep

\* All descriptors of a characteristic are known: on to the next.
LEMMA DscsDoneStep ==
  ASSUME DiscInv, DscsDone
  PROVE  DiscInv'
  <1>1. /\ proc.op = "dscs" /\ proc.op # "none" /\ proc.rest = {}
        /\ UNCHANGED <<link, db, free, started>>
    BY DEF DscsDone, Done, Callback
  <1>2. DiscDscs(peer)
    BY <1>1, NotEnded DEF DscsDone
  <1>3. /\ peer.disc_prev_chr_val = proc.chr
        /\ Len(peer.svcs) = Len(db)
        /\ \A i \in 1 .. Len(db) : HasChrs(i)
        /\ \E c \in 1 .. Len(db) : \E d \in 1 .. Len(db[c].chrs) : DscsOf(c, d)
    BY <1>1 DEF DiscInv, DscsInv
  <1>4. PICK c \in 1 .. Len(db) : \E d \in 1 .. Len(db[c].chrs) : DscsOf(c, d)
    BY <1>3
  <1>5. PICK d \in 1 .. Len(db[c].chrs) : DscsOf(c, d)
    BY <1>4
  <1>6. HasDscs(c, d)
    <2>1. c \in 1 .. Len(peer.svcs) /\ d \in 1 .. Len(peer.svcs[c].chrs)
      BY <1>3 DEF HasChrs
    <2>2. Len(peer.svcs[c].chrs[d].dscs) \in Nat /\ Len(db[c].chrs[d].dscs) \in Nat
      BY <2>1, PeerLists, ListTypes
    <2>3. Len(peer.svcs[c].chrs[d].dscs) <= Len(db[c].chrs[d].dscs)
      BY <2>1, KnownChr DEF ChrPart
    <2>4. After(db[c].chrs[d].dscs, Len(peer.svcs[c].chrs[d].dscs)) = {}
      BY <1>1, <1>5 DEF DscsOf
    <2>5. QED
      BY <2>2, <2>3, <2>4, NoneLeft DEF HasDscs
  <1>7. ASSUME NEW i \in 1 .. Len(db), NEW j \in 1 .. Len(db[i].chrs)
        PROVE  \/ HasDscs(i, j)
               \/ /\ peer.svcs[i].chrs[j].dscs = <<>>
                  /\ peer.disc_prev_chr_val <= db[i].chrs[j].def
    <2>1. CASE <<i, j>> = <<c, d>>
      BY <1>6, <2>1
    <2>2. CASE <<i, j>> # <<c, d>>
      <3>1. \/ HasDscs(i, j)
            \/ peer.svcs[i].chrs[j].dscs = <<>> /\ proc.chr < db[i].chrs[j].def
        BY <1>5, <2>2 DEF DscsOf
      <3>2. db[i].chrs[j].def \in Nat /\ proc.chr \in Nat
        <4>1. db \in Databases
          BY <1>1, UnderWay
        <4>2. proc.chr \in 0 .. MaxHandle
          BY DEF DiscInv, Types
        <4>3. MaxHandle \in Nat
          BY PoolAssumption
        <4>4. db[i].chrs[j].def \in Nat
          BY <4>1, ChrOrder
        <4>5. QED
          BY <4>2, <4>3, <4>4
      <3>3. proc.chr < db[i].chrs[j].def => proc.chr <= db[i].chrs[j].def
        BY <3>2
      <3>4. QED
        BY <1>3, <3>1, <3>3, Zenon
    <2>3. QED
      BY <2>1, <2>2
  <1>8. DscsReady
    BY <1>3, <1>7 DEF DscsReady
  <1>9. QED
    BY <1>1, <1>2, <1>8, DscsStep

\* Without services nothing is taken.
LEMMA NoBlocks ==
  /\ ChrPlaces(<<>>) = {} /\ DscPlaces(<<>>) = {}
  /\ Blocks(<<>>) = [svc |-> 0, chr |-> 0, dsc |-> 0]
  <1>1. <<>> \in Seq(Service) /\ Len(<<>>) = 0
    BY EmptySeq
  <1>2. 1 .. Len(<<>>) = {}
    BY <1>1
  <1>3. ASSUME NEW x \in ChrPlaces(<<>>) PROVE FALSE
    <2>1. \E i \in 1 .. Len(<<>>) : \E j \in 1 .. Len(<<>>[i].chrs) : x = <<i, j>>
      BY <1>1, ChrPlaceOf
    <2>2. QED
      BY <1>2, <2>1
  <1>4. ASSUME NEW x \in DscPlaces(<<>>) PROVE FALSE
    <2>1. \E i \in 1 .. Len(<<>>) : \E j \in 1 .. Len(<<>>[i].chrs) :
            \E k \in 1 .. Len(<<>>[i].chrs[j].dscs) : x = <<<<i, j>>, k>>
      BY <1>1, DscPlaceOf, ZenonT(60)
    <2>2. QED
      BY <1>2, <2>1
  <1>5. ChrPlaces(<<>>) = {} /\ DscPlaces(<<>>) = {}
    BY <1>3, <1>4
  <1>6. QED
    BY <1>1, <1>5, FS_EmptySet DEF Blocks

\* The account of the pools: a peer p, and what is free.
Account(p, f) ==
  LET b == IF p = NoPeer THEN Blocks(<<>>) ELSE Blocks(p.svcs)
  IN  /\ f.peer + (IF p = NoPeer THEN 0 ELSE 1) = MaxPeers
      /\ f.svc + b.svc = MaxSvcs
      /\ f.chr + b.chr = MaxChrs
      /\ f.dsc + b.dsc = MaxDscs
      /\ IsFiniteSet(ChrPlaces(p.svcs)) /\ IsFiniteSet(DscPlaces(p.svcs))

\* The account of the peer there is.
LEMMA AccountIs == PoolInv = Account(peer, free)
  BY DEF PoolInv, PoolsAccounted, Account

\* The pools of a client without connection, or before anything is known.
LEMMA PoolsEmpty ==
  ASSUME NEW p, p.svcs = <<>>, NEW f \in [peer : Nat, svc : Nat, chr : Nat, dsc : Nat]
  PROVE  Account(p, f) <=> /\ f.peer + (IF p = NoPeer THEN 0 ELSE 1) = MaxPeers
                           /\ f.svc = MaxSvcs /\ f.chr = MaxChrs /\ f.dsc = MaxDscs
  <1>1. /\ Blocks(<<>>).svc = 0 /\ Blocks(<<>>).chr = 0 /\ Blocks(<<>>).dsc = 0
        /\ IsFiniteSet(ChrPlaces(<<>>)) /\ IsFiniteSet(DscPlaces(<<>>))
    <2>1. IsFiniteSet(ChrPlaces(<<>>)) /\ IsFiniteSet(DscPlaces(<<>>))
      BY NoBlocks, FS_EmptySet
    <2>2. Blocks(<<>>) = [svc |-> 0, chr |-> 0, dsc |-> 0]
      BY NoBlocks
    <2>3. QED
      BY <2>1, <2>2
  <1>2. Blocks(p.svcs) = Blocks(<<>>)
    OBVIOUS
  <1> DEFINE b == IF p = NoPeer THEN Blocks(<<>>) ELSE Blocks(p.svcs)
  <1>3. b.svc = 0 /\ b.chr = 0 /\ b.dsc = 0
    BY <1>1, <1>2
  <1>4. Account(p, f) <=>
          /\ f.peer + (IF p = NoPeer THEN 0 ELSE 1) = MaxPeers
          /\ f.svc + b.svc = MaxSvcs
          /\ f.chr + b.chr = MaxChrs
          /\ f.dsc + b.dsc = MaxDscs
    BY <1>1 DEF Account
  <1> HIDE DEF b
  <1>5. QED
    BY <1>3, <1>4

\* A connection: the peer is added and discovery starts, or one of them fails.
LEMMA ConnectStep ==
  ASSUME DiscInv, NEW d \in Databases, ConnectEvent(d)
  PROVE  DiscInv'
  <1>1. /\ link = "down" /\ link' = "up" /\ db' = d
        /\ UNCHANGED <<answers, written, terminating>>
    BY DEF ConnectEvent
  <1>2. /\ peer = NoPeer /\ ~started /\ answers = <<>> /\ proc.op = "none" /\ proc = NoProc
        /\ written = 0 /\ ~terminating
    BY <1>1 DEF DiscInv, ControlInv
  <1>3. d # Nothing
    BY TableAssumption DEF Nothing
  <1>4. NoPeer.svcs = <<>>
    BY DEF NoPeer
  <1>5. d \in Seq(Service) /\ Len(d) \in Nat
    BY TableAssumption
  <1>6. FoundInv' /\ SubscribesToSpeedometer'
    BY <1>1, <1>2 DEF FoundInv, SubscribesToSpeedometer
  <1>7. CASE free.peer = 0
    <2>1. UNCHANGED <<peer, free, proc, started>>
      BY <1>7 DEF ConnectEvent
    <2>2. Types'
      BY <1>1, <2>1 DEF DiscInv, Types
    <2>3. ControlInv'
      BY <1>1, <1>2, <1>3, <2>1 DEF DiscInv, ControlInv
    <2>4. TableInv'
      BY <1>1, <1>2, <1>4, <1>5, <2>1 DEF TableInv
    <2>5. PoolInv'
      BY <2>1 DEF DiscInv, PoolInv, PoolsAccounted
    <2>6. SvcsInv' /\ ChrsInv' /\ DscsInv'
      BY <1>2, <2>1 DEF SvcsInv, ChrsInv, DscsInv
    <2>7. QED
      BY <1>6, <2>2, <2>3, <2>4, <2>5, <2>6 DEF DiscInv
  <1>8. CASE free.peer # 0
    <2>1. /\ free' = [free EXCEPT !.peer = @ - 1]
          /\ peer' = [svcs |-> <<>>, disc_prev_chr_val |-> 1, cur_svc |-> 0]
          /\ started' \in BOOLEAN
          /\ proc' = IF started' THEN DiscAllSvcs(d) ELSE NoProc
      BY <1>2, <1>8 DEF ConnectEvent
    <2>2. free \in [peer : Nat, svc : Nat, chr : Nat, dsc : Nat]
      BY DEF DiscInv, Types
    <2>3. /\ free' \in [peer : Nat, svc : Nat, chr : Nat, dsc : Nat]
          /\ free'.peer = free.peer - 1 /\ free'.svc = free.svc /\ free'.chr = free.chr
          /\ free'.dsc = free.dsc
      BY <1>8, <2>1, <2>2
    <2>4. /\ peer'.svcs = <<>> /\ peer'.cur_svc = 0 /\ peer'.disc_prev_chr_val = 1
          /\ peer' # NoPeer
      BY <2>1 DEF NoPeer
    <2>5. peer' \in [svcs : Seq(Service), disc_prev_chr_val : 0 .. MaxHandle,
                     cur_svc : -1 .. MaxHandle]
      <3>1. <<>> \in Seq(Service)
        BY EmptySeq
      <3>2. QED
        BY <2>1, <3>1, PoolAssumption
    <2>6. /\ proc'.op = (IF started' THEN "svcs" ELSE "none")
          /\ ~started' => proc' = NoProc
          /\ started' => proc'.rest = After(d, 0)
      <3>1. ToSet(d) = After(d, 0)
        BY <1>5 DEF ToSet, After
      <3>2. QED
        BY <2>1, <3>1 DEF DiscAllSvcs, NoProc
    <2>7. proc' \in [op : {"none", "svcs", "chrs", "dscs"}, heard : BOOLEAN,
                     rest : SUBSET Attribute, chr : 0 .. MaxHandle]
      <3>1. ToSet(d) \in SUBSET Attribute
        <4>1. \A x \in ToSet(d) : x \in Service
          BY <1>5 DEF ToSet
        <4>2. QED
          BY <4>1 DEF Attribute
      <3>2. 0 \in 0 .. MaxHandle
        BY PoolAssumption
      <3>3. CASE started'
        BY <2>1, <3>1, <3>2, <3>3 DEF DiscAllSvcs
      <3>4. CASE ~started'
        BY <2>1, <3>2, <3>4 DEF NoProc
      <3>5. QED
        BY <3>3, <3>4
    <2>8. Types'
      BY <1>1, <2>1, <2>3, <2>5, <2>7 DEF DiscInv, Types
    <2>9. ControlInv'
      BY <1>1, <1>2, <1>3, <2>1, <2>4, <2>6 DEF ControlInv
    <2>10. TableInv'
      BY <1>1, <1>5, <2>4 DEF TableInv
    <2>11. PoolInv'
      <3>1. Account(peer, free)
        BY AccountIs DEF DiscInv
      <3>2. /\ free.peer + 0 = MaxPeers
            /\ free.svc = MaxSvcs /\ free.chr = MaxChrs /\ free.dsc = MaxDscs
        BY <1>2, <1>4, <2>2, <3>1, PoolsEmpty
      <3>3. /\ free'.peer + 1 = MaxPeers
            /\ free'.svc = MaxSvcs /\ free'.chr = MaxChrs /\ free'.dsc = MaxDscs
        BY <2>2, <2>3, <3>2
      <3>4. Account(peer', free')
        BY <2>3, <2>4, <3>3, PoolsEmpty
      <3>5. QED
        BY <3>4 DEF PoolInv, PoolsAccounted, Account
    <2>12. SvcsInv'
      BY <1>1, <2>4, <2>6 DEF SvcsInv
    <2>13. ChrsInv' /\ DscsInv'
      BY <2>6 DEF ChrsInv, DscsInv
    <2>14. QED
      BY <1>6, <2>8, <2>9, <2>10, <2>11, <2>12, <2>13 DEF DiscInv
  <1>9. QED
    BY <1>7, <1>8

\* A disconnection: peer_delete puts back every block.
LEMMA DisconnectStep ==
  ASSUME DiscInv, DisconnectEvent
  PROVE  DiscInv'
  <1>1. /\ link = "broken" /\ link' = "down" /\ db' = Nothing
        /\ started' = FALSE /\ answers' = <<>> /\ written' = 0 /\ terminating' = FALSE
        /\ proc' = proc
    BY DEF DisconnectEvent
  <1>2. proc.op = "none" /\ proc = NoProc /\ proc'.op = "none"
    BY <1>1 DEF DiscInv, ControlInv
  <1>3. free \in [peer : Nat, svc : Nat, chr : Nat, dsc : Nat]
    BY DEF DiscInv, Types
  <1>4. NoPeer.svcs = <<>> /\ NoPeer.cur_svc = -1 /\ Len(NoPeer.svcs) = 0 /\ Len(Nothing) = 0
    BY DEF NoPeer, Nothing
  <1>5. peer' = NoPeer
    BY DEF DisconnectEvent
  <1>6. /\ free' \in [peer : Nat, svc : Nat, chr : Nat, dsc : Nat]
        /\ free'.peer + 0 = MaxPeers
        /\ free'.svc = MaxSvcs /\ free'.chr = MaxChrs /\ free'.dsc = MaxDscs
    <2>1. CASE peer = NoPeer
      <3>1. free' = free
        BY <2>1 DEF DisconnectEvent
      <3>2. Account(peer, free)
        BY AccountIs DEF DiscInv
      <3>3. /\ free.peer + 0 = MaxPeers
            /\ free.svc = MaxSvcs /\ free.chr = MaxChrs /\ free.dsc = MaxDscs
        BY <1>3, <1>4, <2>1, <3>2, PoolsEmpty
      <3>4. QED
        BY <1>3, <3>1, <3>3
    <2>2. CASE peer # NoPeer
      <3> DEFINE b == Blocks(peer.svcs)
      <3>1. /\ free.peer + 1 = MaxPeers /\ free.svc + b.svc = MaxSvcs
            /\ free.chr + b.chr = MaxChrs /\ free.dsc + b.dsc = MaxDscs
        BY <2>2 DEF DiscInv, PoolInv, PoolsAccounted
      <3>2. b.svc \in Nat /\ b.chr \in Nat /\ b.dsc \in Nat
        <4>1. IsFiniteSet(ChrPlaces(peer.svcs)) /\ IsFiniteSet(DscPlaces(peer.svcs))
          BY DEF DiscInv, PoolInv
        <4>2. /\ Cardinality(ChrPlaces(peer.svcs)) \in Nat
              /\ Cardinality(DscPlaces(peer.svcs)) \in Nat
          BY <4>1, FS_CardinalityType
        <4>3. QED
          BY <4>2, PeerLists DEF Blocks
      <3>3. free' = [[free EXCEPT !.svc = @ + b.svc, !.chr = @ + b.chr, !.dsc = @ + b.dsc]
                       EXCEPT !.peer = @ + 1]
        BY <2>2 DEF DisconnectEvent, Returned
      <3> HIDE DEF b
      <3>4. /\ free'.peer = free.peer + 1 /\ free'.svc = free.svc + b.svc
            /\ free'.chr = free.chr + b.chr /\ free'.dsc = free.dsc + b.dsc
            /\ free' \in [peer : Nat, svc : Nat, chr : Nat, dsc : Nat]
        <4> DEFINE g == [free EXCEPT !.svc = @ + b.svc, !.chr = @ + b.chr, !.dsc = @ + b.dsc]
        <4>1. /\ g.peer = free.peer /\ g.svc = free.svc + b.svc
              /\ g.chr = free.chr + b.chr /\ g.dsc = free.dsc + b.dsc
              /\ g \in [peer : Nat, svc : Nat, chr : Nat, dsc : Nat]
          <5>1. free.peer \in Nat /\ free.svc \in Nat /\ free.chr \in Nat /\ free.dsc \in Nat
            BY <1>3
          <5>2. free.svc + b.svc \in Nat /\ free.chr + b.chr \in Nat /\ free.dsc + b.dsc \in Nat
            BY <3>2, <5>1
          <5>3. g = [peer |-> free.peer, svc |-> free.svc + b.svc,
                     chr |-> free.chr + b.chr, dsc |-> free.dsc + b.dsc]
            <6> DEFINE g1 == [free EXCEPT !.svc = @ + b.svc]
                       g2 == [g1 EXCEPT !.chr = @ + b.chr]
                       g3 == [g2 EXCEPT !.dsc = @ + b.dsc]
            <6>1. g1 = [peer |-> free.peer, svc |-> free.svc + b.svc,
                        chr |-> free.chr, dsc |-> free.dsc]
              BY <1>3
            <6>2. g = g3
              OBVIOUS
            <6> HIDE DEF g1
            <6>3. g2 = [peer |-> free.peer, svc |-> free.svc + b.svc,
                        chr |-> free.chr + b.chr, dsc |-> free.dsc]
              BY <6>1
            <6> HIDE DEF g2
            <6>4. g3 = [peer |-> free.peer, svc |-> free.svc + b.svc,
                        chr |-> free.chr + b.chr, dsc |-> free.dsc + b.dsc]
              BY <6>3
            <6> HIDE DEF g3, g
            <6>5. QED
              BY <6>2, <6>4
          <5> HIDE DEF g
          <5>4. QED
            BY <5>1, <5>2, <5>3
        <4>2. free' = [g EXCEPT !.peer = @ + 1]
          BY <3>3
        <4> HIDE DEF g
        <4>3. QED
          BY <1>3, <4>1, <4>2
      <3>5. QED
        BY <1>3, <3>1, <3>4
    <2>3. QED
      BY <2>1, <2>2
  <1>7. Types'
    <2>1. peer' \in [svcs : Seq(Service), disc_prev_chr_val : 0 .. MaxHandle,
                     cur_svc : -1 .. MaxHandle]
      <3>1. <<>> \in Seq(Service)
        BY EmptySeq
      <3>2. QED
        BY <1>5, <3>1, PoolAssumption DEF NoPeer
    <2>2. written' \in 0 .. MaxHandle
      BY <1>1, PoolAssumption
    <2>3. QED
      BY <1>1, <1>6, <2>1, <2>2 DEF DiscInv, Types
  <1>8. ControlInv'
    BY <1>1, <1>2, <1>4, <1>5 DEF ControlInv
  <1>9. TableInv'
    BY <1>1, <1>4, <1>5 DEF TableInv
  <1>10. PoolInv'
    <2>1. Account(peer', free')
      BY <1>4, <1>5, <1>6, PoolsEmpty
    <2>2. QED
      BY <2>1 DEF PoolInv, PoolsAccounted, Account
  <1>11. SvcsInv' /\ ChrsInv' /\ DscsInv' /\ FoundInv' /\ SubscribesToSpeedometer'
    BY <1>1, <1>2 DEF SvcsInv, ChrsInv, DscsInv, FoundInv, SubscribesToSpeedometer
  <1>12. QED
    BY <1>7, <1>8, <1>9, <1>10, <1>11 DEF DiscInv

-----------------------------------------------------------------------------
(* An attribute is reported.                                               *)

\* The step that puts an attribute into the lists leaves the rest as it is.
LEMMA Grew ==
  ASSUME DiscInv, proc.op # "none", NEW q \in Seq(Service), peer' = [peer EXCEPT !.svcs = q],
         NEW p, NEW a, Run(p, Reported(a)),
         free' \in [peer : Nat, svc : Nat, chr : Nat, dsc : Nat],
         UNCHANGED <<link, db, started>>,
         TableInv', Account(peer', free'), SvcsInv', ChrsInv', DscsInv'
  PROVE  DiscInv'
  <1>1. /\ link = "up" /\ started /\ answers = <<>> /\ db \in Databases
        /\ peer.cur_svc # -1 /\ peer.disc_prev_chr_val > 0
        /\ written = 0 /\ ~terminating /\ peer # NoPeer
    BY UnderWay
  <1>2. /\ peer' \in [svcs : Seq(Service), disc_prev_chr_val : 0 .. MaxHandle,
                     cur_svc : -1 .. MaxHandle]
        /\ peer'.cur_svc = peer.cur_svc /\ peer'.disc_prev_chr_val = peer.disc_prev_chr_val
    BY DEF DiscInv, Types
  <1>3. peer' # NoPeer
    BY <1>1, <1>2, NotNoPeer
  <1>4. proc' = Reported(a) /\ answers' = answers /\ written' = written /\ terminating' = terminating
    BY DEF Run
  <1>5. /\ proc' \in [op : {"none", "svcs", "chrs", "dscs"}, heard : BOOLEAN,
                     rest : SUBSET Attribute, chr : 0 .. MaxHandle]
        /\ proc'.op = proc.op
    BY <1>4 DEF DiscInv, Types, Reported
  <1>6. Types'
    BY <1>2, <1>4, <1>5 DEF DiscInv, Types
  <1>7. ControlInv'
    BY <1>1, <1>2, <1>3, <1>4, <1>5 DEF DiscInv, ControlInv
  <1>8. FoundInv' /\ SubscribesToSpeedometer'
    BY <1>1, <1>4 DEF FoundInv, SubscribesToSpeedometer
  <1>9. PoolInv'
    BY DEF PoolInv, PoolsAccounted, Account
  <1>10. QED
    BY <1>6, <1>7, <1>8, <1>9 DEF DiscInv

\* The blocks of the lists, and the free ones, are numbers.
LEMMA PoolNumbers ==
  ASSUME DiscInv, peer # NoPeer
  PROVE  LET b == Blocks(peer.svcs)
         IN  /\ free \in [peer : Nat, svc : Nat, chr : Nat, dsc : Nat]
             /\ b.svc \in Nat /\ b.chr \in Nat /\ b.dsc \in Nat
             /\ b.svc = Len(peer.svcs)
             /\ b.chr = Cardinality(ChrPlaces(peer.svcs))
             /\ b.dsc = Cardinality(DscPlaces(peer.svcs))
             /\ IsFiniteSet(ChrPlaces(peer.svcs)) /\ IsFiniteSet(DscPlaces(peer.svcs))
             /\ free.peer + 1 = MaxPeers
             /\ free.svc + b.svc = MaxSvcs
             /\ free.chr + b.chr = MaxChrs
             /\ free.dsc + b.dsc = MaxDscs
  <1>1. IsFiniteSet(ChrPlaces(peer.svcs)) /\ IsFiniteSet(DscPlaces(peer.svcs))
    BY DEF DiscInv, PoolInv
  <1>2. /\ Cardinality(ChrPlaces(peer.svcs)) \in Nat
        /\ Cardinality(DscPlaces(peer.svcs)) \in Nat
    BY <1>1, FS_CardinalityType
  <1>3. LET b == Blocks(peer.svcs)
        IN  /\ b.svc = Len(peer.svcs) /\ b.svc \in Nat
            /\ b.chr = Cardinality(ChrPlaces(peer.svcs))
            /\ b.dsc = Cardinality(DscPlaces(peer.svcs))
    BY PeerLists DEF Blocks
  <1>4. free \in [peer : Nat, svc : Nat, chr : Nat, dsc : Nat]
    BY DEF DiscInv, Types
  <1>5. LET b == Blocks(peer.svcs)
        IN  /\ free.peer + 1 = MaxPeers
            /\ free.svc + b.svc = MaxSvcs
            /\ free.chr + b.chr = MaxChrs
            /\ free.dsc + b.dsc = MaxDscs
    BY DEF DiscInv, PoolInv, PoolsAccounted
  <1>6. QED
    BY <1>1, <1>2, <1>3, <1>4, <1>5

\* A block leaves its pool for the list.
LEMMA SvcTaken ==
  ASSUME DiscInv, peer # NoPeer, free.svc > 0, NEW q \in Seq(Service), NEW e,
         Grown(peer.svcs, e, q), e.chrs = <<>>, NEW p, p # NoPeer, p.svcs = q
  PROVE  LET f == [free EXCEPT !.svc = @ - 1]
         IN  f \in [peer : Nat, svc : Nat, chr : Nat, dsc : Nat] /\ Account(p, f)
  <1> DEFINE b == Blocks(peer.svcs)
             f == [free EXCEPT !.svc = @ - 1]
             c == Blocks(q)
  <1>1. peer.svcs \in Seq(Service)
    BY PeerLists
  <1>2. ChrPlaces(q) = ChrPlaces(peer.svcs) /\ DscPlaces(q) = DscPlaces(peer.svcs)
    BY <1>1, SvcTakesOne
  <1>3. /\ free \in [peer : Nat, svc : Nat, chr : Nat, dsc : Nat]
        /\ b.svc \in Nat /\ b.svc = Len(peer.svcs)
        /\ IsFiniteSet(ChrPlaces(peer.svcs)) /\ IsFiniteSet(DscPlaces(peer.svcs))
        /\ free.peer + 1 = MaxPeers
        /\ free.svc + b.svc = MaxSvcs
        /\ free.chr + b.chr = MaxChrs
        /\ free.dsc + b.dsc = MaxDscs
    BY PoolNumbers
  <1>4. c.svc = Len(peer.svcs) + 1 /\ c.chr = b.chr /\ c.dsc = b.dsc
    BY <1>2 DEF Blocks, Grown
  <1> HIDE DEF b, c
  <1>5. /\ f \in [peer : Nat, svc : Nat, chr : Nat, dsc : Nat]
        /\ f.peer = free.peer /\ f.svc = free.svc - 1 /\ f.chr = free.chr /\ f.dsc = free.dsc
    BY <1>3
  <1> HIDE DEF f
  <1>6. /\ f.peer + 1 = MaxPeers
        /\ f.svc + c.svc = MaxSvcs
        /\ f.chr + c.chr = MaxChrs
        /\ f.dsc + c.dsc = MaxDscs
    <2>1. free.svc \in Nat
      BY <1>3
    <2>2. QED
      BY <1>3, <1>4, <1>5, <2>1
  <1>7. Account(p, f)
    BY <1>2, <1>3, <1>6 DEF Account, c
  <1>8. QED
    BY <1>5, <1>7 DEF f

\* The same of a characteristic.
LEMMA ChrTaken ==
  ASSUME DiscInv, peer # NoPeer, free.chr > 0, NEW q \in Seq(Service),
         NEW i \in 1 .. Len(peer.svcs), NEW e,
         ChrAdded(peer.svcs, i, e, q), e.dscs = <<>>, NEW p, p # NoPeer, p.svcs = q
  PROVE  LET f == [free EXCEPT !.chr = @ - 1]
         IN  f \in [peer : Nat, svc : Nat, chr : Nat, dsc : Nat] /\ Account(p, f)
  <1> DEFINE b == Blocks(peer.svcs)
             f == [free EXCEPT !.chr = @ - 1]
             c == Blocks(q)
             new == <<i, Len(peer.svcs[i].chrs) + 1>>
  <1>1. peer.svcs \in Seq(Service)
    BY PeerLists
  <1>2. /\ ChrPlaces(q) = ChrPlaces(peer.svcs) \cup {new} /\ new \notin ChrPlaces(peer.svcs)
        /\ DscPlaces(q) = DscPlaces(peer.svcs)
    BY <1>1, ChrTakesOne
  <1>3. /\ free \in [peer : Nat, svc : Nat, chr : Nat, dsc : Nat]
        /\ b.chr \in Nat /\ b.svc = Len(peer.svcs)
        /\ b.chr = Cardinality(ChrPlaces(peer.svcs))
        /\ IsFiniteSet(ChrPlaces(peer.svcs)) /\ IsFiniteSet(DscPlaces(peer.svcs))
        /\ free.peer + 1 = MaxPeers
        /\ free.svc + b.svc = MaxSvcs
        /\ free.chr + b.chr = MaxChrs
        /\ free.dsc + b.dsc = MaxDscs
    BY PoolNumbers
  <1> HIDE DEF new
  <1>4. IsFiniteSet(ChrPlaces(q)) /\ Cardinality(ChrPlaces(q)) = Cardinality(ChrPlaces(peer.svcs)) + 1
    BY <1>2, <1>3, FS_AddElement
  <1>5. c.svc = b.svc /\ c.chr = b.chr + 1 /\ c.dsc = b.dsc
    BY <1>2, <1>3, <1>4 DEF Blocks, ChrAdded
  <1> HIDE DEF b, c
  <1>6. /\ f \in [peer : Nat, svc : Nat, chr : Nat, dsc : Nat]
        /\ f.peer = free.peer /\ f.svc = free.svc /\ f.chr = free.chr - 1 /\ f.dsc = free.dsc
    <2>1. free.chr - 1 \in Nat
      BY <1>3
    <2>2. QED
      BY <1>3, <2>1
  <1> HIDE DEF f
  <1>7. /\ f.peer + 1 = MaxPeers
        /\ f.svc + c.svc = MaxSvcs
        /\ f.chr + c.chr = MaxChrs
        /\ f.dsc + c.dsc = MaxDscs
    <2>1. free.chr \in Nat
      BY <1>3
    <2>2. QED
      BY <1>3, <1>5, <1>6, <2>1
  <1>8. Account(p, f)
    BY <1>2, <1>3, <1>4, <1>7 DEF Account, c
  <1>9. QED
    BY <1>6, <1>8 DEF f

\* The same of a descriptor.
LEMMA DscTaken ==
  ASSUME DiscInv, peer # NoPeer, free.dsc > 0, NEW q \in Seq(Service),
         NEW i \in 1 .. Len(peer.svcs), NEW j \in 1 .. Len(peer.svcs[i].chrs), NEW e,
         DscAdded(peer.svcs, i, j, e, q), NEW p, p # NoPeer, p.svcs = q
  PROVE  LET f == [free EXCEPT !.dsc = @ - 1]
         IN  f \in [peer : Nat, svc : Nat, chr : Nat, dsc : Nat] /\ Account(p, f)
  <1> DEFINE b == Blocks(peer.svcs)
             f == [free EXCEPT !.dsc = @ - 1]
             c == Blocks(q)
             new == NewPlace(peer.svcs, i, j)
  <1>1. peer.svcs \in Seq(Service)
    BY PeerLists
  <1>2. /\ ChrPlaces(q) = ChrPlaces(peer.svcs)
        /\ DscPlaces(q) = DscPlaces(peer.svcs) \cup {new} /\ new \notin DscPlaces(peer.svcs)
    BY <1>1, DscTakesOne
  <1>3. /\ free \in [peer : Nat, svc : Nat, chr : Nat, dsc : Nat]
        /\ b.dsc \in Nat /\ b.svc = Len(peer.svcs)
        /\ b.dsc = Cardinality(DscPlaces(peer.svcs))
        /\ IsFiniteSet(ChrPlaces(peer.svcs)) /\ IsFiniteSet(DscPlaces(peer.svcs))
        /\ free.peer + 1 = MaxPeers
        /\ free.svc + b.svc = MaxSvcs
        /\ free.chr + b.chr = MaxChrs
        /\ free.dsc + b.dsc = MaxDscs
    BY PoolNumbers
  <1> HIDE DEF new
  <1>4. IsFiniteSet(DscPlaces(q)) /\ Cardinality(DscPlaces(q)) = Cardinality(DscPlaces(peer.svcs)) + 1
    BY <1>2, <1>3, FS_AddElement, SMTT(30)
  <1>5. c.svc = b.svc /\ c.chr = b.chr /\ c.dsc = b.dsc + 1
    BY <1>2, <1>3, <1>4 DEF Blocks, DscAdded
  <1> HIDE DEF b, c
  <1>6. /\ f \in [peer : Nat, svc : Nat, chr : Nat, dsc : Nat]
        /\ f.peer = free.peer /\ f.svc = free.svc /\ f.chr = free.chr /\ f.dsc = free.dsc - 1
    <2>1. free.dsc - 1 \in Nat
      BY <1>3, SMTT(30)
    <2>2. QED
      BY <1>3, <2>1
  <1> HIDE DEF f
  <1>7. /\ f.peer + 1 = MaxPeers
        /\ f.svc + c.svc = MaxSvcs
        /\ f.chr + c.chr = MaxChrs
        /\ f.dsc + c.dsc = MaxDscs
    <2>1. free.dsc \in Nat
      BY <1>3
    <2>2. QED
      BY <1>3, <1>5, <1>6, <2>1
  <1>8. Account(p, f)
    BY <1>2, <1>3, <1>4, <1>7 DEF Account, c
  <1>9. QED
    BY <1>6, <1>8 DEF f

\* Services are reported in the order of the table.
LEMMA NextSvc ==
  ASSUME NEW d \in Databases, NEW n \in 0 .. Len(d), NEW a \in After(d, n),
         \A x \in After(d, n) : a.start <= x.start
  PROVE  n < Len(d) /\ a = d[n + 1] /\ After(d, n) \ {a} = After(d, n + 1)
  <1>1. PICK i \in n + 1 .. Len(d) : a = d[i]
    BY DEF After
  <1>2. Len(d) \in Nat
    BY TableAssumption
  <1>3. i \in 1 .. Len(d) /\ n + 1 \in 1 .. Len(d) /\ n < Len(d) /\ n + 1 <= i
    BY <1>1, <1>2
  <1>4. a.start <= d[n + 1].start
    BY <1>2, <1>3, AfterFirst
  <1>5. i = n + 1
    <2>1. /\ d[n + 1].start \in Nat /\ d[n + 1].end \in Nat /\ d[n + 1].start <= d[n + 1].end
          /\ n + 1 < i => d[n + 1].end < d[i].start
      BY <1>3, SvcOrder
    <2>2. d[i].start \in Nat /\ d[i].start <= d[n + 1].start
      BY <1>1, <1>3, <1>4, SvcOrder
    <2>3. ~(n + 1 < i)
      BY <2>1, <2>2
    <2>4. QED
      BY <1>3, <2>3
  <1>6. \A m, k \in 1 .. Len(d) : d[m] = d[k] => m = k
    BY SvcOnce
  <1>7. After(d, n) \ {d[n + 1]} = After(d, n + 1)
    BY <1>2, <1>3, <1>6, AfterFirst
  <1>8. QED
    BY <1>1, <1>3, <1>5, <1>7

\* A step with an attribute that is not known yet.
LEMMA NewOrFull ==
  ASSUME NEW a, NEW pool, NEW p, Added(a, pool, FALSE, p)
  PROVE  \/ free[pool] > 0 /\ Run(p, Reported(a)) /\ free' = [free EXCEPT ![pool] = @ - 1]
         \/ Complete(peer, FALSE) /\ UNCHANGED free
  BY DEF Added

\* A report of a service.
LEMMA SvcDiscedStep ==
  ASSUME DiscInv, SvcDisced
  PROVE  DiscInv'
  <1>1. /\ link = "up" /\ proc.op = "svcs" /\ proc.op # "none" /\ UNCHANGED <<link, db, started>>
    BY DEF SvcDisced, Callback
  <1>2. db \in Databases /\ peer # NoPeer /\ peer.cur_svc # -1
    BY <1>1, UnderWay
  <1>3. /\ peer.svcs \in Seq(Service) /\ Len(peer.svcs) \in Nat
        /\ db \in Seq(Service) /\ Len(db) \in Nat /\ Len(peer.svcs) <= Len(db)
        /\ \A i \in 1 .. Len(peer.svcs) : SvcPart(peer.svcs[i], db[i])
    BY PeerLists
  <1>4. /\ peer.disc_prev_chr_val = 1
        /\ proc.rest = After(db, Len(peer.svcs))
        /\ \A i \in 1 .. Len(peer.svcs) : peer.svcs[i].chrs = <<>>
    BY <1>1 DEF DiscInv, SvcsInv
  <1> DEFINE m == Len(peer.svcs)
             Svc(g) == [g EXCEPT !.chrs = <<>>]
             At(g) == Prev(Starts(peer.svcs), Svc(g).start)
             New(g) == [peer EXCEPT !.svcs = Linked(@, At(g), Svc(g))]
  <1>5. PICK g \in proc.rest :
          /\ \A a \in proc.rest : g.start <= a.start
          /\ Added(g, "svc", Present(Starts(peer.svcs), Svc(g).start), New(g))
    BY DEF SvcDisced
  <1>6. m < Len(db) /\ g = db[m + 1] /\ proc.rest \ {g} = After(db, m + 1)
    <2>1. m \in 0 .. Len(db)
      BY <1>3
    <2>2. g \in After(db, m) /\ \A x \in After(db, m) : g.start <= x.start
      BY <1>4, <1>5
    <2>3. QED
      BY <1>2, <1>4, <2>1, <2>2, NextSvc
  <1>7. m + 1 \in 1 .. Len(db) /\ g \in Service
    BY <1>3, <1>6
  <1>8. /\ Svc(g) \in Service /\ Svc(g).start = g.start /\ Svc(g).end = g.end
        /\ Svc(g).uuid = g.uuid /\ Svc(g).chrs = <<>> /\ g.start \in Nat
    <2>1. <<>> \in Seq(Characteristic)
      BY EmptySeq
    <2>2. g.start \in Nat
      BY <1>7 DEF Service, Handle
    <2>3. QED
      BY <1>7, <2>1, <2>2 DEF Service
  <1>9. At(g) = m /\ ~Present(Starts(peer.svcs), Svc(g).start)
    <2> DEFINE st == Starts(peer.svcs)
    <2>1. /\ st \in Seq(Nat) /\ Len(st) = m
          /\ \A n \in 1 .. m : st[n] = peer.svcs[n].start
      <3>1. \A n \in 1 .. m : peer.svcs[n].start \in Nat
        <4>1. \A n \in 1 .. m : peer.svcs[n] \in Service
          BY <1>3
        <4>2. QED
          BY <4>1 DEF Service, Handle
      <3>2. DOMAIN peer.svcs = 1 .. m
        BY <1>3
      <3>3. QED
        BY <1>3, <3>1, <3>2 DEF Starts
    <2>2. ASSUME NEW n \in 1 .. m PROVE st[n] < g.start
      <3>1. n \in 1 .. Len(db) /\ n < m + 1
        BY <1>3
      <3>2. /\ db[n].start <= db[n].end /\ db[n].start \in Nat /\ db[n].end \in Nat
            /\ db[n].end < db[m + 1].start
        BY <1>2, <1>7, <3>1, SvcOrder
      <3>3. peer.svcs[n].start = db[n].start
        BY <1>3 DEF SvcPart
      <3>4. st[n] = db[n].start
        BY <2>1, <3>3
      <3>5. db[n].start < g.start
        BY <1>6, <1>8, <3>2
      <3>6. QED
        BY <3>4, <3>5
    <2> HIDE DEF st
    <2>3. Prev(st, g.start) = Len(st) /\ ~Present(st, g.start)
      BY <1>8, <2>1, <2>2, PrevLast
    <2>4. QED
      BY <1>8, <2>1, <2>3 DEF st
  <1> DEFINE q == Linked(peer.svcs, m, Svc(g))
  <1>10. New(g) = [peer EXCEPT !.svcs = q]
    BY <1>9
  <1> HIDE DEF New, At, Svc
  <1>11. q \in Seq(Service) /\ Grown(peer.svcs, Svc(g), q)
    BY <1>3, <1>8, LinkedLast
  <1> HIDE DEF q
  <1>12. Added(g, "svc", FALSE, New(g))
    <2>1. Present(Starts(peer.svcs), Svc(g).start) = FALSE
      BY <1>9 DEF Present
    <2>2. QED
      BY <1>5, <2>1
  <1>13. CASE Complete(peer, FALSE) /\ UNCHANGED free
    <2>1. proc # NoProc /\ link' \in {"up", "broken"}
      BY <1>1 DEF NoProc
    <2>2. QED
      BY <1>1, <1>13, <2>1, FailsStep
  <1>14. CASE free.svc > 0 /\ Run(New(g), Reported(g)) /\ free' = [free EXCEPT !.svc = @ - 1]
    <2>1. peer' = [peer EXCEPT !.svcs = q] /\ proc' = Reported(g)
      BY <1>10, <1>14 DEF Run
    <2>2. /\ peer'.svcs = q /\ peer'.cur_svc = peer.cur_svc
          /\ peer'.disc_prev_chr_val = peer.disc_prev_chr_val
      BY <2>1 DEF DiscInv, Types
    <2>3. peer' # NoPeer
      BY <1>2, <2>2, NotNoPeer
    <2>4. proc'.op = "svcs" /\ proc'.rest = After(db, m + 1)
      BY <1>1, <1>6, <2>1 DEF Reported, DiscInv, Types
    <2>5. free' \in [peer : Nat, svc : Nat, chr : Nat, dsc : Nat] /\ Account(peer', free')
      BY <1>2, <1>8, <1>11, <1>14, <2>2, <2>3, SvcTaken
    <2>6. Len(q) = m + 1 /\ q[m + 1] = Svc(g) /\ \A i \in 1 .. m : q[i] = peer.svcs[i]
      BY <1>11 DEF Grown
    <2>7. \A i \in 1 .. Len(q) : i \in 1 .. m \/ i = m + 1
      BY <1>3, <2>6
    <2>8. TableInv'
      <3>1. SvcPart(q[m + 1], db[m + 1])
        <4>1. Len(db[m + 1].chrs) \in Nat
          BY <1>3, <1>7, ListTypes
        <4>2. Len(Svc(g).chrs) = 0
          BY <1>8
        <4>3. QED
          BY <1>6, <1>8, <2>6, <4>1, <4>2 DEF SvcPart
      <3>2. \A i \in 1 .. Len(q) : SvcPart(q[i], db[i])
        BY <1>3, <2>6, <2>7, <3>1
      <3>3. Len(q) <= Len(db)
        BY <1>3, <1>6, <2>6
      <3>4. QED
        BY <1>1, <2>2, <3>2, <3>3 DEF TableInv
    <2>9. SvcsInv'
      <3>1. \A i \in 1 .. Len(q) : q[i].chrs = <<>>
        BY <1>4, <1>8, <2>6, <2>7
      <3>2. QED
        BY <1>1, <1>4, <2>2, <2>4, <2>6, <3>1 DEF SvcsInv
    <2>10. ChrsInv' /\ DscsInv'
      BY <2>4 DEF ChrsInv, DscsInv
    <2>11. QED
      BY <1>1, <1>11, <1>14, <2>1, <2>5, <2>8, <2>9, <2>10, Grew
  <1>15. QED
    BY <1>12, <1>13, <1>14, NewOrFull

\* The characteristic reported next, and what is left then.
LowestChr(d, c, n, a) ==
  a \in After(d[c].chrs, n) /\ \A x \in After(d[c].chrs, n) : a.def <= x.def

FirstLeft(l, n, a) ==
  n < Len(l) /\ a = l[n + 1] /\ After(l, n) \ {a} = After(l, n + 1)

\* Characteristics are reported in the order of the table.
LEMMA NextChr ==
  ASSUME NEW d \in Databases, NEW c \in 1 .. Len(d), NEW n \in 0 .. Len(d[c].chrs),
         NEW a, LowestChr(d, c, n, a)
  PROVE  FirstLeft(d[c].chrs, n, a)
  <1> DEFINE l == d[c].chrs
  <1>0. a \in After(l, n) /\ \A x \in After(l, n) : a.def <= x.def
    BY DEF LowestChr
  <1>1. PICK i \in n + 1 .. Len(l) : a = l[i]
    BY <1>0 DEF After
  <1>2. Len(l) \in Nat
    BY TableAssumption, ListTypes
  <1>3. i \in 1 .. Len(l) /\ n + 1 \in 1 .. Len(l) /\ n < Len(l) /\ n + 1 <= i
    BY <1>1, <1>2
  <1>4. a.def <= l[n + 1].def
    BY <1>0, <1>2, <1>3, AfterFirst
  <1>5. i = n + 1
    <2>1. /\ l[n + 1].def \in Nat /\ l[n + 1].val \in Nat /\ l[n + 1].def < l[n + 1].val
          /\ n + 1 < i => l[n + 1].val < l[i].def
      BY <1>3, ChrOrder
    <2>2. l[i].def \in Nat /\ l[i].def <= l[n + 1].def
      BY <1>1, <1>3, <1>4, ChrOrder
    <2>3. ~(n + 1 < i)
      BY <2>1, <2>2, SMTT(30)
    <2>4. QED
      BY <1>3, <2>3
  <1>6. ASSUME NEW m \in 1 .. Len(l), NEW k \in 1 .. Len(l), l[m] = l[k] PROVE m = k
    <2>1. l[m].def \in Nat /\ l[k].def \in Nat
      BY ChrOrder
    <2>2. l[m].def >= l[k].def /\ l[k].def >= l[m].def
      BY <1>6, <2>1
    <2>3. QED
      BY <2>2, ChrOnce
  <1>7. After(l, n) \ {l[n + 1]} = After(l, n + 1)
    BY <1>2, <1>3, <1>6, AfterFirst
  <1>8. QED
    BY <1>1, <1>3, <1>5, <1>7 DEF FirstLeft

\* The place of a service among the handles of the services.
LEMMA SvcAt ==
  ASSUME DiscInv, db \in Databases, NEW c \in 1 .. Len(peer.svcs)
  PROVE  Prev(Starts(peer.svcs), db[c].start) = c - 1
  <1> DEFINE st == Starts(peer.svcs)
  <1>1. /\ peer.svcs \in Seq(Service) /\ Len(peer.svcs) \in Nat
        /\ db \in Seq(Service) /\ Len(db) \in Nat /\ Len(peer.svcs) <= Len(db)
        /\ \A i \in 1 .. Len(peer.svcs) : SvcPart(peer.svcs[i], db[i])
    BY PeerLists
  <1>2. \A n \in 1 .. Len(peer.svcs) : peer.svcs[n].start = db[n].start /\ n \in 1 .. Len(db)
    BY <1>1 DEF SvcPart
  <1>3. \A n \in 1 .. Len(peer.svcs) : db[n].start \in Nat
    BY <1>2, SvcOrder
  <1>4. /\ st \in Seq(Nat) /\ Len(st) = Len(peer.svcs)
        /\ \A n \in 1 .. Len(peer.svcs) : st[n] = db[n].start
    <2>1. DOMAIN peer.svcs = 1 .. Len(peer.svcs)
      BY <1>1
    <2>2. QED
      BY <1>1, <1>2, <1>3, <2>1, SMTT(30) DEF Starts
  <1>5. ASSUME NEW n \in 1 .. c - 1 PROVE st[n] < st[c]
    <2>1. n \in 1 .. Len(peer.svcs) /\ n < c /\ n \in 1 .. Len(db) /\ c \in 1 .. Len(db)
      BY <1>1
    <2>2. /\ db[n].start <= db[n].end /\ db[n].start \in Nat /\ db[n].end \in Nat
          /\ db[n].end < db[c].start /\ db[c].start \in Nat
      BY <2>1, SvcOrder
    <2>3. st[n] = db[n].start /\ st[c] = db[c].start
      BY <1>4, <2>1
    <2>4. QED
      BY <2>2, <2>3
  <1> HIDE DEF st
  <1>6. Prev(st, st[c]) = c - 1
    BY <1>4, <1>5, PrevAt
  <1>7. QED
    BY <1>4, <1>6 DEF st

\* The characteristics known of a service, as a list of handles.
LEMMA ValsAre ==
  ASSUME DiscInv, db \in Databases, NEW c \in 1 .. Len(peer.svcs)
  PROVE  LET v == Vals(peer.svcs[c].chrs)
         IN  /\ v \in Seq(Nat) /\ Len(v) = Len(peer.svcs[c].chrs)
             /\ \A n \in 1 .. Len(peer.svcs[c].chrs) : v[n] = db[c].chrs[n].val
  <1> DEFINE l == peer.svcs[c].chrs
  <1>1. l \in Seq(Characteristic) /\ DOMAIN l = 1 .. Len(l) /\ Len(l) \in Nat
    BY PeerLists, ListTypes
  <1>2. \A n \in 1 .. Len(l) : l[n].val = db[c].chrs[n].val
    BY KnownChr DEF ChrPart
  <1>3. \A n \in 1 .. Len(l) : l[n].val \in Nat
    <2>1. \A n \in 1 .. Len(l) : l[n] \in Characteristic
      BY <1>1
    <2>2. QED
      BY <2>1 DEF Characteristic, Handle
  <1> HIDE DEF l
  <1>4. /\ Vals(l) \in Seq(Nat) /\ Len(Vals(l)) = Len(l)
        /\ \A n \in 1 .. Len(l) : Vals(l)[n] = db[c].chrs[n].val
    BY <1>1, <1>2, <1>3 DEF Vals
  <1>5. QED
    BY <1>4 DEF l

\* A characteristic at the end of a service's list.
LEMMA ChrLinked ==
  ASSUME NEW svcs \in Seq(Service), NEW c \in 1 .. Len(svcs), NEW e \in Characteristic
  PROVE  LET l == svcs[c].chrs
             q == [svcs EXCEPT ![c].chrs = Chained(l, Len(l), e)]
         IN  q \in Seq(Service) /\ ChrAdded(svcs, c, e, q)
  <1> DEFINE l == svcs[c].chrs
             r == Chained(l, Len(l), e)
             s == [svcs[c] EXCEPT !.chrs = r]
             q == [svcs EXCEPT ![c] = s]
  <1>1. svcs[c] \in Service /\ l \in Seq(Characteristic)
    BY ListTypes
  <1>2. r \in Seq(Characteristic) /\ Grown(l, e, r)
    BY <1>1, ChainedLast
  <1> HIDE DEF r
  <1>3. /\ s \in Service /\ s.start = svcs[c].start /\ s.end = svcs[c].end
        /\ s.uuid = svcs[c].uuid /\ s.chrs = r
    BY <1>1, <1>2 DEF Service
  <1> HIDE DEF s
  <1>4. /\ q \in Seq(Service) /\ Len(q) = Len(svcs)
        /\ \A i \in 1 .. Len(svcs) : q[i] = IF i = c THEN s ELSE svcs[i]
    BY <1>3, ExceptSeq
  <1>5. [svcs EXCEPT ![c].chrs = Chained(l, Len(l), e)] = q
    BY DEF q, s, r
  <1> HIDE DEF q
  <1>6. ChrAdded(svcs, c, e, q)
    BY <1>2, <1>3, <1>4 DEF ChrAdded
  <1>7. QED
    BY <1>4, <1>5, <1>6

\* A report of a characteristic.
LEMMA ChrDiscedStep ==
  ASSUME DiscInv, ChrDisced
  PROVE  DiscInv'
  <1>1. /\ link = "up" /\ proc.op = "chrs" /\ proc.op # "none" /\ UNCHANGED <<link, db, started>>
    BY DEF ChrDisced, Callback
  <1>2. db \in Databases /\ peer # NoPeer /\ peer.cur_svc # -1
    BY <1>1, UnderWay
  <1>3. /\ peer.disc_prev_chr_val = 1
        /\ Len(peer.svcs) = Len(db)
        /\ \A i \in 1 .. Len(db) : \A j \in 1 .. Len(peer.svcs[i].chrs) :
             peer.svcs[i].chrs[j].dscs = <<>>
        /\ \E c \in 1 .. Len(db) : ChrsOf(c)
    BY <1>1 DEF DiscInv, ChrsInv
  <1>4. PICK c \in 1 .. Len(db) : ChrsOf(c)
    BY <1>3
  <1>5. /\ peer.cur_svc = db[c].start
        /\ proc.rest = After(db[c].chrs, Len(peer.svcs[c].chrs))
        /\ \A i \in 1 .. Len(db) : i # c => peer.svcs[i].chrs = <<>> \/ HasChrs(i)
    BY <1>4 DEF ChrsOf
  <1>6. /\ peer.svcs \in Seq(Service) /\ Len(peer.svcs) \in Nat
        /\ db \in Seq(Service) /\ c \in 1 .. Len(peer.svcs)
        /\ \A i \in 1 .. Len(peer.svcs) : SvcPart(peer.svcs[i], db[i])
    BY <1>3, PeerLists
  <1> DEFINE l == peer.svcs[c].chrs
             m == Len(l)
             Chr(g) == [g EXCEPT !.dscs = <<>>]
             New(g, i) == [peer EXCEPT !.svcs[i].chrs =
                             Chained(@, Prev(Vals(peer.svcs[i].chrs), Chr(g).def), Chr(g))]
  <1>7. Prev(Starts(peer.svcs), peer.cur_svc) + 1 = c
    <2>1. Prev(Starts(peer.svcs), db[c].start) = c - 1
      BY <1>2, <1>6, SvcAt
    <2>2. QED
      BY <1>5, <1>6, <2>1
  <1>8. PICK g \in proc.rest :
          /\ \A a \in proc.rest : g.def <= a.def
          /\ Added(g, "chr", Present(Vals(l), Chr(g).def), New(g, c))
    BY <1>7 DEF ChrDisced
  <1>9. m \in Nat /\ Len(db[c].chrs) \in Nat /\ m <= Len(db[c].chrs) /\ l \in Seq(Characteristic)
    BY <1>6, ListTypes DEF SvcPart
  <1>10. m < Len(db[c].chrs) /\ g = db[c].chrs[m + 1] /\ proc.rest \ {g} = After(db[c].chrs, m + 1)
    <2>1. m \in 0 .. Len(db[c].chrs)
      BY <1>9
    <2>2. LowestChr(db, c, m, g)
      BY <1>5, <1>8 DEF LowestChr
    <2>3. FirstLeft(db[c].chrs, m, g)
      BY <1>2, <2>1, <2>2, NextChr, SMTT(30)
    <2>4. QED
      BY <1>5, <2>3 DEF FirstLeft
  <1>11. m + 1 \in 1 .. Len(db[c].chrs) /\ g \in Characteristic
    <2>1. m + 1 \in 1 .. Len(db[c].chrs)
      BY <1>9, <1>10, NextPlaces, Zenon
    <2>2. QED
      BY <1>2, <1>10, <2>1, ChrOrder
  <1>12. /\ Chr(g) \in Characteristic /\ Chr(g).def = g.def /\ Chr(g).val = g.val
         /\ Chr(g).uuid = g.uuid /\ Chr(g).dscs = <<>> /\ g.def \in Nat
    <2>1. <<>> \in Seq(Descriptor)
      BY EmptySeq
    <2>2. g.def \in Nat
      BY <1>11 DEF Characteristic, Handle
    <2>3. QED
      BY <1>11, <2>1, <2>2 DEF Characteristic
  <1>13. Prev(Vals(l), Chr(g).def) = m /\ ~Present(Vals(l), Chr(g).def)
    <2> DEFINE v == Vals(l)
    <2>1. v \in Seq(Nat) /\ Len(v) = m /\ \A n \in 1 .. m : v[n] = db[c].chrs[n].val
      BY <1>2, <1>6, ValsAre
    <2>2. ASSUME NEW n \in 1 .. m PROVE v[n] < g.def
      <3>1. n \in 1 .. Len(db[c].chrs) /\ n < m + 1
        BY <1>9, NextPlaces, Zenon
      <3>2. db[c].chrs[n].val < db[c].chrs[m + 1].def
        BY <1>2, <1>11, <3>1, ChrOrder
      <3>3. QED
        BY <1>10, <2>1, <3>2
    <2> HIDE DEF v
    <2>3. Prev(v, g.def) = Len(v) /\ ~Present(v, g.def)
      BY <1>12, <2>1, <2>2, PrevLast
    <2>4. QED
      BY <1>12, <2>1, <2>3 DEF v
  <1> DEFINE q == [peer.svcs EXCEPT ![c].chrs = Chained(l, m, Chr(g))]
  <1>14. New(g, c) = [peer EXCEPT !.svcs = q]
    BY <1>13
  <1>15. Added(g, "chr", FALSE, New(g, c))
    <2>1. Present(Vals(l), Chr(g).def) = FALSE
      BY <1>13 DEF Present
    <2>2. QED
      BY <1>8, <2>1
  <1> HIDE DEF New, Chr
  <1>16. q \in Seq(Service) /\ ChrAdded(peer.svcs, c, Chr(g), q)
    BY <1>6, <1>12, ChrLinked
  <1> HIDE DEF q
  <1>17. CASE Complete(peer, FALSE) /\ UNCHANGED free
    <2>1. proc # NoProc /\ link' \in {"up", "broken"}
      BY <1>1 DEF NoProc
    <2>2. QED
      BY <1>1, <1>17, <2>1, FailsStep
  <1>18. CASE free.chr > 0 /\ Run(New(g, c), Reported(g)) /\ free' = [free EXCEPT !.chr = @ - 1]
    <2>1. peer' = [peer EXCEPT !.svcs = q] /\ proc' = Reported(g)
      BY <1>14, <1>18 DEF Run
    <2>2. /\ peer'.svcs = q /\ peer'.cur_svc = peer.cur_svc
          /\ peer'.disc_prev_chr_val = peer.disc_prev_chr_val
      BY <2>1 DEF DiscInv, Types
    <2>3. peer' # NoPeer
      BY <1>2, <2>2, NotNoPeer
    <2>4. proc'.op = "chrs" /\ proc'.rest = After(db[c].chrs, m + 1)
      BY <1>1, <1>10, <2>1 DEF Reported, DiscInv, Types
    <2>5. free' \in [peer : Nat, svc : Nat, chr : Nat, dsc : Nat] /\ Account(peer', free')
      BY <1>2, <1>6, <1>12, <1>16, <1>18, <2>2, <2>3, ChrTaken
    <2>6. /\ Len(q) = Len(db)
          /\ \A i \in 1 .. Len(db) :
               /\ q[i].start = peer.svcs[i].start /\ q[i].end = peer.svcs[i].end
               /\ q[i].uuid = peer.svcs[i].uuid
               /\ i # c => q[i].chrs = peer.svcs[i].chrs
          /\ Len(q[c].chrs) = m + 1
          /\ \A n \in 1 .. m : q[c].chrs[n] = l[n]
          /\ q[c].chrs[m + 1] = Chr(g)
      BY <1>3, <1>16 DEF ChrAdded, Grown
    <2>7. \A n \in 1 .. Len(q[c].chrs) : n \in 1 .. m \/ n = m + 1
      BY <1>9, <2>6
    <2>8. TableInv'
      <3>1. ASSUME NEW i \in 1 .. Len(db) PROVE SvcPart(q[i], db[i])
        <4>1. SvcPart(peer.svcs[i], db[i])
          BY <1>3, <1>6
        <4>2. CASE i # c
          BY <2>6, <4>1, <4>2 DEF SvcPart
        <4>3. CASE i = c
          <5>1. ChrPart(Chr(g), db[c].chrs[m + 1])
            <6>1. Len(db[c].chrs[m + 1].dscs) \in Nat
              BY <1>6, <1>11, ListTypes
            <6>2. Len(Chr(g).dscs) = 0
              BY <1>12
            <6>3. \A k \in 1 .. Len(Chr(g).dscs) : Chr(g).dscs[k] = db[c].chrs[m + 1].dscs[k]
              BY <6>2
            <6>4. Len(Chr(g).dscs) <= Len(db[c].chrs[m + 1].dscs)
              BY <6>1, <6>2, NextPlaces, ZenonT(60)
            <6>5. /\ Chr(g).def = db[c].chrs[m + 1].def /\ Chr(g).val = db[c].chrs[m + 1].val
                  /\ Chr(g).uuid = db[c].chrs[m + 1].uuid
              BY <1>10, <1>12, Zenon
            <6>6. QED
              BY <6>3, <6>4, <6>5, Zenon DEF ChrPart
          <5>2. \A n \in 1 .. m : ChrPart(l[n], db[c].chrs[n])
            BY <1>6 DEF SvcPart
          <5>3. \A n \in 1 .. Len(q[c].chrs) : ChrPart(q[c].chrs[n], db[c].chrs[n])
            BY <2>6, <2>7, <5>1, <5>2, ZenonT(60)
          <5>4. Len(q[c].chrs) <= Len(db[c].chrs)
            BY <1>9, <1>10, <2>6
          <5>5. q[c].start = db[c].start /\ q[c].end = db[c].end /\ q[c].uuid = db[c].uuid
            BY <2>6, <4>1, <4>3 DEF SvcPart
          <5>6. QED
            BY <4>3, <5>3, <5>4, <5>5 DEF SvcPart
        <4>4. QED
          BY <4>2, <4>3
      <3>2. QED
        BY <1>1, <1>3, <1>6, <2>2, <2>6, <3>1 DEF TableInv
    <2>9. ChrsOf(c)'
      <3>1. peer'.cur_svc = db[c].start
        BY <1>5, <2>2
      <3>2. proc'.rest = After(db[c].chrs, Len(q[c].chrs))
        BY <2>4, <2>6
      <3>3. \A i \in 1 .. Len(db) : i # c => q[i].chrs = <<>> \/ Len(q[i].chrs) = Len(db[i].chrs)
        BY <1>5, <2>6 DEF HasChrs
      <3>4. QED
        BY <1>1, <2>2, <3>1, <3>2, <3>3 DEF ChrsOf, HasChrs
    <2>10. ChrsInv'
      <3>1. ASSUME NEW i \in 1 .. Len(db), NEW j \in 1 .. Len(q[i].chrs)
            PROVE  q[i].chrs[j].dscs = <<>>
        <4>1. CASE i = c
          <5>1. j \in 1 .. m \/ j = m + 1
            BY <2>7, <4>1
          <5>2. CASE j \in 1 .. m
            BY <1>3, <2>6, <4>1, <5>2, ZenonT(60)
          <5>3. CASE j = m + 1
            BY <1>12, <2>6, <4>1, <5>3
          <5>4. QED
            BY <5>1, <5>2, <5>3
        <4>2. CASE i # c
          BY <1>3, <2>6, <4>2, ZenonT(60)
        <4>3. QED
          BY <4>1, <4>2
      <3>2. peer'.disc_prev_chr_val = 1 /\ Len(peer'.svcs) = Len(db')
        BY <1>1, <1>3, <2>2, <2>6
      <3>3. QED
        BY <1>1, <2>2, <2>9, <3>1, <3>2 DEF ChrsInv
    <2>11. SvcsInv' /\ DscsInv'
      BY <2>4 DEF SvcsInv, DscsInv
    <2>12. QED
      BY <1>1, <1>16, <1>18, <2>1, <2>5, <2>8, <2>10, <2>11, Grew
  <1>19. QED
    BY <1>15, <1>17, <1>18, NewOrFull

\* The descriptor reported next.
LowestDsc(d, c, j, n, a) ==
  /\ a \in After(d[c].chrs[j].dscs, n)
  /\ \A x \in After(d[c].chrs[j].dscs, n) : a.handle <= x.handle

\* Descriptors are reported in the order of the table.
LEMMA NextDsc ==
  ASSUME NEW d \in Databases, NEW c \in 1 .. Len(d), NEW j \in 1 .. Len(d[c].chrs),
         NEW n \in 0 .. Len(d[c].chrs[j].dscs), NEW a, LowestDsc(d, c, j, n, a)
  PROVE  FirstLeft(d[c].chrs[j].dscs, n, a)
  <1> DEFINE l == d[c].chrs[j].dscs
  <1>0. a \in After(l, n) /\ \A x \in After(l, n) : a.handle <= x.handle
    BY DEF LowestDsc
  <1>1. PICK i \in n + 1 .. Len(l) : a = l[i]
    BY <1>0 DEF After
  <1>2. Len(l) \in Nat
    BY TableAssumption, ListTypes
  <1>3. i \in 1 .. Len(l) /\ n + 1 \in 1 .. Len(l) /\ n < Len(l) /\ n + 1 <= i
    BY <1>1, <1>2, SMTT(30)
  <1>4. a.handle <= l[n + 1].handle
    BY <1>0, <1>2, <1>3, AfterFirst
  <1>5. i = n + 1
    <2>1. /\ l[n + 1].handle \in Nat
          /\ n + 1 < i => l[n + 1].handle < l[i].handle
      BY <1>3, DscOrder
    <2>2. l[i].handle \in Nat /\ l[i].handle <= l[n + 1].handle
      BY <1>1, <1>3, <1>4, DscOrder
    <2>3. ASSUME n + 1 < i PROVE FALSE
      <3>1. l[n + 1].handle < l[i].handle
        BY <2>1, <2>3
      <3> DEFINE x == l[n + 1].handle
                 y == l[i].handle
      <3>2. x \in Nat /\ y \in Nat /\ x < y /\ y <= x
        BY <2>1, <2>2, <3>1
      <3> HIDE DEF x, y
      <3>3. QED
        BY <3>2
    <2>4. QED
      BY <1>2, <1>3, <2>3
  <1>6. ASSUME NEW m \in 1 .. Len(l), NEW k \in 1 .. Len(l), l[m] = l[k] PROVE m = k
    BY <1>6, DscOnce
  <1>7. After(l, n) \ {l[n + 1]} = After(l, n + 1)
    BY <1>2, <1>3, <1>6, AfterFirst
  <1>8. QED
    BY <1>1, <1>3, <1>5, <1>7 DEF FirstLeft

\* The descriptors known of a characteristic, as a list of handles.
LEMMA HandlesAre ==
  ASSUME DiscInv, db \in Databases, NEW c \in 1 .. Len(peer.svcs),
         NEW d \in 1 .. Len(peer.svcs[c].chrs)
  PROVE  LET l == peer.svcs[c].chrs[d].dscs
             v == Handles(l)
         IN  /\ v \in Seq(Nat) /\ Len(v) = Len(l)
             /\ \A n \in 1 .. Len(l) : v[n] = db[c].chrs[d].dscs[n].handle
  <1> DEFINE l == peer.svcs[c].chrs[d].dscs
  <1>1. l \in Seq(Descriptor) /\ DOMAIN l = 1 .. Len(l) /\ Len(l) \in Nat
    BY PeerLists, ListTypes
  <1>2. \A n \in 1 .. Len(l) : l[n].handle = db[c].chrs[d].dscs[n].handle
    BY KnownChr DEF ChrPart
  <1>3. \A n \in 1 .. Len(l) : l[n].handle \in Nat
    <2>1. \A n \in 1 .. Len(l) : l[n] \in Descriptor
      BY <1>1
    <2>2. QED
      BY <2>1, SMTT(30) DEF Descriptor, Handle
  <1> HIDE DEF l
  <1>4. /\ Handles(l) \in Seq(Nat) /\ Len(Handles(l)) = Len(l)
        /\ \A n \in 1 .. Len(l) : Handles(l)[n] = db[c].chrs[d].dscs[n].handle
    BY <1>1, <1>2, <1>3 DEF Handles
  <1>5. QED
    BY <1>4 DEF l

\* The place of a characteristic among the handles of its service's.
LEMMA ChrAt ==
  ASSUME DiscInv, db \in Databases, NEW c \in 1 .. Len(peer.svcs),
         NEW d \in 1 .. Len(peer.svcs[c].chrs)
  PROVE  Prev(Vals(peer.svcs[c].chrs), db[c].chrs[d].val) = d - 1
  <1> DEFINE v == Vals(peer.svcs[c].chrs)
  <1>1. /\ v \in Seq(Nat) /\ Len(v) = Len(peer.svcs[c].chrs)
        /\ \A n \in 1 .. Len(peer.svcs[c].chrs) : v[n] = db[c].chrs[n].val
    BY ValsAre
  <1>2. /\ c \in 1 .. Len(db) /\ d \in 1 .. Len(db[c].chrs)
        /\ Len(peer.svcs[c].chrs) \in Nat /\ Len(db[c].chrs) \in Nat
    BY KnownChr
  <1>3. ASSUME NEW n \in 1 .. d - 1 PROVE v[n] < v[d]
    <2>1. n \in 1 .. Len(peer.svcs[c].chrs) /\ n \in 1 .. Len(db[c].chrs) /\ n < d
      BY <1>2
    <2>2. /\ db[c].chrs[n].val \in Nat /\ db[c].chrs[d].def \in Nat /\ db[c].chrs[d].val \in Nat
          /\ db[c].chrs[n].val < db[c].chrs[d].def
          /\ db[c].chrs[d].def < db[c].chrs[d].val
      BY <1>2, <2>1, ChrOrder
    <2>3. v[n] = db[c].chrs[n].val /\ v[d] = db[c].chrs[d].val
      BY <1>1, <2>1
    <2> DEFINE before == db[c].chrs[n].val
               def    == db[c].chrs[d].def
               val    == db[c].chrs[d].val
    <2>a. /\ before \in Nat /\ def \in Nat /\ val \in Nat
          /\ before < def /\ def < val
      BY <2>2
    <2>4. before < val
      <3> HIDE DEF before, def, val
      <3>1. QED
        BY <2>a
    <2>5. QED
      BY <2>3, <2>4, Zenon
  <1> HIDE DEF v
  <1>4. d \in 1 .. Len(v)
    BY <1>1
  <1>5. Prev(v, v[d]) = d - 1
    BY <1>1, <1>3, <1>4, PrevAt
  <1>6. QED
    BY <1>1, <1>5 DEF v

\* A descriptor at the end of a characteristic's list.
LEMMA DscLinked ==
  ASSUME NEW svcs \in Seq(Service), NEW c \in 1 .. Len(svcs),
         NEW d \in 1 .. Len(svcs[c].chrs), NEW e \in Descriptor
  PROVE  LET l == svcs[c].chrs[d].dscs
             q == [svcs EXCEPT ![c].chrs[d].dscs = Chained(l, Len(l), e)]
         IN  q \in Seq(Service) /\ DscAdded(svcs, c, d, e, q)
  <1> DEFINE chrs == svcs[c].chrs
             l == chrs[d].dscs
             r == Chained(l, Len(l), e)
             g == [chrs[d] EXCEPT !.dscs = r]
             t == [chrs EXCEPT ![d] = g]
             s == [svcs[c] EXCEPT !.chrs = t]
             q == [svcs EXCEPT ![c] = s]
  <1>1. /\ svcs[c] \in Service /\ chrs \in Seq(Characteristic)
        /\ chrs[d] \in Characteristic /\ l \in Seq(Descriptor)
    BY ListTypes
  <1>2. r \in Seq(Descriptor) /\ Grown(l, e, r)
    BY <1>1, ChainedLast
  <1> HIDE DEF r
  <1>3. /\ g \in Characteristic /\ g.def = chrs[d].def /\ g.val = chrs[d].val
        /\ g.uuid = chrs[d].uuid /\ g.dscs = r
    BY <1>1, <1>2 DEF Characteristic
  <1> HIDE DEF g
  <1>4. /\ t \in Seq(Characteristic) /\ Len(t) = Len(chrs)
        /\ \A m \in 1 .. Len(chrs) : t[m] = IF m = d THEN g ELSE chrs[m]
    BY <1>1, <1>3, ExceptSeq
  <1> HIDE DEF t
  <1>5. DscChained(chrs, d, e, t)
    BY <1>2, <1>3, <1>4 DEF DscChained
  <1>6. /\ s \in Service /\ s.start = svcs[c].start /\ s.end = svcs[c].end
        /\ s.uuid = svcs[c].uuid /\ s.chrs = t
    BY <1>1, <1>4 DEF Service
  <1> HIDE DEF s
  <1>7. /\ q \in Seq(Service) /\ Len(q) = Len(svcs)
        /\ \A i \in 1 .. Len(svcs) : q[i] = IF i = c THEN s ELSE svcs[i]
    BY <1>6, ExceptSeq
  <1>8. [svcs EXCEPT ![c].chrs[d].dscs = Chained(l, Len(l), e)] = q
    BY DEF q, s, t, g, r
  <1> HIDE DEF q
  <1>9. DscAdded(svcs, c, d, e, q)
    BY <1>5, <1>6, <1>7 DEF DscAdded
  <1>10. QED
    BY <1>7, <1>8, <1>9

\* A report of a descriptor.
LEMMA DscDiscedStep ==
  ASSUME DiscInv, DscDisced
  PROVE  DiscInv'
  <1>1. /\ link = "up" /\ proc.op = "dscs" /\ proc.op # "none" /\ UNCHANGED <<link, db, started>>
    BY Zenon DEF DscDisced, Callback
  <1>2. db \in Databases /\ peer # NoPeer /\ peer.cur_svc # -1
    BY <1>1, UnderWay
  <1>3. /\ peer.disc_prev_chr_val = proc.chr
        /\ Len(peer.svcs) = Len(db)
        /\ \A i \in 1 .. Len(db) : HasChrs(i)
        /\ \E c \in 1 .. Len(db) : \E d \in 1 .. Len(db[c].chrs) : DscsOf(c, d)
    BY <1>1 DEF DiscInv, DscsInv
  <1>4a. PICK c \in 1 .. Len(db) : \E d \in 1 .. Len(db[c].chrs) : DscsOf(c, d)
    BY <1>3
  <1>4. PICK d \in 1 .. Len(db[c].chrs) : DscsOf(c, d)
    BY <1>4a
  <1>5. /\ proc.chr = db[c].chrs[d].val
        /\ proc.rest = After(db[c].chrs[d].dscs, Len(peer.svcs[c].chrs[d].dscs))
        /\ \A i \in 1 .. Len(db) : \A j \in 1 .. Len(db[i].chrs) :
             <<i, j>> # <<c, d>> =>
               \/ HasDscs(i, j)
               \/ peer.svcs[i].chrs[j].dscs = <<>> /\ proc.chr < db[i].chrs[j].def
    BY <1>4 DEF DscsOf
  <1>6. /\ peer.svcs \in Seq(Service) /\ Len(peer.svcs) \in Nat
        /\ db \in Seq(Service) /\ c \in 1 .. Len(peer.svcs)
        /\ d \in 1 .. Len(peer.svcs[c].chrs)
        /\ \A i \in 1 .. Len(peer.svcs) : SvcPart(peer.svcs[i], db[i])
    BY <1>3, PeerLists DEF HasChrs
  <1> DEFINE l == peer.svcs[c].chrs[d].dscs
             m == Len(l)
             w == db[c].chrs[d].dscs
             New(g, i, j) == [peer EXCEPT !.svcs[i].chrs[j].dscs =
                                Chained(@, Prev(Handles(peer.svcs[i].chrs[j].dscs), g.handle), g)]
  <1>7. FindRange(peer.svcs, proc.chr) = c
    <2>1. /\ db[c].chrs[d].val \in Nat /\ db[c].start <= db[c].chrs[d].val
          /\ db[c].chrs[d].val <= db[c].end
      <3>1. /\ db[c].chrs[d].val \in Nat /\ db[c].chrs[d].def \in Nat /\ db[c].start \in Nat
            /\ db[c].start < db[c].chrs[d].def /\ db[c].chrs[d].def < db[c].chrs[d].val
            /\ db[c].chrs[d].val <= db[c].end
        BY <1>2, ChrOrder, SvcOrder
      <3>2. QED
        BY <3>1
    <2>2. \A i \in 1 .. Len(db) : peer.svcs[i].start = db[i].start /\ peer.svcs[i].end = db[i].end
      BY <1>3, <1>6 DEF SvcPart
    <2>3. proc.chr \in Nat /\ db[c].start <= proc.chr /\ proc.chr <= db[c].end
      BY <1>5, <2>1
    <2>4. QED
      BY <1>2, <1>3, <1>6, <2>2, <2>3, RangeFound
  <1>8. Prev(Vals(peer.svcs[c].chrs), proc.chr) + 1 = d
    <2>1. Prev(Vals(peer.svcs[c].chrs), db[c].chrs[d].val) = d - 1
      BY <1>2, <1>6, ChrAt
    <2>2. d \in Nat
      BY <1>6, ListTypes
    <2>3. QED
      BY <1>5, <2>1, <2>2
  <1>9. PICK g \in proc.rest :
          /\ \A a \in proc.rest : g.handle <= a.handle
          /\ Added(g, "dsc", Present(Handles(l), g.handle), New(g, c, d))
    BY <1>7, <1>8, Zenon DEF DscDisced
  <1>10. m \in Nat /\ Len(w) \in Nat /\ m <= Len(w) /\ l \in Seq(Descriptor)
    <2>1. m <= Len(w)
      BY <1>6, KnownChr, Zenon DEF ChrPart
    <2>2. QED
      BY <1>6, <2>1, ListTypes
  <1>11. m < Len(w) /\ g = w[m + 1] /\ proc.rest \ {g} = After(w, m + 1)
    <2>1. m \in 0 .. Len(w)
      BY <1>10, SMTT(30)
    <2>2. LowestDsc(db, c, d, m, g)
      BY <1>5, <1>9 DEF LowestDsc
    <2>3. FirstLeft(w, m, g)
      BY <1>2, <2>1, <2>2, NextDsc, Zenon
    <2>4. QED
      BY <1>5, <2>3, Zenon DEF FirstLeft
  <1>12. m + 1 \in 1 .. Len(w) /\ g \in Descriptor /\ g.handle \in Nat
    <2>1. m + 1 \in 1 .. Len(w)
      BY <1>10, <1>11, NextPlaces, Zenon
    <2>2. QED
      BY <1>2, <1>11, <2>1, DscOrder, Zenon
  <1>13. Prev(Handles(l), g.handle) = m /\ ~Present(Handles(l), g.handle)
    <2> DEFINE v == Handles(l)
    <2>1. v \in Seq(Nat) /\ Len(v) = m /\ \A n \in 1 .. m : v[n] = w[n].handle
      BY <1>2, <1>6, HandlesAre
    <2>2. ASSUME NEW n \in 1 .. m PROVE v[n] < g.handle
      <3>1. n \in 1 .. Len(w) /\ n < m + 1
        BY <1>10, NextPlaces, ZenonT(60)
      <3>2. w[n].handle < w[m + 1].handle
        BY <1>2, <1>12, <3>1, DscOrder, Zenon
      <3>3. QED
        BY <1>11, <2>1, <3>2, Zenon
    <2> HIDE DEF v
    <2>3. Prev(v, g.handle) = Len(v) /\ ~Present(v, g.handle)
      BY <1>12, <2>1, <2>2, PrevLast
    <2>4. QED
      BY <2>1, <2>3 DEF v
  <1> DEFINE q == [peer.svcs EXCEPT ![c].chrs[d].dscs = Chained(l, m, g)]
  <1>14. New(g, c, d) = [peer EXCEPT !.svcs = q]
    BY <1>13
  <1>15. Added(g, "dsc", FALSE, New(g, c, d))
    <2>1. Present(Handles(l), g.handle) = FALSE
      BY <1>13 DEF Present
    <2>2. QED
      BY <1>9, <2>1
  <1> HIDE DEF New
  <1>16. q \in Seq(Service) /\ DscAdded(peer.svcs, c, d, g, q)
    BY <1>6, <1>12, DscLinked
  <1> HIDE DEF q
  <1>17. CASE Complete(peer, FALSE) /\ UNCHANGED free
    <2>1. proc # NoProc /\ link' \in {"up", "broken"}
      BY <1>1 DEF NoProc
    <2>2. QED
      BY <1>1, <1>17, <2>1, FailsStep
  <1>18. CASE free.dsc > 0 /\ Run(New(g, c, d), Reported(g)) /\ free' = [free EXCEPT !.dsc = @ - 1]
    <2>1. peer' = [peer EXCEPT !.svcs = q] /\ proc' = Reported(g)
      BY <1>14, <1>18 DEF Run
    <2>2. /\ peer'.svcs = q /\ peer'.cur_svc = peer.cur_svc
          /\ peer'.disc_prev_chr_val = peer.disc_prev_chr_val
      BY <2>1 DEF DiscInv, Types
    <2>3. peer' # NoPeer
      BY <1>2, <2>2, NotNoPeer
    <2>4. proc'.op = "dscs" /\ proc'.chr = proc.chr /\ proc'.rest = After(w, m + 1)
      BY <1>1, <1>11, <2>1, Zenon DEF Reported, DiscInv, Types
    <2>5. free' \in [peer : Nat, svc : Nat, chr : Nat, dsc : Nat] /\ Account(peer', free')
      BY <1>2, <1>6, <1>16, <1>18, <2>2, <2>3, DscTaken
    <2>6. /\ Len(q) = Len(db)
          /\ \A i \in 1 .. Len(db) :
               /\ q[i].start = peer.svcs[i].start /\ q[i].end = peer.svcs[i].end
               /\ q[i].uuid = peer.svcs[i].uuid
               /\ i # c => q[i].chrs = peer.svcs[i].chrs
          /\ Len(q[c].chrs) = Len(peer.svcs[c].chrs)
          /\ \A j \in 1 .. Len(peer.svcs[c].chrs) :
               /\ q[c].chrs[j].def = peer.svcs[c].chrs[j].def
               /\ q[c].chrs[j].val = peer.svcs[c].chrs[j].val
               /\ q[c].chrs[j].uuid = peer.svcs[c].chrs[j].uuid
               /\ j # d => q[c].chrs[j].dscs = peer.svcs[c].chrs[j].dscs
      BY <1>3, <1>16, SMTT(30) DEF DscAdded, DscChained
    <2>7. /\ Len(q[c].chrs[d].dscs) = m + 1
          /\ \A n \in 1 .. m : q[c].chrs[d].dscs[n] = l[n]
          /\ q[c].chrs[d].dscs[m + 1] = g
      BY <1>16 DEF DscAdded, DscChained, Grown
    <2>8. TableInv'
      <3>1. ASSUME NEW i \in 1 .. Len(db) PROVE SvcPart(q[i], db[i])
        <4>1. SvcPart(peer.svcs[i], db[i])
          BY <1>3, <1>6
        <4>2. CASE i # c
          BY <2>6, <4>1, <4>2 DEF SvcPart
        <4>3. CASE i = c
          <5>1. ChrPart(q[c].chrs[d], db[c].chrs[d])
            <6>1. ChrPart(peer.svcs[c].chrs[d], db[c].chrs[d])
              BY <1>6, KnownChr
            <6>2. ASSUME NEW n \in 1 .. m + 1 PROVE q[c].chrs[d].dscs[n] = w[n]
              <7>1. n \in 1 .. m \/ n = m + 1
                BY <1>10, NextPlaces, Zenon
              <7>2. \A k \in 1 .. m : l[k] = w[k]
                BY <6>1 DEF ChrPart
              <7>3. QED
                BY <1>11, <2>7, <7>1, <7>2, Zenon
            <6>3. m + 1 <= Len(w)
              BY <1>12, <1>10, SMTT(30)
            <6>4. /\ q[c].chrs[d].def = db[c].chrs[d].def /\ q[c].chrs[d].val = db[c].chrs[d].val
                  /\ q[c].chrs[d].uuid = db[c].chrs[d].uuid
              BY <1>6, <2>6, <6>1 DEF ChrPart
            <6>5. QED
              BY <2>7, <6>2, <6>3, <6>4 DEF ChrPart
          <5>2. ASSUME NEW j \in 1 .. Len(peer.svcs[c].chrs)
                PROVE  ChrPart(q[c].chrs[j], db[c].chrs[j])
            <6>1. ChrPart(peer.svcs[c].chrs[j], db[c].chrs[j])
              BY <1>6, KnownChr, SMTT(30)
            <6>2. CASE j = d
              BY <5>1, <6>2
            <6>3. CASE j # d
              BY <2>6, <6>1, <6>3 DEF ChrPart
            <6>4. QED
              BY <6>2, <6>3
          <5>3. \A j \in 1 .. Len(q[c].chrs) : ChrPart(q[c].chrs[j], db[c].chrs[j])
            BY <2>6, <5>2
          <5>4. Len(q[c].chrs) <= Len(db[c].chrs)
            BY <2>6, <4>1, <4>3 DEF SvcPart
          <5>5. q[c].start = db[c].start /\ q[c].end = db[c].end /\ q[c].uuid = db[c].uuid
            BY <2>6, <4>1, <4>3 DEF SvcPart
          <5>6. QED
            BY <4>3, <5>3, <5>4, <5>5 DEF SvcPart
        <4>4. QED
          BY <4>2, <4>3
      <3>2. QED
        BY <1>1, <1>3, <1>6, <2>2, <2>6, <3>1 DEF TableInv
    <2>9. \A i \in 1 .. Len(db) : Len(q[i].chrs) = Len(db[i].chrs)
      BY <1>3, <2>6 DEF HasChrs
    <2>10. DscsOf(c, d)'
      <3>1. ASSUME NEW i \in 1 .. Len(db), NEW j \in 1 .. Len(db[i].chrs), <<i, j>> # <<c, d>>
            PROVE  \/ Len(q[i].chrs[j].dscs) = Len(db[i].chrs[j].dscs)
                   \/ q[i].chrs[j].dscs = <<>> /\ proc.chr < db[i].chrs[j].def
        <4>1. q[i].chrs[j].dscs = peer.svcs[i].chrs[j].dscs
          <5>1. CASE i # c
            BY <2>6, <5>1
          <5>2. CASE i = c /\ j # d
            <6>1. j \in 1 .. Len(peer.svcs[c].chrs)
              BY <1>3, <5>2, SMTT(30) DEF HasChrs
            <6>2. QED
              BY <2>6, <5>2, <6>1
          <5>3. QED
            BY <3>1, <5>1, <5>2
        <4>2. QED
          BY <1>5, <3>1, <4>1 DEF HasDscs
      <3>2. proc'.rest = After(w, Len(q[c].chrs[d].dscs)) /\ proc'.chr = db[c].chrs[d].val
        BY <1>5, <2>4, <2>7
      <3>3. QED
        BY <1>1, <2>2, <2>4, <3>1, <3>2 DEF DscsOf, HasDscs
    <2>11. DscsInv'
      <3>1. peer'.disc_prev_chr_val = proc'.chr /\ Len(peer'.svcs) = Len(db')
        BY <1>1, <1>3, <2>2, <2>4, <2>6
      <3>2. \A i \in 1 .. Len(db') : HasChrs(i)'
        BY <1>1, <2>2, <2>9 DEF HasChrs
      <3>3. \E i \in 1 .. Len(db') : \E j \in 1 .. Len(db'[i].chrs) : DscsOf(i, j)'
        BY <1>1, <2>10
      <3>4. QED
        BY <3>1, <3>2, <3>3 DEF DscsInv
    <2>12. SvcsInv' /\ ChrsInv'
      BY <2>4 DEF SvcsInv, ChrsInv
    <2>13. QED
      BY <1>1, <1>16, <1>18, <2>1, <2>5, <2>8, <2>11, <2>12, Grew
  <1>19. QED
    BY <1>15, <1>17, <1>18, NewOrFull, Zenon

-----------------------------------------------------------------------------
(* The invariant.                                                          *)

\* Before the first connection nothing is known and every pool is full.
LEMMA DiscInit == Init => DiscInv
  <1> SUFFICES ASSUME Init PROVE DiscInv
    OBVIOUS
  <1>1. /\ link = "down" /\ db = Nothing /\ peer = NoPeer /\ proc = NoProc /\ ~started
        /\ answers = <<>> /\ written = 0 /\ ~terminating
        /\ free = [peer |-> MaxPeers, svc |-> MaxSvcs, chr |-> MaxChrs, dsc |-> MaxDscs]
    BY DEF Init
  <1>2. proc.op = "none" /\ peer.svcs = <<>> /\ peer.cur_svc = -1
    BY <1>1 DEF NoProc, NoPeer
  <1>3. {MaxHandle, MaxPeers, MaxSvcs, MaxChrs, MaxDscs} \subseteq Nat
    BY PoolAssumption
  <1>4. free \in [peer : Nat, svc : Nat, chr : Nat, dsc : Nat]
    BY <1>1, <1>3
  <1>5. Types
    <2>1. <<>> \in Seq(Service)
      BY EmptySeq
    <2>2. peer \in [svcs : Seq(Service), disc_prev_chr_val : 0 .. MaxHandle,
                    cur_svc : -1 .. MaxHandle]
      BY <1>1, <1>3, <2>1 DEF NoPeer
    <2>3. proc \in [op : {"none", "svcs", "chrs", "dscs"}, heard : BOOLEAN,
                    rest : SUBSET Attribute, chr : 0 .. MaxHandle]
      BY <1>1, <1>3 DEF NoProc
    <2>4. written \in 0 .. MaxHandle
      BY <1>1, <1>3
    <2>5. QED
      BY <1>1, <1>4, <2>2, <2>3, <2>4 DEF Types, Init
  <1>6. ControlInv
    BY <1>1, <1>2 DEF ControlInv
  <1>7. TableInv
    BY <1>1, <1>2 DEF TableInv, Nothing
  <1>8. SvcsInv /\ ChrsInv /\ DscsInv
    BY <1>2 DEF SvcsInv, ChrsInv, DscsInv
  <1>9. FoundInv /\ SubscribesToSpeedometer
    BY <1>1 DEF FoundInv, SubscribesToSpeedometer
  <1>10. PoolInv
    <2>1. free.peer = MaxPeers /\ free.svc = MaxSvcs /\ free.chr = MaxChrs /\ free.dsc = MaxDscs
      BY <1>1
    <2>2. free.peer + (IF peer = NoPeer THEN 0 ELSE 1) = MaxPeers
      BY <1>1, <1>3, <2>1
    <2>3. Account(peer, free)
      BY <1>2, <1>4, <2>1, <2>2, PoolsEmpty
    <2>4. QED
      BY <2>3, AccountIs
  <1>11. QED
    BY <1>5, <1>6, <1>7, <1>8, <1>9, <1>10 DEF DiscInv

\* Every step keeps the invariant.
LEMMA DiscNext == DiscInv /\ [Next]_vars => DiscInv'
  <1> SUFFICES ASSUME DiscInv, [Next]_vars PROVE DiscInv'
    OBVIOUS
  <1>1. ASSUME NEW d \in Databases, ConnectEvent(d) PROVE DiscInv'
    BY <1>1, ConnectStep
  <1>2. CASE Respond
    BY <1>2, RespondStep
  <1>3. CASE SvcDisced
    BY <1>3, SvcDiscedStep
  <1>4. CASE ChrDisced
    BY <1>4, ChrDiscedStep
  <1>5. CASE DscDisced
    BY <1>5, DscDiscedStep
  <1>6. CASE SvcsDone
    BY <1>6, SvcsDoneStep
  <1>7. CASE ChrsDone
    BY <1>7, ChrsDoneStep
  <1>8. CASE DscsDone
    BY <1>8, DscsDoneStep
  <1>9. CASE ProcFails
    BY <1>9, ProcFailsStep
  <1>10. CASE LinkBreaks
    BY <1>10, LinkBreaksStep
  <1>11. CASE DisconnectEvent
    BY <1>11, DisconnectStep
  <1>12. CASE UNCHANGED vars
    <2>1. UNCHANGED <<link, db, peer, free, proc, started, answers, written, terminating>>
      BY <1>12 DEF vars
    <2>2. Types' /\ ControlInv' /\ TableInv'
      BY <2>1 DEF DiscInv, Types, ControlInv, TableInv
    <2>3. SvcsInv' /\ ChrsInv' /\ DscsInv'
      <3>1. SvcsInv'
        BY <2>1 DEF DiscInv, SvcsInv
      <3>2. ChrsInv'
        BY <2>1 DEF DiscInv, ChrsInv, ChrsOf, HasChrs
      <3>3. DscsInv'
        <4> SUFFICES ASSUME proc'.op = "dscs"
                     PROVE  /\ peer'.disc_prev_chr_val = proc'.chr
                            /\ Len(peer'.svcs) = Len(db')
                            /\ \A i \in 1 .. Len(db') : HasChrs(i)'
                            /\ \E c \in 1 .. Len(db') : \E d \in 1 .. Len(db'[c].chrs) :
                                 DscsOf(c, d)'
          BY DEF DscsInv
        <4>1. /\ peer.disc_prev_chr_val = proc.chr /\ Len(peer.svcs) = Len(db)
              /\ \A i \in 1 .. Len(db) : HasChrs(i)
              /\ \E c \in 1 .. Len(db) : \E d \in 1 .. Len(db[c].chrs) : DscsOf(c, d)
          BY <2>1 DEF DiscInv, DscsInv
        <4>2. PICK c \in 1 .. Len(db) : \E d \in 1 .. Len(db[c].chrs) : DscsOf(c, d)
          BY <4>1
        <4>3. PICK d \in 1 .. Len(db[c].chrs) : DscsOf(c, d)
          BY <4>2
        <4>4. DscsOf(c, d)'
          BY <2>1, <4>3 DEF DscsOf, HasDscs
        <4>5. \A i \in 1 .. Len(db') : HasChrs(i)'
          BY <2>1, <4>1 DEF HasChrs
        <4>6. QED
          BY <2>1, <4>1, <4>4, <4>5
      <3>4. QED
        BY <3>1, <3>2, <3>3
    <2>4. FoundInv' /\ SubscribesToSpeedometer' /\ PoolInv'
      BY <2>1 DEF DiscInv, FoundInv, SubscribesToSpeedometer, PoolInv, PoolsAccounted
    <2>5. QED
      BY <2>2, <2>3, <2>4 DEF DiscInv
  <1>13. QED
    BY <1>1, <1>2, <1>3, <1>4, <1>5, <1>6, <1>7, <1>8, <1>9, <1>10, <1>11, <1>12 DEF Next

\* The inductive invariant: which procedure runs, how far the lists have come
\* in the table of the device, what is left to report, and where every block is.
THEOREM DiscoveryInvariant == Spec => []DiscInv
  BY DiscInit, DiscNext, PTL DEF Spec

\* Every variable of the discovery keeps its type, for every device and every
\* size of the pools of peer_init.
THEOREM PeerTypes == Spec => []TypeOK
  <1>1. DiscInv => TypeOK
    <2> SUFFICES ASSUME DiscInv PROVE TypeOK
      OBVIOUS
    <2>1. \A f \in DOMAIN free : free[f] \in Nat
      BY DEF DiscInv, Types
    <2>2. answers \in Seq(BOOLEAN)
      <3>1. answers = <<>> \/ answers = <<TRUE>> \/ answers = <<FALSE>>
        BY DEF DiscInv, Types
      <3>2. \A b \in BOOLEAN : <<b>> \in Seq(BOOLEAN)
        OBVIOUS
      <3>3. QED
        BY <3>1, <3>2, EmptySeq
    <2>3. QED
      BY <2>1, <2>2 DEF DiscInv, Types, TypeOK
  <1>2. QED
    BY <1>1, DiscoveryInvariant, PTL

\* Every block of every pool is either free or in the lists, whatever fails and
\* however often the connection comes and goes.
THEOREM PoolsKept == Spec => []PoolsAccounted
  <1>1. DiscInv => PoolsAccounted
    BY DEF DiscInv, PoolInv
  <1>2. QED
    BY <1>1, DiscoveryInvariant, PTL

\* A discovery that has not answered has a procedure under way whose callback
\* carries it on; one that has answered has none.
THEOREM NotForgotten == Spec => []NeverForgotten
  <1>1. DiscInv => NeverForgotten
    <2> SUFFICES ASSUME DiscInv PROVE NeverForgotten
      OBVIOUS
    <2>1. ASSUME started, answers = <<>> PROVE proc # NoProc /\ peer.disc_prev_chr_val > 0
      BY <2>1 DEF DiscInv, ControlInv, NoProc
    <2>2. ASSUME answers # <<>> PROVE proc = NoProc
      BY <2>2 DEF DiscInv, ControlInv
    <2>3. QED
      BY <2>1, <2>2 DEF NeverForgotten
  <1>2. QED
    BY <1>1, DiscoveryInvariant, PTL

\* The subscription goes to the speedometer's client configuration or nowhere,
\* whatever services the device has and whatever UUIDs they carry.
THEOREM SubscribedRight == Spec => []SubscribesToSpeedometer
  <1>1. DiscInv => SubscribesToSpeedometer
    BY DEF DiscInv
  <1>2. QED
    BY <1>1, DiscoveryInvariant, PTL

-----------------------------------------------------------------------------
(* The refinement: one answer per connection, a good one only with all.    *)

\* The promise holds before the first connection.
LEMMA BeginsIdle == Init => D!Init
  BY DEF Init, D!Init

\* Whatever changes only the answer, from none to one, is a step of the
\* promise: the invariant says what is known with a good answer.
LEMMA AnswerStep ==
  ASSUME DiscInv, DiscInv', UNCHANGED <<db, started>>, answers = <<>> \/ answers' = answers
  PROVE  [D!Next]_(D!vars)
  <1>1. /\ answers \in {<<>>, <<TRUE>>, <<FALSE>>} /\ answers' \in {<<>>, <<TRUE>>, <<FALSE>>}
        /\ started \in BOOLEAN
        /\ ~started => answers = <<>> /\ answers' = <<>>
        /\ answers = <<TRUE>> => peer.svcs = db
        /\ answers' = <<TRUE>> => peer'.svcs = db
    BY DEF DiscInv, Types, ControlInv, FoundInv
  <1>2. <<TRUE>> # <<FALSE>> /\ <<TRUE>> # <<>> /\ <<FALSE>> # <<>>
    OBVIOUS
  <1>3. CASE answers' = answers
    BY <1>1, <1>3 DEF D!vars
  <1>4. CASE answers = <<>> /\ answers' = <<TRUE>>
    BY <1>1, <1>2, <1>4 DEF D!Next, D!Find
  <1>5. CASE answers = <<>> /\ answers' = <<FALSE>>
    BY <1>1, <1>2, <1>5 DEF D!Next, D!GiveUp
  <1>6. QED
    BY <1>1, <1>3, <1>4, <1>5

\* A connection that begins.
LEMMA BeginStep ==
  ASSUME DiscInv, DiscInv', NEW d \in Databases, ConnectEvent(d)
  PROVE  [D!Next]_(D!vars)
  <1>1. /\ link = "down" /\ db' = d /\ answers' = answers
    BY DEF ConnectEvent
  <1>2. db = Nothing /\ ~started /\ answers = <<>> /\ started' \in BOOLEAN
    BY <1>1 DEF DiscInv, ControlInv, Types
  <1>3. D!Begin(d)
    BY <1>1, <1>2 DEF D!Begin
  <1>4. QED
    BY <1>3 DEF D!Next

\* A connection that ends.
LEMMA EndStep ==
  ASSUME DiscInv, DisconnectEvent
  PROVE  [D!Next]_(D!vars)
  <1>1. link = "broken" /\ db' = Nothing /\ ~started' /\ answers' = <<>>
    BY DEF DisconnectEvent
  <1>2. db # Nothing /\ ~(started /\ answers = <<>>)
    BY <1>1 DEF DiscInv, ControlInv
  <1>3. D!End
    BY <1>1, <1>2 DEF D!End
  <1>4. QED
    BY <1>3 DEF D!Next

\* No other step touches what is connected, or answers twice.
LEMMA OneAnswer ==
  ASSUME DiscInv,
         \/ Respond \/ SvcDisced \/ ChrDisced \/ DscDisced
         \/ SvcsDone \/ ChrsDone \/ DscsDone \/ ProcFails \/ LinkBreaks
  PROVE  UNCHANGED <<db, started>> /\ (answers = <<>> \/ answers' = answers)
  <1>1. proc.op # "none" => answers = <<>>
    BY DEF DiscInv, ControlInv
  <1>2. proc # NoProc => answers = <<>>
    BY DEF DiscInv, ControlInv
  <1>3. CASE Respond
    BY <1>2, <1>3 DEF Respond
  <1>4. CASE SvcDisced
    BY <1>1, <1>4 DEF SvcDisced, Callback
  <1>5. CASE ChrDisced
    BY <1>1, <1>5 DEF ChrDisced, Callback
  <1>6. CASE DscDisced
    BY <1>1, <1>6, Zenon DEF DscDisced, Callback
  <1>7. CASE SvcsDone
    BY <1>1, <1>7 DEF SvcsDone, Done, Callback
  <1>8. CASE ChrsDone
    BY <1>1, <1>8 DEF ChrsDone, Done, Callback
  <1>9. CASE DscsDone
    BY <1>1, <1>9 DEF DscsDone, Done, Callback
  <1>10. CASE ProcFails
    BY <1>2, <1>10 DEF ProcFails
  <1>11. CASE LinkBreaks
    BY <1>2, <1>11 DEF LinkBreaks
  <1>12. QED
    BY <1>3, <1>4, <1>5, <1>6, <1>7, <1>8, <1>9, <1>10, <1>11

\* Every step is a step of the promise or leaves it alone.
LEMMA DiscoveryStep ==
  DiscInv /\ DiscInv' /\ [Next]_vars => [D!Next]_(D!vars)
  <1> SUFFICES ASSUME DiscInv, DiscInv', [Next]_vars PROVE [D!Next]_(D!vars)
    OBVIOUS
  <1>1. ASSUME NEW d \in Databases, ConnectEvent(d) PROVE [D!Next]_(D!vars)
    BY <1>1, BeginStep
  <1>2. CASE \/ Respond \/ SvcDisced \/ ChrDisced \/ DscDisced
             \/ SvcsDone \/ ChrsDone \/ DscsDone \/ ProcFails \/ LinkBreaks
    BY <1>2, OneAnswer, AnswerStep
  <1>3. CASE DisconnectEvent
    BY <1>3, EndStep
  <1>4. CASE UNCHANGED vars
    BY <1>4, AnswerStep DEF vars
  <1>5. QED
    BY <1>1, <1>2, <1>3, <1>4 DEF Next

\* peer_disc_all keeps its promise: one answer per connection, a good one only
\* with the lists complete, and none after the connection is gone.
THEOREM DiscoveryImplemented == Spec => ImplementsDiscovery
  BY BeginsIdle, DiscoveryStep, DiscoveryInvariant, PTL
     DEF Spec, ImplementsDiscovery, D!Spec
=============================================================================
