-------------------------- MODULE BoardFeedsProofs --------------------------
(***************************************************************************)
(* Proofs about BoardFeeds, for any number of rows, changes and requests.  *)
(*                                                                         *)
(*   1. Lists: what a list still tells of each row when a card is put in   *)
(*      front, replaced, sorted in or taken away.                          *)
(*   2. StepKinds: the steps, by what they do to the lists, not by the     *)
(*      page or the stream they belong to.                                 *)
(*   3. InStep: the stamps, the log, the requests, the versions that are   *)
(*      held anywhere and the stream agree with each other.                *)
(*   4. ListsInStep, the inductive invariant of the cards of a row, the    *)
(*      order of the chat and the moves (UniqueCards, ChatInOrder,         *)
(*      MovesSettle).                                                      *)
(*   5. CompleteInStep, relative to it: until one of the races happens,    *)
(*      each change that an event tells, or that needs none, is shown, on  *)
(*      its way, ahead of the stream or left out by a limit (NothingLost). *)
(***************************************************************************)
EXTENDS BoardFeeds, WellFoundedInduction, FiniteSetTheorems, TLAPS
-----------------------------------------------------------------------------
(* Numbers, lists and orders.                                               *)

\* A nonempty set of numbers has a least element.
LEMMA LeastExists ==
  ASSUME NEW S \in SUBSET Nat, S # {}
  PROVE  \E x \in S : \A y \in S : x <= y
<1>1. PICK x \in S : \A y \in S : ~ (<<y, x>> \in OpToRel(<, Nat))
  BY NatLessThanWellFounded, WFMin
<1>2. ASSUME NEW y \in S PROVE x <= y
  <2>1. ~ (<<y, x>> \in OpToRel(<, Nat))
    BY <1>1
  <2>2. <<y, x>> \in Nat \X Nat
    OBVIOUS
  <2>3. ~ (y < x)
    BY <2>1, <2>2 DEF OpToRel
  <2>4. QED BY <2>3
<1>3. QED BY <1>2

\* The place that Least chooses: in the set, and before every other.
LEMMA LeastFacts ==
  ASSUME NEW S \in SUBSET Nat, S # {}
  PROVE  Least(S) \in S /\ \A k \in S : Least(S) <= k
BY LeastExists DEF Least

\* The latest of a set of stamps is one of them, and none is later.
LEMMA LatestFacts ==
  ASSUME NEW N \in Nat, NEW S \in SUBSET (0..N)
  PROVE  /\ Latest(S) \in 0..N
         /\ S # {} => Latest(S) \in S
         /\ S = {} => Latest(S) = 0
         /\ \A u \in S : u <= Latest(S)
<1>1. CASE S = {}
  BY <1>1 DEF Latest
<1>2. CASE S # {}
  <2> DEFINE T == {N - t : t \in S}
  <2>1. T \in SUBSET Nat /\ T # {}
    <3>1. \A t \in S : t \in 0..N /\ N - t \in Nat
      OBVIOUS
    <3>2. QED BY <1>2, <3>1
  <2>2. PICK x \in T : \A y \in T : x <= y
    BY <2>1, LeastExists
  <2>3. PICK t \in S : x = N - t
    BY <2>2
  <2>4. \A u \in S : u <= t
    BY <2>2, <2>3
  <2>5. QED BY <1>2, <2>4 DEF Latest
<1>3. QED BY <1>1, <1>2

\* A function on 1..n is a sequence.
LEMMA FunctionIsList ==
  ASSUME NEW S, NEW n \in Nat, NEW f \in [1..n -> S]
  PROVE  f \in Seq(S) /\ Len(f) = n /\ DOMAIN f = 1..n
OBVIOUS

\* A sequence, its domain and its elements.
LEMMA ListFacts ==
  ASSUME NEW S, NEW s \in Seq(S)
  PROVE  /\ Len(s) \in Nat /\ DOMAIN s = 1..Len(s) /\ s \in [1..Len(s) -> S]
         /\ \A n \in DOMAIN s : n \in Nat /\ s[n] \in S
OBVIOUS

\* What is left after the first element has been read.
LEMMA TailFacts ==
  ASSUME NEW S, NEW s \in Seq(S), s # <<>>
  PROVE  /\ Head(s) \in S /\ Head(s) = s[1] /\ 1 \in DOMAIN s
         /\ Tail(s) \in Seq(S)
         /\ \A n \in DOMAIN Tail(s) : n + 1 \in DOMAIN s /\ Tail(s)[n] = s[n + 1]
         /\ \A n \in DOMAIN s : n # 1 => n - 1 \in DOMAIN Tail(s) /\ Tail(s)[n - 1] = s[n]
OBVIOUS

\* An order of a finite set without repetition names each of its elements.
LEMMA OrderIsOnto ==
  ASSUME NEW S, IsFiniteSet(S), NEW order \in [1..Cardinality(S) -> S],
         \A n, k \in DOMAIN order : n < k => order[n] # order[k]
  PROVE  /\ Cardinality(S) \in Nat /\ DOMAIN order = 1..Cardinality(S)
         /\ \A n, k \in DOMAIN order : order[n] = order[k] => n = k
         /\ \A x \in S : \E n \in DOMAIN order : order[n] = x
<1> DEFINE N == Cardinality(S)
<1>1. N \in Nat
  BY FS_CardinalityType
<1>2. IsFiniteSet(1..N) /\ Cardinality(1..N) = N
  BY <1>1, FS_Interval
<1>3. DOMAIN order = 1..N
  OBVIOUS
<1>4. \A n, k \in 1..N : order[n] = order[k] => n = k
  <2>1. \A n, k \in 1..N : n < k \/ k < n \/ n = k
    BY <1>1
  <2>2. QED BY <1>3, <2>1
<1>5. order \in Injection(1..N, S)
  BY <1>4 DEF Injection, IsInjective
<1>6. order \in Surjection(1..N, S)
  BY <1>2, <1>5, FS_Injection
<1>7. \A x \in S : \E n \in 1..N : order[n] = x
  BY <1>6 DEF Surjection
<1>8. QED BY <1>1, <1>3, <1>4, <1>7

\* The elements of a finite set of numbers, each once and in their order.
LEMMA AscendingFacts ==
  ASSUME NEW S \in SUBSET Nat, IsFiniteSet(S), NEW order \in Ascending(S)
  PROVE  /\ Cardinality(S) \in Nat
         /\ order \in [1..Cardinality(S) -> S] /\ DOMAIN order = 1..Cardinality(S)
         /\ \A n, k \in DOMAIN order : n < k => order[n] < order[k]
         /\ \A n, k \in DOMAIN order : order[n] = order[k] => n = k
         /\ \A x \in S : \E n \in DOMAIN order : order[n] = x
<1>1. /\ order \in [1..Cardinality(S) -> S]
      /\ \A n, k \in DOMAIN order : n < k => order[n] < order[k]
  BY DEF Ascending
<1>2. \A n, k \in DOMAIN order : n < k => order[n] # order[k]
  <2>1. \A n \in DOMAIN order : order[n] \in Nat
    BY <1>1
  <2>2. QED BY <1>1, <2>1
<1>3. QED BY <1>1, <1>2, OrderIsOnto

-----------------------------------------------------------------------------
(* What a list says of a row, whatever the state of the page.               *)

(* It has a card, or its first card of the row, with that stamp.            *)
Tells(cards, i, t) == \E n \in DOMAIN cards : cards[n].id = i /\ cards[n].at = t
Heads(cards, i, t) ==
  \E n \in DOMAIN cards :
    /\ cards[n].id = i /\ cards[n].at = t
    /\ \A k \in DOMAIN cards : cards[k].id = i => n <= k

(* The cards of one row.                                                    *)
AtMostOne(cards, i) ==
  \A n, k \in DOMAIN cards : cards[n].id = i /\ cards[k].id = i => n = k
AtMostTwo(cards, i) ==
  \A n, k, m \in DOMAIN cards :
    cards[n].id = i /\ cards[k].id = i /\ cards[m].id = i => n = k \/ k = m \/ n = m
Distinct(cards) == \A n, k \in DOMAIN cards : n # k => cards[n] # cards[k]
Ordered(cards) == \A n, k \in DOMAIN cards : n < k => cards[n].at <= cards[k].at

\* A card made from a row the server has sent shows no status of the page's own.
LEMMA PutFacts ==
  ASSUME NEW i \in Item, NEW t \in Stamp
  PROVE  /\ Put(i, t) \in Card
         /\ Put(i, t).id = i /\ Put(i, t).at = t /\ ~Put(i, t).mine /\ ~Put(i, t).again
BY DEF Put, Card

\* The cards of a list have a row and a stamp.
LEMMA CardFacts ==
  ASSUME NEW s \in Seq(Card)
  PROVE  /\ Len(s) \in Nat /\ DOMAIN s = 1..Len(s)
         /\ \A n \in DOMAIN s : /\ n \in Nat /\ s[n] \in Card
                                /\ s[n].id \in Item /\ s[n].at \in Stamp /\ s[n].at \in Nat
<1>1. /\ Len(s) \in Nat /\ DOMAIN s = 1..Len(s)
      /\ \A n \in DOMAIN s : n \in Nat /\ s[n] \in Card
  BY ListFacts
<1>2. \A c \in Card : c.id \in Item /\ c.at \in Stamp
  BY DEF Card
<1>3. \A t \in Stamp : t \in Nat
  BY FeedsAssumption DEF Stamp
<1>4. QED BY <1>1, <1>2, <1>3

\* Where a card that is sorted into a list comes to stand.
LEMMA SortedFacts ==
  ASSUME NEW cards \in Seq(Card), NEW new \in Card
  PROVE  \E place \in 1..(Len(cards) + 1) :
           /\ Sorted(cards, new) \in Seq(Card)
           /\ DOMAIN Sorted(cards, new) = 1..(Len(cards) + 1)
           /\ Sorted(cards, new)[place] = new
           /\ \A n \in 1..(Len(cards) + 1) :
                /\ n < place => /\ n \in DOMAIN cards /\ Sorted(cards, new)[n] = cards[n]
                                /\ cards[n].at <= new.at
                /\ n > place => n - 1 \in DOMAIN cards /\ Sorted(cards, new)[n] = cards[n - 1]
           /\ place \in DOMAIN cards => cards[place].at > new.at
<1> DEFINE N == Len(cards)
           S == {n \in 1..(N + 1) : n \in DOMAIN cards => cards[n].at > new.at}
           place == Least(S)
           s == [n \in 1..(N + 1) |->
                   IF n < place THEN cards[n] ELSE IF n = place THEN new ELSE cards[n - 1]]
<1>1. N \in Nat /\ DOMAIN cards = 1..N
      /\ \A n \in DOMAIN cards : n \in Nat /\ cards[n] \in Card /\ cards[n].at \in Nat
  BY CardFacts
<1>2. new.at \in Nat
  BY FeedsAssumption DEF Card, Stamp
<1>3. S \in SUBSET Nat /\ N + 1 \in S
  BY <1>1
<1>4. place \in S /\ \A k \in S : place <= k
  BY <1>3, LeastFacts
<1>5. Sorted(cards, new) = s
  BY DEF Sorted
<1> HIDE DEF place
<1>6. place \in 1..(N + 1) /\ (place \in DOMAIN cards => cards[place].at > new.at)
  BY <1>4
<1>7. \A n \in 1..(N + 1) : n < place => n \in DOMAIN cards /\ cards[n].at <= new.at
  <2>1. \A n \in 1..(N + 1) : n < place => n \notin S
    BY <1>1, <1>4, <1>6
  <2>2. QED BY <1>1, <1>2, <2>1
<1> HIDE DEF S
<1>8. \A n \in 1..(N + 1) : n > place => n - 1 \in DOMAIN cards
  BY <1>1, <1>6
<1>9. \A n \in 1..(N + 1) : s[n] \in Card
  BY <1>1, <1>6, <1>7, <1>8
<1>10. s \in [1..(N + 1) -> Card]
  BY <1>9
<1>11. N + 1 \in Nat
  BY <1>1
<1>12. s \in Seq(Card) /\ DOMAIN s = 1..(N + 1)
  BY <1>10, <1>11, FunctionIsList
<1>13. \A n \in 1..(N + 1) : (n < place => s[n] = cards[n]) /\ (n > place => s[n] = cards[n - 1])
  BY <1>1, <1>6
<1>14. s[place] = new
  BY <1>6
<1> HIDE DEF s
<1>15. QED BY <1>5, <1>6, <1>7, <1>8, <1>12, <1>13, <1>14

\* Sorting a card in keeps the others, the order, and the uniqueness of the others.
LEMMA SortedKeeps ==
  ASSUME NEW cards \in Seq(Card), NEW new \in Card
  PROVE  /\ Sorted(cards, new) \in Seq(Card)
         /\ \E n \in DOMAIN Sorted(cards, new) : Sorted(cards, new)[n] = new
         /\ \A n \in DOMAIN cards :
              \E k \in DOMAIN Sorted(cards, new) : Sorted(cards, new)[k] = cards[n]
         /\ \A k \in DOMAIN Sorted(cards, new) :
              \/ Sorted(cards, new)[k] = new
              \/ \E n \in DOMAIN cards : Sorted(cards, new)[k] = cards[n]
         /\ Ordered(cards) => Ordered(Sorted(cards, new))
         /\ Distinct(cards) /\ (\A n \in DOMAIN cards : cards[n] # new) =>
              Distinct(Sorted(cards, new))
         /\ \A i : AtMostOne(cards, i) /\ (new.id = i => \A n \in DOMAIN cards : cards[n].id # i)
              => AtMostOne(Sorted(cards, new), i)
<1> DEFINE s == Sorted(cards, new)
           N == Len(cards)
<1>1. /\ N \in Nat /\ DOMAIN cards = 1..N
      /\ \A n \in DOMAIN cards : n \in Nat /\ cards[n].at \in Nat
  BY CardFacts
<1>2. new.at \in Nat
  BY FeedsAssumption DEF Card, Stamp
<1>3. PICK place \in 1..(N + 1) :
           /\ s \in Seq(Card) /\ DOMAIN s = 1..(N + 1) /\ s[place] = new
           /\ \A n \in 1..(N + 1) :
                /\ n < place => n \in DOMAIN cards /\ s[n] = cards[n] /\ cards[n].at <= new.at
                /\ n > place => n - 1 \in DOMAIN cards /\ s[n] = cards[n - 1]
           /\ place \in DOMAIN cards => cards[place].at > new.at
  BY SortedFacts
<1> HIDE DEF s
<1>4. \A n \in DOMAIN cards : \E k \in DOMAIN s : s[k] = cards[n]
  <2>1. ASSUME NEW n \in DOMAIN cards PROVE \E k \in DOMAIN s : s[k] = cards[n]
    <3>1. CASE n < place
      <4>1. n \in DOMAIN s
        BY <1>1, <1>3
      <4>2. QED BY <1>3, <3>1, <4>1
    <3>2. CASE ~(n < place)
      <4>1. n + 1 \in DOMAIN s /\ n + 1 > place /\ (n + 1) - 1 = n
        BY <1>1, <1>3, <3>2
      <4>2. QED BY <1>3, <4>1
    <3>3. QED BY <3>1, <3>2
  <2>2. QED BY <2>1
<1>5. \A k \in DOMAIN s : s[k] = new \/ \E n \in DOMAIN cards : s[k] = cards[n]
  <2>1. \A k \in DOMAIN s : k < place \/ k = place \/ k > place
    BY <1>1, <1>3
  <2>2. QED BY <1>3, <2>1
<1>6. ASSUME Ordered(cards) PROVE Ordered(s)
  <2>1. ASSUME NEW n \in DOMAIN s, NEW k \in DOMAIN s, n < k PROVE s[n].at <= s[k].at
    <3>1. CASE k < place
      BY <1>1, <1>3, <1>6, <2>1, <3>1 DEF Ordered
    <3>2. CASE k = place
      BY <1>1, <1>3, <2>1, <3>2
    <3>3. CASE n = place
      <4>1. place \in DOMAIN cards /\ k - 1 \in DOMAIN cards /\ s[k] = cards[k - 1]
            /\ (k - 1 = place \/ place < k - 1)
        BY <1>1, <1>3, <2>1, <3>3
      <4>2. cards[place].at <= cards[k - 1].at
        BY <1>1, <1>6, <4>1 DEF Ordered
      <4>3. QED BY <1>1, <1>2, <1>3, <3>3, <4>1, <4>2
    <3>4. CASE n < place /\ k > place
      <4>1. /\ n \in DOMAIN cards /\ s[n] = cards[n] /\ k - 1 \in DOMAIN cards
            /\ s[k] = cards[k - 1] /\ n < place /\ place <= k - 1
        BY <1>1, <1>3, <2>1, <3>4
      <4>2. n < k - 1
        BY <1>1, <1>3, <4>1
      <4>3. QED BY <1>6, <4>1, <4>2 DEF Ordered
    <3>5. CASE n > place
      <4>1. /\ n - 1 \in DOMAIN cards /\ s[n] = cards[n - 1] /\ k - 1 \in DOMAIN cards
            /\ s[k] = cards[k - 1] /\ n - 1 < k - 1
        BY <1>1, <1>3, <2>1, <3>5
      <4>2. QED BY <1>6, <4>1 DEF Ordered
    <3>6. QED BY <1>1, <1>3, <2>1, <3>1, <3>2, <3>3, <3>4, <3>5
  <2>2. QED BY <2>1 DEF Ordered
<1>7. ASSUME Distinct(cards), \A n \in DOMAIN cards : cards[n] # new PROVE Distinct(s)
  <2>1. ASSUME NEW n \in DOMAIN s, NEW k \in DOMAIN s, n < k PROVE s[n] # s[k]
    <3>1. CASE k < place
      BY <1>1, <1>3, <1>7, <2>1, <3>1 DEF Distinct
    <3>2. CASE k = place
      BY <1>1, <1>3, <1>7, <2>1, <3>2
    <3>3. CASE n = place
      BY <1>1, <1>3, <1>7, <2>1, <3>3
    <3>4. CASE n < place /\ k > place
      <4>1. /\ n \in DOMAIN cards /\ s[n] = cards[n] /\ k - 1 \in DOMAIN cards
            /\ s[k] = cards[k - 1] /\ n # k - 1
        BY <1>1, <1>3, <2>1, <3>4
      <4>2. QED BY <1>7, <4>1 DEF Distinct
    <3>5. CASE n > place
      <4>1. /\ n - 1 \in DOMAIN cards /\ s[n] = cards[n - 1] /\ k - 1 \in DOMAIN cards
            /\ s[k] = cards[k - 1] /\ n - 1 # k - 1
        BY <1>1, <1>3, <2>1, <3>5
      <4>2. QED BY <1>7, <4>1 DEF Distinct
    <3>6. QED BY <1>1, <1>3, <2>1, <3>1, <3>2, <3>3, <3>4, <3>5
  <2>2. \A n, k \in DOMAIN s : n # k => n < k \/ k < n
    BY <1>1, <1>3
  <2>3. QED BY <2>1, <2>2 DEF Distinct
<1>8. ASSUME NEW i, AtMostOne(cards, i), new.id = i => \A n \in DOMAIN cards : cards[n].id # i
      PROVE  AtMostOne(s, i)
  <2>1. ASSUME NEW n \in DOMAIN s, NEW k \in DOMAIN s, n < k, s[n].id = i, s[k].id = i
        PROVE  FALSE
    <3>1. CASE k < place
      BY <1>1, <1>3, <1>8, <2>1, <3>1 DEF AtMostOne
    <3>2. CASE k = place
      BY <1>1, <1>3, <1>8, <2>1, <3>2
    <3>3. CASE n = place
      BY <1>1, <1>3, <1>8, <2>1, <3>3
    <3>4. CASE n < place /\ k > place
      <4>1. /\ n \in DOMAIN cards /\ s[n] = cards[n] /\ k - 1 \in DOMAIN cards
            /\ s[k] = cards[k - 1] /\ n # k - 1
        BY <1>1, <1>3, <2>1, <3>4
      <4>2. QED BY <1>8, <2>1, <4>1 DEF AtMostOne
    <3>5. CASE n > place
      <4>1. /\ n - 1 \in DOMAIN cards /\ s[n] = cards[n - 1] /\ k - 1 \in DOMAIN cards
            /\ s[k] = cards[k - 1] /\ n - 1 # k - 1
        BY <1>1, <1>3, <2>1, <3>5
      <4>2. QED BY <1>8, <2>1, <4>1 DEF AtMostOne
    <3>6. QED BY <1>1, <1>3, <2>1, <3>1, <3>2, <3>3, <3>4, <3>5
  <2>2. \A n, k \in DOMAIN s : n # k => n < k \/ k < n
    BY <1>1, <1>3
  <2>3. QED BY <2>1, <2>2 DEF AtMostOne
<1>9. QED BY <1>3, <1>4, <1>5, <1>6, <1>7, <1>8 DEF s

\* A card put in front of a list.
LEMMA PrependFacts ==
  ASSUME NEW cards \in Seq(Card), NEW new \in Card
  PROVE  /\ <<new>> \o cards \in Seq(Card)
         /\ DOMAIN (<<new>> \o cards) = 1..(Len(cards) + 1)
         /\ (<<new>> \o cards)[1] = new
         /\ \A n \in DOMAIN cards :
              n + 1 \in DOMAIN (<<new>> \o cards) /\ (<<new>> \o cards)[n + 1] = cards[n]
         /\ \A n \in DOMAIN (<<new>> \o cards) :
              n # 1 => n - 1 \in DOMAIN cards /\ (<<new>> \o cards)[n] = cards[n - 1]
<1>1. Len(cards) \in Nat /\ DOMAIN cards = 1..Len(cards)
  BY ListFacts
<1>2. <<new>> \in Seq(Card) /\ Len(<<new>>) = 1 /\ <<new>>[1] = new
  OBVIOUS
<1>3. <<new>> \o cards \in Seq(Card) /\ Len(<<new>> \o cards) = Len(cards) + 1
  BY <1>2
<1>4. \A n \in 1..(Len(cards) + 1) :
        (<<new>> \o cards)[n] = IF n <= 1 THEN <<new>>[n] ELSE cards[n - 1]
  BY <1>2
<1>5. QED BY <1>1, <1>2, <1>3, <1>4

\* A card put in front heads its row and changes no other; the row may then
\* have one card more than before.
LEMMA PrependKeeps ==
  ASSUME NEW cards \in Seq(Card), NEW new \in Card
  PROVE  /\ Heads(<<new>> \o cards, new.id, new.at)
         /\ \A j \in Item : \A u : j # new.id /\ Heads(cards, j, u) => Heads(<<new>> \o cards, j, u)
         /\ \A j : /\ AtMostOne(cards, j) /\ (new.id = j => \A n \in DOMAIN cards : cards[n].id # j)
                     => AtMostOne(<<new>> \o cards, j)
                   /\ AtMostOne(cards, j) => AtMostTwo(<<new>> \o cards, j)
                   /\ AtMostTwo(cards, j) /\ new.id # j => AtMostTwo(<<new>> \o cards, j)
<1> DEFINE s == <<new>> \o cards
<1>1. /\ s \in Seq(Card) /\ DOMAIN s = 1..(Len(cards) + 1) /\ s[1] = new
      /\ \A n \in DOMAIN cards : n + 1 \in DOMAIN s /\ s[n + 1] = cards[n]
      /\ \A n \in DOMAIN s : n # 1 => n - 1 \in DOMAIN cards /\ s[n] = cards[n - 1]
  BY PrependFacts
<1>2. Len(cards) \in Nat /\ DOMAIN cards = 1..Len(cards)
  BY CardFacts
<1> HIDE DEF s
<1>3. Heads(s, new.id, new.at)
  <2>1. 1 \in DOMAIN s /\ \A k \in DOMAIN s : 1 <= k
    BY <1>1, <1>2
  <2>2. QED BY <1>1, <2>1 DEF Heads
<1>4. ASSUME NEW j \in Item, NEW u, j # new.id, Heads(cards, j, u) PROVE Heads(s, j, u)
  <2>1. PICK n \in DOMAIN cards :
          /\ cards[n].id = j /\ cards[n].at = u
          /\ \A k \in DOMAIN cards : cards[k].id = j => n <= k
    BY <1>4 DEF Heads
  <2>2. \A k \in DOMAIN s : s[k].id = j => n + 1 <= k
    <3>1. ASSUME NEW k \in DOMAIN s, s[k].id = j PROVE n + 1 <= k
      <4>1. k # 1 /\ k - 1 \in DOMAIN cards /\ cards[k - 1].id = j
        BY <1>1, <1>4, <3>1
      <4>2. n <= k - 1
        BY <2>1, <4>1
      <4>3. QED BY <1>1, <1>2, <4>2
    <3>2. QED BY <3>1
  <2>3. QED BY <1>1, <2>1, <2>2 DEF Heads
<1>5. ASSUME NEW j PROVE AtMostTwo(cards, j) /\ new.id # j => AtMostTwo(s, j)
  <2>1. ASSUME AtMostTwo(cards, j), new.id # j,
               NEW n \in DOMAIN s, NEW k \in DOMAIN s, NEW m \in DOMAIN s,
               s[n].id = j, s[k].id = j, s[m].id = j
        PROVE  n = k \/ k = m \/ n = m
    <3>1. n # 1 /\ k # 1 /\ m # 1
      BY <1>1, <2>1
    <3>2. n - 1 \in DOMAIN cards /\ k - 1 \in DOMAIN cards /\ m - 1 \in DOMAIN cards
          /\ cards[n - 1].id = j /\ cards[k - 1].id = j /\ cards[m - 1].id = j
      BY <1>1, <2>1, <3>1
    <3>3. n - 1 = k - 1 \/ k - 1 = m - 1 \/ n - 1 = m - 1
      BY <2>1, <3>2 DEF AtMostTwo
    <3>4. QED BY <1>1, <1>2, <3>3
  <2>2. QED BY <2>1 DEF AtMostTwo
<1>6. ASSUME NEW j PROVE AtMostOne(cards, j) => AtMostTwo(s, j)
  <2>1. ASSUME AtMostOne(cards, j),
               NEW n \in DOMAIN s, NEW k \in DOMAIN s, s[n].id = j, s[k].id = j, n # 1, k # 1
        PROVE  n = k
    <3>1. n - 1 \in DOMAIN cards /\ k - 1 \in DOMAIN cards
          /\ cards[n - 1].id = j /\ cards[k - 1].id = j
      BY <1>1, <2>1
    <3>2. n - 1 = k - 1
      BY <2>1, <3>1 DEF AtMostOne
    <3>3. QED BY <1>1, <1>2, <3>2
  <2>2. QED BY <2>1 DEF AtMostTwo
<1>7. ASSUME NEW j, AtMostOne(cards, j), new.id = j => \A n \in DOMAIN cards : cards[n].id # j
      PROVE  AtMostOne(s, j)
  <2>1. ASSUME NEW n \in DOMAIN s, NEW k \in DOMAIN s, s[n].id = j, s[k].id = j
        PROVE  n = k
    <3>1. CASE new.id = j
      <4>1. n = 1 /\ k = 1
        BY <1>1, <1>7, <2>1, <3>1
      <4>2. QED BY <4>1
    <3>2. CASE new.id # j
      <4>1. /\ n - 1 \in DOMAIN cards /\ k - 1 \in DOMAIN cards
            /\ cards[n - 1].id = j /\ cards[k - 1].id = j
        BY <1>1, <2>1, <3>2
      <4>2. n - 1 = k - 1
        BY <1>7, <4>1 DEF AtMostOne
      <4>3. QED BY <1>1, <1>2, <4>2
    <3>3. QED BY <3>1, <3>2
  <2>2. QED BY <2>1 DEF AtMostOne
<1>8. QED BY <1>3, <1>4, <1>5, <1>6, <1>7 DEF s

\* The first card of a row that is shown.
LEMMA FirstCard ==
  ASSUME list \in Seq(Card), NEW i \in Shown
  PROVE  /\ Least(Copies(i)) \in DOMAIN list /\ list[Least(Copies(i))].id = i
         /\ \A k \in DOMAIN list : list[k].id = i => Least(Copies(i)) <= k
<1>1. Copies(i) \in SUBSET Nat /\ Copies(i) # {}
  BY CardFacts DEF Copies, Shown
<1>2. Least(Copies(i)) \in Copies(i) /\ \A k \in Copies(i) : Least(Copies(i)) <= k
  BY <1>1, LeastFacts
<1>3. QED BY <1>2 DEF Copies

\* The list without and with a status of its own, card by card.
SameRows(cards, s) ==
  DOMAIN s = DOMAIN cards /\ \A n \in DOMAIN cards : s[n].id = cards[n].id

\* Lists that agree on the rows of their cards agree on how many a row has.
LEMMA SameRowsKeeps ==
  ASSUME NEW cards, NEW s, SameRows(cards, s)
  PROVE  \A j : /\ AtMostOne(cards, j) => AtMostOne(s, j)
                /\ AtMostTwo(cards, j) => AtMostTwo(s, j)
                /\ (\E n \in DOMAIN cards : cards[n].id = j) =>
                     \E n \in DOMAIN s : s[n].id = j
BY DEF SameRows, AtMostOne, AtMostTwo

\* A card replaced in place, or put in front.
LEMMA UpsertKeeps ==
  ASSUME list \in Seq(Card), NEW i \in Item, NEW t \in Stamp
  PROVE  /\ Upsert(i, t) \in Seq(Card)
         /\ Heads(Upsert(i, t), i, t)
         /\ \A j \in Item : \A u : j # i /\ Heads(list, j, u) => Heads(Upsert(i, t), j, u)
         /\ \A n \in DOMAIN Upsert(i, t) :
              \/ Upsert(i, t)[n] = Put(i, t)
              \/ \E k \in DOMAIN list : Upsert(i, t)[n] = list[k]
         /\ \A j : /\ AtMostOne(list, j) => AtMostOne(Upsert(i, t), j)
                   /\ AtMostTwo(list, j) => AtMostTwo(Upsert(i, t), j)
         /\ \A j \in Shown : \E n \in DOMAIN Upsert(i, t) : Upsert(i, t)[n].id = j
<1> DEFINE s == Upsert(i, t)
<1>1. /\ Len(list) \in Nat /\ DOMAIN list = 1..Len(list)
      /\ \A n \in DOMAIN list : n \in Nat /\ list[n] \in Card
  BY CardFacts
<1>2. Put(i, t) \in Card /\ Put(i, t).id = i /\ Put(i, t).at = t
  BY PutFacts
<1>3. CASE i \in Shown
  <2> DEFINE p == Least(Copies(i))
  <2>1. /\ p \in DOMAIN list /\ list[p].id = i
        /\ \A k \in DOMAIN list : list[k].id = i => p <= k
    BY <1>3, FirstCard
  <2>2. s = [list EXCEPT ![p] = Put(i, t)]
    BY <1>3 DEF Upsert
  <2> HIDE DEF p, s
  <2>3. /\ s \in Seq(Card) /\ DOMAIN s = DOMAIN list /\ s[p] = Put(i, t)
        /\ \A n \in DOMAIN list : n # p => s[n] = list[n]
    BY <1>1, <1>2, <2>1, <2>2
  <2>4. SameRows(list, s)
    BY <1>2, <2>1, <2>3 DEF SameRows
  <2>5. Heads(s, i, t)
    BY <1>2, <2>1, <2>3, <2>4 DEF Heads, SameRows
  <2>6. \A j \in Item : \A u : j # i /\ Heads(list, j, u) => Heads(s, j, u)
    <3>1. ASSUME NEW j \in Item, NEW u, j # i, Heads(list, j, u) PROVE Heads(s, j, u)
      <4>1. PICK n \in DOMAIN list :
              /\ list[n].id = j /\ list[n].at = u
              /\ \A k \in DOMAIN list : list[k].id = j => n <= k
        BY <3>1 DEF Heads
      <4>2. n # p
        BY <2>1, <3>1, <4>1
      <4>3. n \in DOMAIN s /\ s[n].id = j /\ s[n].at = u
        BY <2>3, <4>1, <4>2
      <4>4. \A k \in DOMAIN s : s[k].id = j => n <= k
        BY <2>4, <4>1 DEF SameRows
      <4>5. QED BY <4>3, <4>4 DEF Heads
    <3>2. QED BY <3>1
  <2>a. SameRows(list, s)
    BY <2>4
  <2>7. \A j : /\ AtMostOne(list, j) => AtMostOne(s, j)
               /\ AtMostTwo(list, j) => AtMostTwo(s, j)
               /\ (\E n \in DOMAIN list : list[n].id = j) => \E n \in DOMAIN s : s[n].id = j
    <3>1. ASSUME NEW j
          PROVE  /\ AtMostOne(list, j) => AtMostOne(s, j)
                 /\ AtMostTwo(list, j) => AtMostTwo(s, j)
                 /\ (\E n \in DOMAIN list : list[n].id = j) => \E n \in DOMAIN s : s[n].id = j
      BY <2>a, SameRowsKeeps, SMTT(90)
    <3>2. QED BY <3>1
  <2>8. \A j \in Shown : \E n \in DOMAIN s : s[n].id = j
    BY <2>7 DEF Shown
  <2>9. QED BY <2>3, <2>5, <2>6, <2>7, <2>8 DEF s
<1>4. CASE i \notin Shown
  <2>1. s = <<Put(i, t)>> \o list
    BY <1>4 DEF Upsert
  <2> HIDE DEF s
  <2>2. /\ s \in Seq(Card) /\ DOMAIN s = 1..(Len(list) + 1) /\ s[1] = Put(i, t)
        /\ \A n \in DOMAIN list : n + 1 \in DOMAIN s /\ s[n + 1] = list[n]
        /\ \A n \in DOMAIN s : n # 1 => n - 1 \in DOMAIN list /\ s[n] = list[n - 1]
    BY <1>2, <2>1, PrependFacts
  <2>3. /\ Heads(s, i, t)
        /\ \A j \in Item : \A u : j # i /\ Heads(list, j, u) => Heads(s, j, u)
        /\ \A j : /\ AtMostOne(list, j) /\ (i = j => \A n \in DOMAIN list : list[n].id # j)
                     => AtMostOne(s, j)
                  /\ AtMostOne(list, j) => AtMostTwo(s, j)
                  /\ AtMostTwo(list, j) /\ i # j => AtMostTwo(s, j)
    BY <1>2, <2>1, PrependKeeps
  <2>4. \A n \in DOMAIN list : list[n].id # i
    BY <1>4 DEF Shown
  <2>5. AtMostOne(list, i)
    BY <2>4 DEF AtMostOne
  <2>6. \A j : /\ AtMostOne(list, j) => AtMostOne(s, j)
               /\ AtMostTwo(list, j) => AtMostTwo(s, j)
    BY <2>3, <2>4, <2>5
  <2>7. \A j \in Shown : \E n \in DOMAIN s : s[n].id = j
    BY <2>2 DEF Shown
  <2>8. \A n \in DOMAIN s : s[n] = Put(i, t) \/ \E k \in DOMAIN list : s[n] = list[k]
    BY <2>2
  <2>9. QED BY <2>2, <2>3, <2>6, <2>7, <2>8 DEF s
<1>5. QED BY <1>3, <1>4

\* Cards that keep their rows and the stamps of a row keep what is shown of it.
LEMMA SameRowsHeads ==
  ASSUME NEW cards, NEW s, SameRows(cards, s), NEW j, NEW u, Heads(cards, j, u),
         \A n \in DOMAIN cards : cards[n].id = j => s[n].at = cards[n].at
  PROVE  Heads(s, j, u)
BY DEF SameRows, Heads

\* Every card of a row is replaced: the row is headed by the new one, the others stay.
LEMMA ReplaceKeeps ==
  ASSUME list \in Seq(Card), NEW i \in Item, NEW t \in Stamp
  PROVE  /\ Replace(i, t) \in Seq(Card) /\ SameRows(list, Replace(i, t))
         /\ i \in Shown => Heads(Replace(i, t), i, t)
         /\ \A j \in Item : \A u : j # i /\ Heads(list, j, u) => Heads(Replace(i, t), j, u)
         /\ \A n \in DOMAIN list : Replace(i, t)[n] = IF list[n].id = i THEN Put(i, t) ELSE list[n]
<1> DEFINE s == Replace(i, t)
<1>1. /\ Len(list) \in Nat /\ DOMAIN list = 1..Len(list)
      /\ \A n \in DOMAIN list : n \in Nat /\ list[n] \in Card
  BY CardFacts
<1>2. Put(i, t) \in Card /\ Put(i, t).id = i /\ Put(i, t).at = t
  BY PutFacts
<1>3. s = [n \in 1..Len(list) |-> IF list[n].id = i THEN Put(i, t) ELSE list[n]]
  BY <1>1 DEF Replace
<1>4. s \in [1..Len(list) -> Card]
  BY <1>1, <1>2, <1>3
<1>5. s \in Seq(Card) /\ DOMAIN s = 1..Len(list)
  BY <1>1, <1>4, FunctionIsList
<1>6. \A n \in DOMAIN list : s[n] = IF list[n].id = i THEN Put(i, t) ELSE list[n]
  BY <1>1, <1>3
<1> HIDE DEF s
<1>7. SameRows(list, s)
  BY <1>1, <1>2, <1>5, <1>6 DEF SameRows
<1>8. ASSUME i \in Shown PROVE Heads(s, i, t)
  BY <1>1, <1>2, <1>6, <1>7, <1>8, FirstCard DEF Heads, SameRows
<1>9. ASSUME NEW j \in Item, NEW u, j # i, Heads(list, j, u) PROVE Heads(s, j, u)
  BY <1>6, <1>7, <1>9, SameRowsHeads
<1>10. QED BY <1>5, <1>6, <1>7, <1>8, <1>9 DEF s

\* A move keeps rows and stamps.
LEMMA MovedKeeps ==
  ASSUME NEW cards \in Seq(Card), NEW i \in Item
  PROVE  /\ Moved(cards, i) \in Seq(Card) /\ SameRows(cards, Moved(cards, i))
         /\ \A n \in DOMAIN cards :
              /\ Moved(cards, i)[n].at = cards[n].at
              /\ Moved(cards, i)[n].mine => cards[n].id = i \/ cards[n].mine
              /\ cards[n].id # i => Moved(cards, i)[n] = cards[n]
         /\ \A j, u : Heads(cards, j, u) <=> Heads(Moved(cards, i), j, u)
<1> DEFINE s == Moved(cards, i)
<1>1. /\ Len(cards) \in Nat /\ DOMAIN cards = 1..Len(cards)
      /\ \A n \in DOMAIN cards : n \in Nat /\ cards[n] \in Card
  BY CardFacts
<1>2. s = [n \in 1..Len(cards) |->
             IF cards[n].id = i THEN [cards[n] EXCEPT !.mine = TRUE] ELSE cards[n]]
  BY <1>1 DEF Moved
<1>3. \A c \in Card : /\ [c EXCEPT !.mine = TRUE] \in Card
                      /\ [c EXCEPT !.mine = TRUE].id = c.id
                      /\ [c EXCEPT !.mine = TRUE].at = c.at
  BY DEF Card
<1>4. s \in [1..Len(cards) -> Card]
  BY <1>1, <1>2, <1>3
<1>5. s \in Seq(Card) /\ DOMAIN s = 1..Len(cards)
  BY <1>1, <1>4, FunctionIsList
<1>6. \A n \in DOMAIN cards : /\ s[n].id = cards[n].id /\ s[n].at = cards[n].at
                              /\ s[n].mine => cards[n].id = i \/ cards[n].mine
                              /\ cards[n].id # i => s[n] = cards[n]
  BY <1>1, <1>2, <1>3
<1> HIDE DEF s
<1>7. SameRows(cards, s)
  BY <1>1, <1>5, <1>6 DEF SameRows
<1>8. \A j, u : Heads(cards, j, u) <=> Heads(s, j, u)
  BY <1>6, <1>7 DEF SameRows, Heads
<1>9. QED BY <1>5, <1>6, <1>7, <1>8 DEF s

\* The cards of one row taken out.
LEMMA OthersKeeps ==
  ASSUME NEW cards \in Seq(Card), NEW i \in Item,
         NEW others \in Ascending({n \in DOMAIN cards : cards[n].id # i}),
         NEW s, s = [n \in DOMAIN others |-> cards[others[n]]]
  PROVE  /\ s \in Seq(Card)
         /\ \A n \in DOMAIN s : \E k \in DOMAIN cards : s[n] = cards[k]
         /\ \A k \in DOMAIN cards : cards[k].id # i => \E n \in DOMAIN s : s[n] = cards[k]
         /\ \A j \in Item : \A u : j # i /\ Heads(cards, j, u) => Heads(s, j, u)
         /\ \A j : /\ AtMostOne(cards, j) => AtMostOne(s, j)
                   /\ AtMostTwo(cards, j) => AtMostTwo(s, j)
<1> DEFINE S == {n \in DOMAIN cards : cards[n].id # i}
<1>1. /\ Len(cards) \in Nat /\ DOMAIN cards = 1..Len(cards)
      /\ \A n \in DOMAIN cards : n \in Nat /\ cards[n] \in Card
  BY CardFacts
<1>2. IsFiniteSet(S) /\ S \in SUBSET Nat
  <2>1. IsFiniteSet(1..Len(cards)) /\ S \in SUBSET (1..Len(cards))
    BY <1>1, FS_Interval
  <2>2. QED BY <1>1, <2>1, FS_Subset
<1>3. /\ Cardinality(S) \in Nat
      /\ others \in [1..Cardinality(S) -> S] /\ DOMAIN others = 1..Cardinality(S)
      /\ \A n, k \in DOMAIN others : n < k => others[n] < others[k]
      /\ \A n, k \in DOMAIN others : others[n] = others[k] => n = k
      /\ \A x \in S : \E n \in DOMAIN others : others[n] = x
  BY <1>2, AscendingFacts
<1> DEFINE N == Cardinality(S)
<1>4. \A n \in DOMAIN others : others[n] \in DOMAIN cards /\ cards[others[n]].id # i
  BY <1>3
<1>5. \A k \in DOMAIN cards : cards[k].id # i => \E n \in DOMAIN others : others[n] = k
  BY <1>3
<1> HIDE DEF S, N
<1>6. s \in [1..N -> Card]
  BY <1>1, <1>3, <1>4 DEF N
<1>7. s \in Seq(Card) /\ DOMAIN s = DOMAIN others
  BY <1>3, <1>6, FunctionIsList DEF N
<1>8. \A n \in DOMAIN s : others[n] \in DOMAIN cards /\ s[n] = cards[others[n]]
  BY <1>4, <1>7
<1>9. \A k \in DOMAIN cards : cards[k].id # i => \E n \in DOMAIN s : s[n] = cards[k]
  BY <1>5, <1>7, <1>8
<1>10. ASSUME NEW j \in Item, NEW u, j # i, Heads(cards, j, u) PROVE Heads(s, j, u)
  <2>1. PICK p \in DOMAIN cards :
          /\ cards[p].id = j /\ cards[p].at = u
          /\ \A k \in DOMAIN cards : cards[k].id = j => p <= k
    BY <1>10 DEF Heads
  <2>2. PICK n \in DOMAIN s : others[n] = p
    BY <1>5, <1>7, <1>10, <2>1
  <2>3. ASSUME NEW k \in DOMAIN s, s[k].id = j PROVE n <= k
    <3>1. p <= others[k]
      BY <1>8, <2>1, <2>3
    <3>2. k < n => others[k] < others[n]
      BY <1>3, <1>7
    <3>3. others[k] \in Nat /\ p \in Nat /\ n \in Nat /\ k \in Nat
      BY <1>1, <1>3, <1>7, <1>8
    <3>4. QED BY <2>2, <3>1, <3>2, <3>3
  <2>4. QED BY <1>8, <2>1, <2>2, <2>3 DEF Heads
<1>11. \A j : AtMostOne(cards, j) => AtMostOne(s, j)
  BY <1>3, <1>7, <1>8 DEF AtMostOne
<1>12. ASSUME NEW j, AtMostTwo(cards, j),
              NEW n \in DOMAIN s, NEW k \in DOMAIN s, NEW m \in DOMAIN s,
              s[n].id = j, s[k].id = j, s[m].id = j
       PROVE  n = k \/ k = m \/ n = m
  <2>1. others[n] = others[k] \/ others[k] = others[m] \/ others[n] = others[m]
    BY <1>8, <1>12 DEF AtMostTwo
  <2>2. QED BY <1>3, <1>7, <2>1
<1>13. \A j : AtMostTwo(cards, j) => AtMostTwo(s, j)
  BY <1>12 DEF AtMostTwo
<1>14. QED BY <1>7, <1>8, <1>9, <1>10, <1>11, <1>13

\* The same of the cards that stay, with the list they make named.
Others(cards, i) == {n \in DOMAIN cards : cards[n].id # i}
Selected(cards, order) == [n \in DOMAIN order |-> cards[order[n]]]

LEMMA OthersStay ==
  ASSUME NEW cards \in Seq(Card), NEW i \in Item, NEW others \in Ascending(Others(cards, i))
  PROVE  /\ \A k \in DOMAIN cards : cards[k].id # i =>
              \E n \in DOMAIN Selected(cards, others) : Selected(cards, others)[n] = cards[k]
         /\ \A j \in Item : \A u :
              j # i /\ Heads(cards, j, u) => Heads(Selected(cards, others), j, u)
<1>1. others \in Ascending({n \in DOMAIN cards : cards[n].id # i})
  BY DEF Others
<1>2. Selected(cards, others) = [n \in DOMAIN others |-> cards[others[n]]]
  BY DEF Selected
<1> HIDE DEF Selected
<1>3. QED BY <1>1, <1>2, OthersKeeps

\* There are finitely many frames, so what a query reads can be put in order.
LEMMA FramesFinite ==
  ASSUME NEW S \in SUBSET Frame
  PROVE  IsFiniteSet(S)
<1>1. IsFiniteSet(Item) /\ IsFiniteSet(Stamp)
  BY FeedsAssumption, FS_Interval DEF Stamp
<1>2. IsFiniteSet(Item \X Stamp)
  BY <1>1, FS_Product
<1> DEFINE f == [p \in Item \X Stamp |-> [id |-> p[1], at |-> p[2]]]
<1>3. f \in [Item \X Stamp -> Frame]
  BY DEF Frame
<1>4. \A x \in Frame : \E p \in Item \X Stamp : f[p] = x
  <2>1. ASSUME NEW x \in Frame PROVE \E p \in Item \X Stamp : f[p] = x
    <3>1. <<x.id, x.at>> \in Item \X Stamp /\ x = [id |-> x.id, at |-> x.at]
      BY DEF Frame
    <3>2. f[<<x.id, x.at>>] = x
      BY <3>1
    <3>3. QED BY <3>1, <3>2
  <2>2. QED BY <2>1
<1> HIDE DEF f
<1>5. f \in Surjection(Item \X Stamp, Frame)
  BY <1>3, <1>4 DEF Surjection
<1>6. IsFiniteSet(Frame)
  BY <1>2, <1>5, FS_Surjection
<1>7. QED BY <1>6, FS_Subset

(* Frames listed without repetition, and the cards that makes.              *)
Listings(frames) ==
  {order \in [1..Cardinality(frames) -> frames] :
     \A n, k \in DOMAIN order : n < k => order[n] # order[k]}
Cards(order) == [n \in DOMAIN order |-> Put(order[n].id, order[n].at)]

Lists(s, order, frames) ==
  /\ s \in Seq(Card) /\ DOMAIN s = DOMAIN order
  /\ \A n \in DOMAIN s : /\ order[n] \in frames /\ s[n] = Put(order[n].id, order[n].at)
                          /\ s[n].id = order[n].id /\ s[n].at = order[n].at
  /\ \A f \in frames : \E n \in DOMAIN s : s[n] = Put(f.id, f.at)
  /\ \A n \in DOMAIN s : \E f \in frames : s[n] = Put(f.id, f.at)
  /\ Distinct(s)
  /\ (\A f, g \in frames : f.id = g.id => f = g) => \A j : AtMostOne(s, j)

\* Each frame makes one card of a list.
LEMMA ListedFacts ==
  ASSUME NEW frames \in SUBSET Frame, NEW order \in Listings(frames), NEW s, s = Cards(order)
  PROVE  Lists(s, order, frames)
<1>1. /\ Cardinality(frames) \in Nat /\ DOMAIN order = 1..Cardinality(frames)
      /\ \A n, k \in DOMAIN order : order[n] = order[k] => n = k
      /\ \A f \in frames : \E n \in DOMAIN order : order[n] = f
  <2>1. /\ order \in [1..Cardinality(frames) -> frames]
        /\ \A n, k \in DOMAIN order : n < k => order[n] # order[k]
    BY DEF Listings
  <2>2. QED BY <2>1, FramesFinite, OrderIsOnto, ZenonT(60)
<1>2. \A n \in DOMAIN order : order[n] \in frames /\ order[n].id \in Item /\ order[n].at \in Stamp
  <2>1. order \in [1..Cardinality(frames) -> frames]
    BY DEF Listings
  <2>2. QED BY <2>1 DEF Frame
<1>3. \A n \in DOMAIN order : /\ Put(order[n].id, order[n].at) \in Card
                              /\ Put(order[n].id, order[n].at).id = order[n].id
                              /\ Put(order[n].id, order[n].at).at = order[n].at
  BY <1>2, PutFacts
<1>4. s \in [1..Cardinality(frames) -> Card]
  BY <1>1, <1>3 DEF Cards
<1>5. s \in Seq(Card) /\ DOMAIN s = DOMAIN order
  BY <1>1, <1>4, FunctionIsList
<1>6. \A n \in DOMAIN s : /\ s[n] = Put(order[n].id, order[n].at)
                          /\ s[n].id = order[n].id /\ s[n].at = order[n].at
  BY <1>3, <1>5 DEF Cards
<1>7. \A n, k \in DOMAIN order :
        order[n].id = order[k].id /\ order[n].at = order[k].at => n = k
  <2>1. \A f, g \in Frame : f.id = g.id /\ f.at = g.at => f = g
    BY DEF Frame
  <2>2. QED BY <1>1, <1>2, <2>1
<1>8. Distinct(s)
  BY <1>5, <1>6, <1>7 DEF Distinct
<1>9. ASSUME \A f, g \in frames : f.id = g.id => f = g, NEW j PROVE AtMostOne(s, j)
  BY <1>1, <1>2, <1>5, <1>6, <1>9 DEF AtMostOne
<1>10. QED BY <1>1, <1>2, <1>5, <1>6, <1>8, <1>9 DEF Lists

\* Frames arranged as a list.
LEMMA ArrangedFacts ==
  ASSUME NEW frames \in SUBSET Frame, NEW order \in Arranged(frames), NEW s, s = Cards(order)
  PROVE  /\ s \in Seq(Card)
         /\ \A f \in frames : \E n \in DOMAIN s : s[n] = Put(f.id, f.at)
         /\ \A n \in DOMAIN s : \E f \in frames : s[n] = Put(f.id, f.at)
         /\ Ordered(s) /\ Distinct(s)
         /\ (\A f, g \in frames : f.id = g.id => f = g) => \A j : AtMostOne(s, j)
<1>1. /\ order \in Listings(frames)
      /\ \A n, k \in DOMAIN order : n < k => order[n].at <= order[k].at
  BY DEF Arranged, Listings
<1>2. Lists(s, order, frames)
  BY <1>1, ListedFacts
<1>3. Ordered(s)
  BY <1>1, <1>2 DEF Ordered, Lists
<1>4. QED BY <1>2, <1>3 DEF Lists

\* The list without its last item.
LEMMA FrontFacts ==
  ASSUME NEW cards \in Seq(Card), cards # <<>>,
         NEW front, front = SubSeq(cards, 1, Len(cards) - 1)
  PROVE  /\ front \in Seq(Card) /\ cards[Len(cards)] \in Card /\ Len(cards) \in DOMAIN cards
         /\ \A n \in DOMAIN front : n \in DOMAIN cards /\ front[n] = cards[n]
         /\ \A n \in DOMAIN cards : n # Len(cards) => n \in DOMAIN front /\ front[n] = cards[n]
<1>1. Len(cards) \in Nat /\ Len(cards) > 0 /\ DOMAIN cards = 1..Len(cards)
      /\ \A n \in DOMAIN cards : cards[n] \in Card
  BY ListFacts
<1>2. front \in Seq(Card) /\ Len(front) = Len(cards) - 1
      /\ \A n \in 1..(Len(cards) - 1) : front[n] = cards[n]
  BY <1>1
<1>3. QED BY <1>1, <1>2

-----------------------------------------------------------------------------
(* What a step may be: actions that do the same to a list are one case.     *)

Kinds == {"none"} \cup (IF feed = "task" THEN {"create", "move", "save", "delete"} ELSE {})
                  \cup (IF feed = "approval" THEN {"decide"} ELSE {})
                  \cup (IF feed \in {"chat"} \cup Groups THEN {"post"} ELSE {})

QueryOpens == feed \in Groups \cup News /\ Opens

ReadsRow ==
  /\ feed \in {"task", "approval", "agent"} /\ Read(feed)
  /\ list' = Upsert(Head(wire).id, Head(wire).at)
  /\ UNCHANGED <<feed, rows, stream, rest, request, spoiled>>

ReadsMessage ==
  /\ feed \in {"chat"} \cup Groups /\ Read(feed)
  /\ list' = Insert(Head(wire).id, Head(wire).at)
  /\ UNCHANGED <<feed, rows, stream, rest, request, spoiled>>

ReadsNews ==
  /\ feed \in News /\ Read(feed)
  /\ \/ \E again \in BOOLEAN : PushFeedItem(Head(wire).id, Head(wire).at, again)
     \/ /\ feed = "newsAgent" /\ known[Head(wire).id] = Head(wire).at
        /\ UNCHANGED <<list, fallen>>
  /\ \/ known' = [known EXCEPT ![Head(wire).id] = Head(wire).at]
     \/ feed # "newsAgent" /\ known' = known
  /\ UNCHANGED <<feed, rows, stream, query, found, cut, request, spoiled>>

PollsRows == feed \notin Tasks /\ (PollRows(first) \/ PollRows(row))

AsksOnly(i) ==
  \E kind \in Kinds \ {"none", "move"} :
    /\ Ask(i, kind) /\ UNCHANGED <<list, before>>
    /\ kind \in {"create", "post"} => New(i)
    /\ made' = IF kind \in {"create", "post"} THEN made \cup {i} ELSE made

Replaced(i) ==
  \E kind \in {"move", "save", "decide"} :
    Answered(i, kind) /\ list' = Replace(i, reply[i])

OfQuery == QueryOpens \/ AskAgain \/ SeedAgain \/ ReadHistory \/ HistoryArrives
           \/ SeedsKept \/ SeedsShown \/ SeedsMissing \/ HistoryFails
OfStream == Load \/ Connect \/ Disconnect \/ GroupEnds \/ GroupReopens \/ PushedOut
            \/ ReadsRow \/ ReadsMessage \/ ReadsNews \/ PollTasks \/ PollsRows
Logs(i) == \E t \in 1..MaxClock : Log(i, t) \/ LogFails(i, t)
OfRows(i) == BeginOther(i) \/ BeginOwn(i) \/ Commit(i) \/ CommitTask(i) \/ CommitSilently(i)
             \/ Logs(i) \/ DeleteOther(i) \/ DeleteOwn(i) \/ Fail(i)
OfPage(i) == AskMove(i) \/ AsksOnly(i) \/ Created(i) \/ Replaced(i) \/ Posted(i)
             \/ Deleted(i) \/ MoveFailed(i) \/ RequestFailed(i)

\* Which kinds of feed exclude each other.
LEMMA FeedKinds ==
  /\ feed \in Groups => feed \notin Tasks /\ feed \notin News /\ feed # "chat"
  /\ feed \in News => feed \notin Groups /\ feed \notin {"task", "approval", "agent", "chat"}
  /\ feed \in Tasks <=> feed = "task" \/ feed = "newsTask"
  /\ feed \in Messages <=> feed = "chat" \/ feed = "newsChat" \/ feed \in Groups
BY DEF Groups, News, Tasks, Messages

\* Every step is of the query, of the stream, of the rows or of the page: the
\* cases of all the proofs below.
LEMMA StepKinds ==
  ASSUME TypeOK, Next
  PROVE  OfQuery \/ OfStream \/ \E i \in Item : OfRows(i) \/ OfPage(i)
<1>1. CASE Stream
  <2>1. CASE Load
    BY <2>1 DEF OfStream
  <2>2. CASE PollTasks
    BY <2>2 DEF OfStream
  <2>3. CASE PollApprovals \/ PollAgents \/ PollChat \/ PollGroup
    <3>1. PollsRows
      BY <2>3 DEF PollApprovals, PollAgents, PollChat, PollGroup, PollsRows, Tasks, Groups
    <3>2. QED BY <3>1 DEF OfStream
  <2>4. CASE ReadTask \/ ReadApproval \/ ReadAgent
    <3>1. ReadsRow
      BY <2>4 DEF ReadTask, ReadApproval, ReadAgent, ReadsRow, Read
    <3>2. QED BY <3>1 DEF OfStream
  <2>5. CASE ReadChat \/ ReadGroupChat \/ ReadGroupNotes
    <3>1. ReadsMessage
      BY <2>5 DEF ReadChat, ReadGroupChat, ReadGroupNotes, ReadsMessage, Read, Groups
    <3>2. QED BY <3>1 DEF OfStream
  <2>6. CASE ReadNewsTask \/ ReadNewsChat
    <3>1. feed \in News /\ feed # "newsAgent" /\ Read(feed) /\ known' = known
          /\ PushFeedItem(Head(wire).id, Head(wire).at, FALSE)
          /\ UNCHANGED <<feed, rows, stream, query, found, cut, request, spoiled>>
      BY <2>6 DEF ReadNewsTask, ReadNewsChat, Read, News
    <3>2. ReadsNews
      BY <3>1 DEF ReadsNews
    <3>3. QED BY <3>2 DEF OfStream
  <2>7. CASE ReadNewsApproval
    <3>1. /\ feed \in News /\ Read(feed)
          /\ known' = [known EXCEPT ![Head(wire).id] = Head(wire).at]
          /\ PushFeedItem(Head(wire).id, Head(wire).at, known[Head(wire).id] = Head(wire).at)
          /\ UNCHANGED <<feed, rows, stream, query, found, cut, request, spoiled>>
      BY <2>7 DEF ReadNewsApproval, NewsOfApproval, Read, News
    <3>2. (known[Head(wire).id] = Head(wire).at) \in BOOLEAN
      OBVIOUS
    <3>3. \E again \in BOOLEAN : PushFeedItem(Head(wire).id, Head(wire).at, again)
      BY <3>1, <3>2, Zenon
    <3>4. ReadsNews
      BY <3>1, <3>3 DEF ReadsNews
    <3>5. QED BY <3>4 DEF OfStream
  <2>8. CASE ReadNewsAgent
    <3>1. /\ feed \in News /\ feed = "newsAgent" /\ Read(feed)
          /\ known' = [known EXCEPT ![Head(wire).id] = Head(wire).at]
          /\ NewsOfAgent(Head(wire).id, Head(wire).at)
          /\ UNCHANGED <<feed, rows, stream, query, found, cut, request, spoiled>>
      BY <2>8 DEF ReadNewsAgent, Read, News
    <3>2. \/ \E again \in BOOLEAN : PushFeedItem(Head(wire).id, Head(wire).at, again)
          \/ /\ feed = "newsAgent" /\ known[Head(wire).id] = Head(wire).at
             /\ UNCHANGED <<list, fallen>>
      BY <3>1 DEF NewsOfAgent
    <3>3. ReadsNews
      BY <3>1, <3>2 DEF ReadsNews
    <3>4. QED BY <3>3 DEF OfStream
  <2>9. QED BY <1>1, <2>1, <2>2, <2>3, <2>4, <2>5, <2>6, <2>7, <2>8 DEF Stream
<1>2. CASE \/ ConnectTasks \/ ConnectApprovals \/ ConnectAgents \/ ConnectChat
           \/ ConnectGroupChat \/ ConnectGroupNotes \/ ConnectNewsTasks
           \/ ConnectNewsApprovals \/ ConnectNewsAgents \/ ConnectNewsChat
  BY <1>2 DEF ConnectTasks, ConnectApprovals, ConnectAgents, ConnectChat, ConnectGroupChat,
              ConnectGroupNotes, ConnectNewsTasks, ConnectNewsApprovals, ConnectNewsAgents,
              ConnectNewsChat, OfStream
<1>3. CASE \/ OpenGroup \/ AskAgain \/ OpenActivity \/ SeedAgain \/ History
           \/ SeedsMissing \/ HistoryFails \/ PushedOut \/ GroupEnds \/ GroupReopens
           \/ Disconnect
  BY <1>3 DEF OpenGroup, OpenActivity, History, QueryOpens, OfQuery, OfStream
<1>4. ASSUME NEW i \in Item,
             \/ BeginOther(i) \/ CommitSilently(i) \/ DeleteOther(i) \/ Server(i)
             \/ \E t \in 1..MaxClock : LogFails(i, t)
      PROVE  OfRows(i)
  BY <1>4 DEF Server, Serve, Logs, OfRows
<1>5. ASSUME NEW i \in Item,
             AskCreate(i) \/ AskSave(i) \/ AskDelete(i) \/ AskDecide(i) \/ AskPost(i)
             \/ AskGroupChat(i) \/ AskGroupNote(i)
      PROVE  OfPage(i)
  <2>1. CASE AskCreate(i)
    <3>1. /\ "create" \in Kinds \ {"none", "move"} /\ Ask(i, "create")
          /\ UNCHANGED <<list, before>> /\ New(i) /\ made' = made \cup {i}
      BY <2>1 DEF AskCreate, Kinds, Groups
    <3>2. AsksOnly(i)
      BY <3>1 DEF AsksOnly
    <3>3. QED BY <3>2 DEF OfPage
  <2>2. CASE AskSave(i)
    <3>1. /\ "save" \in Kinds \ {"none", "move"} /\ Ask(i, "save")
          /\ UNCHANGED <<list, before>> /\ made' = made
      BY <2>2 DEF AskSave, Kinds, Groups
    <3>2. AsksOnly(i)
      BY <3>1 DEF AsksOnly
    <3>3. QED BY <3>2 DEF OfPage
  <2>3. CASE AskDelete(i)
    <3>1. /\ "delete" \in Kinds \ {"none", "move"} /\ Ask(i, "delete")
          /\ UNCHANGED <<list, before>> /\ made' = made
      BY <2>3 DEF AskDelete, Kinds, Groups
    <3>2. AsksOnly(i)
      BY <3>1 DEF AsksOnly
    <3>3. QED BY <3>2 DEF OfPage
  <2>4. CASE AskDecide(i)
    <3>1. /\ "decide" \in Kinds \ {"none", "move"} /\ Ask(i, "decide")
          /\ UNCHANGED <<list, before>> /\ made' = made
      BY <2>4 DEF AskDecide, Kinds, Groups
    <3>2. AsksOnly(i)
      BY <3>1 DEF AsksOnly
    <3>3. QED BY <3>2 DEF OfPage
  <2>5. CASE AskPost(i) \/ AskGroupChat(i) \/ AskGroupNote(i)
    BY <2>5 DEF AskPost, AskGroupChat, AskGroupNote, AsksOnly, OfPage, Kinds, Groups
  <2>6. QED BY <1>5, <2>1, <2>2, <2>3, <2>4, <2>5
<1>6. ASSUME NEW i \in Item, AskMove(i) \/ Page(i)
      PROVE  OfPage(i)
  BY <1>6 DEF Page, MoveDone, Saved, Decided, Replaced, OfPage
<1>7. QED BY <1>1, <1>2, <1>3, <1>4, <1>5, <1>6 DEF Next

-----------------------------------------------------------------------------
(* Types.                                                                   *)

\* The newest stamp of the list.
LEMMA SinceFacts ==
  ASSUME list \in Seq(Card)
  PROVE  /\ Since \in Stamp
         /\ \A n \in DOMAIN list : list[n].at <= Since
         /\ list # <<>> => \E n \in DOMAIN list : list[n].at = Since
         /\ list = <<>> => Since = 0
<1> DEFINE S == {list[n].at : n \in DOMAIN list}
<1>1. /\ Len(list) \in Nat /\ DOMAIN list = 1..Len(list)
      /\ \A n \in DOMAIN list : list[n].at \in Stamp
  BY CardFacts
<1>2. S \in SUBSET (0..MaxClock)
  BY <1>1 DEF Stamp
<1>3. MaxClock \in Nat
  BY FeedsAssumption
<1>4. /\ Latest(S) \in 0..MaxClock
      /\ S # {} => Latest(S) \in S
      /\ S = {} => Latest(S) = 0
      /\ \A u \in S : u <= Latest(S)
  BY <1>2, <1>3, LatestFacts
<1>5. Since = Latest(S)
  BY DEF Since
<1>6. list # <<>> => 1 \in DOMAIN list
  BY <1>1
<1>7. list = <<>> => S = {}
  BY <1>1
<1>8. list # <<>> => S # {}
  BY <1>6
<1> HIDE DEF S
<1>9. S = {list[n].at : n \in DOMAIN list}
  BY DEF S
<1>10. QED BY <1>4, <1>5, <1>7, <1>8, <1>9 DEF Stamp

\* How far the streams and the query have come.
LEMMA ReachedFacts ==
  ASSUME cursor \in 0..(MaxClock + 1), found \subseteq Frame
  PROVE  /\ Reached \in 0..(MaxClock + 1)
         /\ conn = "on" => Reached = cursor
         /\ conn # "on" => /\ cursor <= Reached
                           /\ \A f \in found : f.at <= Reached
                           /\ Reached = cursor \/ \E f \in found : Reached = f.at
<1> DEFINE S == {cursor} \cup {f.at : f \in found}
<1>1. MaxClock + 1 \in Nat /\ \A t \in Stamp : t \in 0..(MaxClock + 1)
  BY FeedsAssumption DEF Stamp
<1>2. S \in SUBSET (0..(MaxClock + 1)) /\ S # {}
  BY <1>1 DEF Frame
<1>3. Latest(S) \in 0..(MaxClock + 1) /\ Latest(S) \in S /\ \A u \in S : u <= Latest(S)
  BY <1>1, <1>2, LatestFacts
<1>4. Reached = IF conn = "on" THEN cursor ELSE Latest(S)
  BY DEF Reached
<1>5. QED BY <1>3, <1>4

\* What mergeChatMessages merges: all that was found, and the cards of the rows
\* that were not.
LEMMA MergedFacts ==
  ASSUME list \in Seq(Card), found \subseteq Frame
  PROVE  /\ Merged \in SUBSET Frame
         /\ found \subseteq Merged
         /\ \A g \in Merged : \/ g \in found
                              \/ \E n \in DOMAIN list : list[n].id = g.id /\ list[n].at = g.at
         /\ \A n \in DOMAIN list : \E g \in Merged : g.id = list[n].id
         /\ \A g \in Merged \ found : \A f \in found : f.id # g.id
         /\ \A n \in DOMAIN list : (\A f \in found : f.id # list[n].id) =>
              [id |-> list[n].id, at |-> list[n].at] \in Merged
<1>1. \A n \in DOMAIN list : list[n].id \in Item /\ list[n].at \in Stamp
  BY CardFacts
<1>2. \A n \in DOMAIN list : [id |-> list[n].id, at |-> list[n].at] \in Frame
  BY <1>1 DEF Frame
<1> DEFINE S == {k \in DOMAIN list : \A f \in found : f.id # list[k].id}
           T == {[id |-> list[n].id, at |-> list[n].at] : n \in S}
<1>3. Merged = found \cup T
  BY DEF Merged
<1>4. S \subseteq DOMAIN list
  OBVIOUS
<1>5. T \subseteq Frame
  BY <1>2, <1>4
<1>6. \A n \in S : [id |-> list[n].id, at |-> list[n].at] \in T
  OBVIOUS
<1>7. \A g \in T : \E n \in S : g.id = list[n].id /\ g.at = list[n].at
  OBVIOUS
<1>8. \A n \in DOMAIN list : n \in S <=> \A f \in found : f.id # list[n].id
  OBVIOUS
<1> HIDE DEF S, T
<1>9. Merged \in SUBSET Frame /\ found \subseteq Merged
  BY <1>3, <1>5
<1>10. \A g \in Merged : g \in found \/ \E n \in DOMAIN list : list[n].id = g.id /\ list[n].at = g.at
  BY <1>3, <1>4, <1>7
<1>11. \A n \in DOMAIN list : \E g \in Merged : g.id = list[n].id
  <2>1. ASSUME NEW n \in DOMAIN list PROVE \E g \in Merged : g.id = list[n].id
    <3>1. CASE n \in S
      <4>1. [id |-> list[n].id, at |-> list[n].at] \in Merged
        BY <1>3, <1>6, <3>1
      <4>2. QED BY <4>1
    <3>2. CASE n \notin S
      BY <1>3, <1>8, <3>2
    <3>3. QED BY <3>1, <3>2
  <2>2. QED BY <2>1
<1>12. \A g \in Merged \ found : \A f \in found : f.id # g.id
  BY <1>3, <1>4, <1>7, <1>8
<1>13. \A n \in DOMAIN list : (\A f \in found : f.id # list[n].id) =>
         [id |-> list[n].id, at |-> list[n].at] \in Merged
  BY <1>3, <1>6, <1>8
<1>14. QED BY <1>9, <1>10, <1>11, <1>12, <1>13

\* What a query finds: versions of rows, or events of the log.
LEMMA QueriedFacts ==
  ASSUME TypeOK
  PROVE  /\ Queried \subseteq Frame
         /\ \A f \in Queried : f.id \in Existing
         /\ feed # "newsTask" => /\ \A f \in Queried : f.at = row[f.id] /\ f = Version(f.id)
                                 /\ \A i \in Existing : Version(i) \in Queried
         /\ feed = "newsTask" =>
              /\ \A f \in Queried : \E t \in 1..clock : event[t] = f.id /\ t = f.at
              /\ \A t \in 1..clock : event[t] \in Existing => [id |-> event[t], at |-> t] \in Queried
<1>1. \A t \in 1..clock : t \in Stamp /\ t \in 1..MaxClock
  BY FeedsAssumption DEF TypeOK, Stamp
<1>2. \A i \in Existing : i \in Item /\ row[i] \in Stamp /\ Version(i) \in Frame
  BY DEF Existing, TypeOK, Version, Frame
<1>3. CASE feed = "newsTask"
  <2>1. Queried = {[id |-> event[t], at |-> t] : t \in {u \in 1..clock : event[u] \in Existing}}
    BY <1>3 DEF Queried
  <2>2. \A f \in Queried : \E t \in 1..clock :
          event[t] \in Existing /\ f = [id |-> event[t], at |-> t]
    BY <2>1
  <2>3. \A f \in Queried : f \in Frame
    BY <1>1, <1>2, <2>2 DEF Frame
  <2>4. QED BY <1>3, <2>1, <2>2, <2>3
<1>4. CASE feed # "newsTask"
  <2>1. Queried = {Version(i) : i \in Existing}
    BY <1>4 DEF Queried
  <2>2. \A i \in Existing : Version(i).id = i /\ Version(i).at = row[i]
    BY DEF Version
  <2>3. QED BY <1>2, <1>4, <2>1, <2>2
<1>5. QED BY <1>3, <1>4

\* A version that may have been left out, in the terms of the sets that hold it.
LEMMA CardFrames ==
  ASSUME NEW S \in SUBSET Card
  PROVE  {[id |-> c.id, at |-> c.at] : c \in S} \subseteq Frame
BY DEF Card, Frame

\* The seeds that are shown: of what was found, the newest or all; the rest, and
\* the items that had fallen out, are left out.
LEMMA SeedsFacts ==
  ASSUME found \subseteq Frame, fallen \subseteq Card, cut \subseteq Frame, SeedsShown
  PROVE  \E kept \in SUBSET found :
           /\ list' \in Seq(Card) /\ cut' \subseteq Frame
           /\ found \ kept \subseteq cut'
           /\ \A f \in cut : f \in cut' \/ f \in kept
           /\ \A c \in fallen : [id |-> c.id, at |-> c.at] \in cut' \/ [id |-> c.id, at |-> c.at] \in kept
           /\ \A f \in kept : \E n \in DOMAIN list' : list'[n] = Put(f.id, f.at)
           /\ \A n \in DOMAIN list' : \E f \in kept : list'[n] = Put(f.id, f.at)
           /\ Distinct(list')
<1> DEFINE dropped == {[id |-> c.id, at |-> c.at] : c \in fallen}
<1>1. PICK kept \in SUBSET found :
        /\ cut' = (cut \cup found \cup dropped) \ kept
        /\ \E order \in [1..Cardinality(kept) -> kept] :
             /\ \A n, k \in DOMAIN order : n < k => order[n] # order[k] /\ order[n].at >= order[k].at
             /\ list' = [n \in DOMAIN order |-> Put(order[n].id, order[n].at)]
  BY DEF SeedsShown
<1>2. PICK order \in Listings(kept) : list' = Cards(order)
  BY <1>1 DEF Cards, Listings
<1>3. kept \in SUBSET Frame
  OBVIOUS
<1>4. /\ list' \in Seq(Card) /\ Distinct(list')
      /\ \A f \in kept : \E n \in DOMAIN list' : list'[n] = Put(f.id, f.at)
      /\ \A n \in DOMAIN list' : \E f \in kept : list'[n] = Put(f.id, f.at)
  <2>1. Lists(list', order, kept)
    BY <1>2, <1>3, ListedFacts
  <2>2. QED BY <2>1 DEF Lists
<1>5. dropped \subseteq Frame /\ \A c \in fallen : [id |-> c.id, at |-> c.at] \in dropped
  BY CardFrames
<1> HIDE DEF dropped
<1>6. QED BY <1>1, <1>4, <1>5

\* The steps of the query keep the types.
LEMMA QueryKeepsTypes ==
  ASSUME TypeOK, OfQuery
  PROVE  TypeOK'
<1>1. CASE QueryOpens
  BY <1>1 DEF QueryOpens, Opens, TypeOK, rows, request, answers
<1>2. CASE AskAgain
  BY FeedsAssumption, <1>2 DEF AskAgain, TypeOK, rows, stream, answers
<1>3. CASE SeedAgain
  BY FeedsAssumption, <1>3 DEF SeedAgain, TypeOK, rows, stream, answers
<1>4. CASE ReadHistory
  <2>1. found' \in SUBSET Queried /\ cut' = (cut \cup Queried) \ found'
    BY <1>4 DEF ReadHistory
  <2>2. found' \subseteq Frame /\ cut' \subseteq Frame
    BY <2>1, QueriedFacts DEF TypeOK
  <2>3. QED BY <1>4, <2>2 DEF ReadHistory, TypeOK, rows, stream, request, answers
<1>5. CASE HistoryArrives
  <2>1. list \in Seq(Card) /\ found \subseteq Frame /\ cursor \in 0..(MaxClock + 1)
    BY DEF TypeOK
  <2>2. list' \in Seq(Card)
    BY <1>5, <2>1, MergedFacts, ArrangedFacts DEF HistoryArrives, Cards
  <2>3. cursor' \in 0..(MaxClock + 1)
    BY <1>5, <2>1, ReachedFacts DEF HistoryArrives
  <2>4. QED BY <1>5, <2>2, <2>3 DEF HistoryArrives, TypeOK, rows, request, answers
<1>6. CASE SeedsKept
  <2> DEFINE versions(i) == {f \in found : f.id = i /\ feed \in {"newsApproval", "newsAgent"}}
  <2>1. \A i \in Item : versions(i) # {} => (CHOOSE f \in versions(i) : TRUE).at \in Stamp
    BY DEF TypeOK, Frame
  <2> HIDE DEF versions
  <2>2. known' = [i \in Item |-> IF versions(i) = {} THEN known[i]
                                 ELSE (CHOOSE f \in versions(i) : TRUE).at]
    BY <1>6 DEF SeedsKept, versions
  <2>3. known' \in [Item -> Stamp]
    BY <2>1, <2>2 DEF TypeOK
  <2>4. QED BY <1>6, <2>3 DEF SeedsKept, TypeOK, rows, stream, request, answers
<1>7. CASE SeedsShown
  <2>1. found \subseteq Frame /\ cursor \in 0..(MaxClock + 1) /\ fallen \subseteq Card
    BY DEF TypeOK
  <2>2. list' \in Seq(Card) /\ cut' \subseteq Frame
    BY <1>7, <2>1, SeedsFacts DEF TypeOK
  <2>3. cursor' \in 0..(MaxClock + 1)
    BY <1>7, <2>1, ReachedFacts DEF SeedsShown
  <2>4. spoiled' \in BOOLEAN
    BY <1>7, Zenon DEF SeedsShown, TypeOK
  <2>5. UNCHANGED <<rows, conn, seen, wire, known, request, feed>> /\ query' = "none"
        /\ found' = {} /\ fallen' = {}
    BY <1>7 DEF SeedsShown
  <2>6. QED BY <2>2, <2>3, <2>4, <2>5 DEF TypeOK, rows, request, answers
<1>8. CASE HistoryFails
  <2>1. spoiled' \in BOOLEAN
    BY <1>8, Zenon DEF HistoryFails, TypeOK
  <2>2. QED BY <1>8, <2>1 DEF HistoryFails, TypeOK, rows, stream, request, answers
<1>9. CASE SeedsMissing
  <2>1. spoiled' \in BOOLEAN
    BY <1>9, Zenon DEF SeedsMissing, TypeOK
  <2>2. QED BY <1>9, <2>1 DEF SeedsMissing, TypeOK, rows, stream, request, answers
<1>10. QED BY <1>1, <1>2, <1>3, <1>4, <1>5, <1>6, <1>7, <1>8, <1>9 DEF OfQuery

\* The frame that is read.
LEMMA ReadFacts ==
  ASSUME TypeOK, NEW kind, Read(kind)
  PROVE  /\ Head(wire) \in Frame /\ Head(wire).id \in Item /\ Head(wire).at \in Stamp
         /\ Head(wire) = wire[1] /\ 1 \in DOMAIN wire /\ conn = "on" /\ feed = kind
         /\ wire' \in Seq(Frame)
         /\ \A n \in DOMAIN wire' : n + 1 \in DOMAIN wire /\ wire'[n] = wire[n + 1]
         /\ \A n \in DOMAIN wire : n # 1 => n - 1 \in DOMAIN wire' /\ wire'[n - 1] = wire[n]
<1>1. wire \in Seq(Frame) /\ wire # <<>> /\ wire' = Tail(wire) /\ conn = "on" /\ feed = kind
  BY DEF TypeOK, Read
<1>2. /\ Head(wire) \in Frame /\ Head(wire) = wire[1] /\ 1 \in DOMAIN wire
      /\ Tail(wire) \in Seq(Frame)
      /\ \A n \in DOMAIN Tail(wire) : n + 1 \in DOMAIN wire /\ Tail(wire)[n] = wire[n + 1]
      /\ \A n \in DOMAIN wire : n # 1 => n - 1 \in DOMAIN Tail(wire) /\ Tail(wire)[n - 1] = wire[n]
  BY <1>1, TailFacts
<1>3. Head(wire).id \in Item /\ Head(wire).at \in Stamp
  BY <1>2 DEF Frame
<1>4. QED BY <1>1, <1>2, <1>3

\* The last item falls out of the list, and another may come in front.
LEMMA FallsOutFacts ==
  ASSUME list \in Seq(Card), fallen \subseteq Card, FallsOut(<<>>)
  PROVE  /\ list # <<>> /\ list' \in Seq(Card) /\ fallen' \subseteq Card /\ fallen \subseteq fallen'
         /\ \A n \in DOMAIN list' : n \in DOMAIN list /\ list'[n] = list[n]
         /\ \A n \in DOMAIN list : n \in DOMAIN list' \/ list[n] \in fallen'
<1>1. /\ list # <<>> /\ list' = SubSeq(list, 1, Len(list) - 1)
      /\ fallen' = fallen \cup {list[Len(list)]}
  <2>1. <<>> \o SubSeq(list, 1, Len(list) - 1) = SubSeq(list, 1, Len(list) - 1)
    OBVIOUS
  <2>2. QED BY <2>1 DEF FallsOut
<1>2. /\ list' \in Seq(Card) /\ list[Len(list)] \in Card /\ Len(list) \in DOMAIN list
      /\ \A n \in DOMAIN list' : n \in DOMAIN list /\ list'[n] = list[n]
      /\ \A n \in DOMAIN list : n # Len(list) => n \in DOMAIN list'
  BY <1>1, FrontFacts
<1>3. QED BY <1>1, <1>2

(* An item in front of others.                                              *)
InFront(item, cards) == <<item>> \o cards
Adds(s, item, cards) ==
  /\ s \in Seq(Card)
  /\ \E n \in DOMAIN s : s[n] = item
  /\ \A n \in DOMAIN cards : \E k \in DOMAIN s : s[k] = cards[n]
  /\ \A n \in DOMAIN s : s[n] = item \/ \E k \in DOMAIN cards : s[n] = cards[k]
  /\ Distinct(cards) /\ (\A n \in DOMAIN cards : cards[n] # item) => Distinct(s)

\* It is one of the list, and the others are the rest.
LEMMA InFrontFacts ==
  ASSUME NEW cards \in Seq(Card), NEW item \in Card, NEW s, s = InFront(item, cards)
  PROVE  Adds(s, item, cards)
<1>1. /\ s \in Seq(Card) /\ DOMAIN s = 1..(Len(cards) + 1) /\ s[1] = item
      /\ \A n \in DOMAIN cards : n + 1 \in DOMAIN s /\ s[n + 1] = cards[n]
      /\ \A n \in DOMAIN s : n # 1 => n - 1 \in DOMAIN cards /\ s[n] = cards[n - 1]
  BY PrependFacts DEF InFront
<1>2. Len(cards) \in Nat /\ DOMAIN cards = 1..Len(cards)
  BY CardFacts
<1>3. 1 \in DOMAIN s
  BY <1>1, <1>2
<1>4. ASSUME Distinct(cards), \A n \in DOMAIN cards : cards[n] # item,
             NEW n \in DOMAIN s, NEW k \in DOMAIN s, n # k
      PROVE  s[n] # s[k]
  <2>1. CASE n # 1 /\ k # 1
    <3>1. n - 1 \in DOMAIN cards /\ k - 1 \in DOMAIN cards /\ n - 1 # k - 1
      BY <1>1, <1>2, <1>4, <2>1
    <3>2. QED BY <1>1, <1>4, <2>1, <3>1 DEF Distinct
  <2>2. CASE n = 1 \/ k = 1
    BY <1>1, <1>4, <2>2
  <2>3. QED BY <2>1, <2>2
<1>5. Distinct(cards) /\ (\A n \in DOMAIN cards : cards[n] # item) => Distinct(s)
  BY <1>4 DEF Distinct
<1>6. QED BY <1>1, <1>3, <1>5 DEF Adds

\* What is told of an item: it was there or has fallen out, or it is in front
\* now; the last one may fall out for it, and no other goes.
LEMMA PushFacts ==
  ASSUME list \in Seq(Card), fallen \subseteq Card, NEW i \in Item, NEW t \in Stamp,
         NEW again \in BOOLEAN, PushFeedItem(i, t, again)
  PROVE  /\ list' \in Seq(Card) /\ fallen' \subseteq Card /\ fallen \subseteq fallen'
         /\ \/ \E n \in DOMAIN list' : list'[n].id = i /\ list'[n].at = t
            \/ \E c \in fallen' : c.id = i /\ c.at = t
         /\ \A n \in DOMAIN list : (\E k \in DOMAIN list' : list'[k] = list[n]) \/ list[n] \in fallen'
         /\ \A n \in DOMAIN list' : \/ \E k \in DOMAIN list : list'[n] = list[k]
                                    \/ list'[n].id = i /\ list'[n].at = t /\ ~list'[n].mine
         /\ Distinct(list) => Distinct(list')
<1> DEFINE item == [Put(i, t) EXCEPT !.again = again]
           front == SubSeq(list, 1, Len(list) - 1)
<1>1. item \in Card /\ item.id = i /\ item.at = t /\ ~item.mine
  BY DEF Put, Card
<1>2. \/ (item \in fallen \/ \E n \in DOMAIN list : list[n] = item) /\ UNCHANGED <<list, fallen>>
      \/ /\ \A n \in DOMAIN list : list[n] # item
         /\ list' = InFront(item, list) /\ UNCHANGED fallen
      \/ /\ \A n \in DOMAIN list : list[n] # item
         /\ list # <<>> /\ list' = InFront(item, front) /\ fallen' = fallen \cup {list[Len(list)]}
  BY DEF PushFeedItem, FallsOut, InFront
<1> HIDE DEF item, front
<1>3. CASE (item \in fallen \/ \E n \in DOMAIN list : list[n] = item) /\ UNCHANGED <<list, fallen>>
  BY <1>1, <1>3
<1>4. CASE /\ \A n \in DOMAIN list : list[n] # item
           /\ list' = InFront(item, list) /\ UNCHANGED fallen
  <2>1. Adds(list', item, list)
    BY <1>1, <1>4, InFrontFacts
  <2>2. QED BY <1>1, <1>4, <2>1 DEF Adds
<1>5. CASE /\ \A n \in DOMAIN list : list[n] # item
           /\ list # <<>> /\ list' = InFront(item, front) /\ fallen' = fallen \cup {list[Len(list)]}
  <2>1. /\ front \in Seq(Card) /\ list[Len(list)] \in Card
        /\ \A n \in DOMAIN front : n \in DOMAIN list /\ front[n] = list[n]
        /\ \A n \in DOMAIN list : n # Len(list) => n \in DOMAIN front /\ front[n] = list[n]
    BY <1>5, FrontFacts DEF front
  <2>2. \A n \in DOMAIN front : front[n] # item
    BY <1>5, <2>1
  <2>3. Adds(list', item, front)
    BY <1>1, <1>5, <2>1, InFrontFacts
  <2>4. /\ list' \in Seq(Card)
        /\ \E n \in DOMAIN list' : list'[n] = item
        /\ \A n \in DOMAIN front : \E k \in DOMAIN list' : list'[k] = front[n]
        /\ \A n \in DOMAIN list' : list'[n] = item \/ \E k \in DOMAIN front : list'[n] = front[k]
        /\ Distinct(front) => Distinct(list')
    BY <2>2, <2>3 DEF Adds
  <2>5. Distinct(list) => Distinct(front)
    BY <2>1 DEF Distinct
  <2>6. \A n \in DOMAIN list : (\E k \in DOMAIN list' : list'[k] = list[n]) \/ list[n] \in fallen'
    BY <1>5, <2>1, <2>4
  <2>7. \A n \in DOMAIN list' : \/ \E k \in DOMAIN list : list'[n] = list[k]
                                \/ list'[n].id = i /\ list'[n].at = t /\ ~list'[n].mine
    <3>1. \A n \in DOMAIN list' : list'[n] = item \/ \E k \in DOMAIN list : list'[n] = list[k]
      BY <2>1, <2>4
    <3>2. QED BY <1>1, <3>1
  <2>8. \E n \in DOMAIN list' : list'[n].id = i /\ list'[n].at = t
    BY <1>1, <2>4
  <2>9. fallen' \subseteq Card /\ fallen \subseteq fallen'
    BY <1>5, <2>1
  <2>10. QED BY <2>4, <2>5, <2>6, <2>7, <2>8, <2>9
<1>6. QED BY <1>2, <1>3, <1>4, <1>5

\* A message that is inserted leaves a list of cards.
LEMMA InsertFacts ==
  ASSUME list \in Seq(Card), NEW i \in Item, NEW t \in Stamp
  PROVE  Insert(i, t) \in Seq(Card)
<1>1. Sorted(list, Put(i, t)) \in Seq(Card)
  BY PutFacts, SortedFacts
<1>2. QED BY <1>1 DEF Insert

\* The events that are due.
LEMMA DueFacts ==
  ASSUME TypeOK
  PROVE  /\ Due \in SUBSET (0..MaxClock) /\ Due \in SUBSET Nat /\ IsFiniteSet(Due)
         /\ Latest(Due) \in Stamp /\ \A t \in Due : t <= Latest(Due)
         /\ Due # {} => Latest(Due) \in Due
<1>1. MaxClock \in Nat /\ clock \in 0..MaxClock /\ Due \in SUBSET (1..clock)
  BY FeedsAssumption DEF TypeOK, Stamp, Due
<1>2. Due \in SUBSET (0..MaxClock) /\ Due \in SUBSET Nat
  BY <1>1
<1>3. IsFiniteSet(Due)
  <2>1. IsFiniteSet(0..MaxClock)
    BY <1>1, FS_Interval
  <2>2. QED BY <1>2, <2>1, FS_Subset
<1>4. QED BY <1>1, <1>2, <1>3, LatestFacts DEF Stamp

\* The frames that a poll of the tasks sends.
LEMMA PollTasksFacts ==
  ASSUME TypeOK, PollTasks
  PROVE  /\ wire' \in Seq(Frame)
         /\ \A n \in DOMAIN wire' :
              \E t \in Due : /\ wire'[n].id = event[t]
                             /\ wire'[n].at = IF feed = "task" THEN row[event[t]] ELSE t
         /\ \A t \in Due :
              \E n \in DOMAIN wire' :
                 /\ wire'[n].id = event[t]
                 /\ wire'[n].at = IF feed = "task" THEN row[event[t]] ELSE t
<1>1. PICK order \in Ascending(Due) :
         wire' = [n \in DOMAIN order |->
                    [id |-> event[order[n]],
                     at |-> IF feed = "task" THEN row[event[order[n]]] ELSE order[n]]]
  BY DEF PollTasks
<1>2. /\ Cardinality(Due) \in Nat
      /\ order \in [1..Cardinality(Due) -> Due] /\ DOMAIN order = 1..Cardinality(Due)
      /\ \A x \in Due : \E n \in DOMAIN order : order[n] = x
  BY DueFacts, AscendingFacts
<1>3. \A t \in Due : t \in Stamp /\ event[t] \in Item /\ row[event[t]] \in Stamp
  <2>1. \A t \in Due : t \in Stamp /\ event[t] \in Existing
    BY DueFacts DEF Due, Stamp
  <2>2. QED BY <2>1 DEF Existing, TypeOK
<1>4. \A n \in DOMAIN order :
        [id |-> event[order[n]],
         at |-> IF feed = "task" THEN row[event[order[n]]] ELSE order[n]] \in Frame
  BY <1>2, <1>3 DEF Frame
<1>5. wire' \in [1..Cardinality(Due) -> Frame]
  BY <1>1, <1>2, <1>4
<1>6. wire' \in Seq(Frame) /\ DOMAIN wire' = DOMAIN order
  BY <1>2, <1>5, FunctionIsList
<1>7. \A n \in DOMAIN order :
         /\ wire'[n].id = event[order[n]]
         /\ wire'[n].at = IF feed = "task" THEN row[event[order[n]]] ELSE order[n]
  BY <1>1
<1>8. QED BY <1>2, <1>6, <1>7

\* The rows that a poll sends, and the newest of them.
LEMMA FreshFacts ==
  ASSUME TypeOK
  PROVE  /\ Fresh \subseteq Item /\ IsFiniteSet(Fresh)
         /\ Latest({row[i] : i \in Fresh}) \in Stamp
         /\ \A i \in Fresh : row[i] <= Latest({row[j] : j \in Fresh})
         /\ Fresh # {} => \E i \in Fresh : row[i] = Latest({row[j] : j \in Fresh})
<1> DEFINE S == {row[i] : i \in Fresh}
<1>1. Fresh \subseteq Item /\ \A i \in Fresh : row[i] \in Stamp
  BY DEF Fresh, Existing, TypeOK
<1>2. IsFiniteSet(Fresh)
  BY <1>1, FeedsAssumption, FS_Subset
<1>3. S \in SUBSET (0..MaxClock) /\ MaxClock \in Nat
  BY <1>1, FeedsAssumption DEF Stamp
<1>4. /\ Latest(S) \in 0..MaxClock
      /\ S # {} => Latest(S) \in S
      /\ \A u \in S : u <= Latest(S)
  BY <1>3, LatestFacts
<1>5. QED BY <1>1, <1>2, <1>4 DEF Stamp

\* The frames that a poll of the rows sends.
LEMMA PollRowsFacts ==
  ASSUME TypeOK, PollsRows
  PROVE  /\ wire' \in Seq(Frame)
         /\ \A n \in DOMAIN wire' : wire'[n].id \in Fresh /\ wire'[n].at = row[wire'[n].id]
         /\ \A i \in Fresh : \E n \in DOMAIN wire' : wire'[n].id = i /\ wire'[n].at = row[i]
<1>1. PICK order \in [1..Cardinality(Fresh) -> Fresh] :
         /\ \A n, k \in DOMAIN order : n < k => order[n] # order[k]
         /\ wire' = [n \in DOMAIN order |-> [id |-> order[n], at |-> row[order[n]]]]
  BY DEF PollsRows, PollRows
<1>2. /\ Cardinality(Fresh) \in Nat /\ DOMAIN order = 1..Cardinality(Fresh)
      /\ \A x \in Fresh : \E n \in DOMAIN order : order[n] = x
  BY <1>1, FreshFacts, OrderIsOnto
<1>3. \A n \in DOMAIN order : order[n] \in Fresh /\ [id |-> order[n], at |-> row[order[n]]] \in Frame
  BY FreshFacts DEF Frame, TypeOK
<1>4. wire' \in [1..Cardinality(Fresh) -> Frame]
  BY <1>1, <1>2, <1>3
<1>5. wire' \in Seq(Frame) /\ DOMAIN wire' = DOMAIN order
  BY <1>2, <1>4, FunctionIsList
<1>6. \A n \in DOMAIN order : wire'[n].id = order[n] /\ wire'[n].at = row[order[n]]
  BY <1>1
<1>7. QED BY <1>2, <1>3, <1>5, <1>6, SMTT(60)

\* The list that is loaded: each row once, the newest ones or all of them.
LEMMA LoadFacts ==
  ASSUME TypeOK, Load
  PROVE  /\ list' \in Seq(Card) /\ cut' \subseteq Frame
         /\ \A n \in DOMAIN list' : list'[n].id \in Existing /\ list'[n] = Put(list'[n].id, row[list'[n].id])
         /\ \A i \in Existing : (\E n \in DOMAIN list' : list'[n].id = i) \/ Version(i) \in cut'
         /\ feed = "task" => \A i \in Existing : \E n \in DOMAIN list' : list'[n].id = i
         /\ \A n, k \in DOMAIN list' : list'[n].id = list'[k].id => n = k
         /\ feed = "chat" => Ordered(list')
<1>1. PICK page \in SUBSET Queried : Newest(page) /\ cut' = Queried \ page /\
        \E order \in [1..Cardinality(page) -> page] :
          /\ \A n, k \in DOMAIN order : n < k => order[n] # order[k] /\
               IF feed = "chat" THEN order[n].at <= order[k].at
                                ELSE first[order[n].id] >= first[order[k].id]
          /\ list' = [n \in DOMAIN order |-> Put(order[n].id, order[n].at)]
  BY DEF Load
<1>2. PICK order \in Listings(page) :
          /\ feed = "chat" => \A n, k \in DOMAIN order : n < k => order[n].at <= order[k].at
          /\ list' = Cards(order)
  <2>1. PICK order \in [1..Cardinality(page) -> page] :
          /\ \A n, k \in DOMAIN order : n < k => order[n] # order[k] /\
               IF feed = "chat" THEN order[n].at <= order[k].at
                                ELSE first[order[n].id] >= first[order[k].id]
          /\ list' = [n \in DOMAIN order |-> Put(order[n].id, order[n].at)]
    BY <1>1
  <2>2. order \in Listings(page) /\ list' = Cards(order)
    BY <2>1 DEF Listings, Cards
  <2>3. QED BY <2>1, <2>2
<1>3. feed # "newsTask"
  BY DEF Load, News
<1>4. /\ Queried \subseteq Frame /\ \A f \in Queried : f.id \in Existing
      /\ \A f \in Queried : f.at = row[f.id] /\ f = Version(f.id)
      /\ \A i \in Existing : Version(i) \in Queried
  BY <1>3, QueriedFacts
<1>5. page \in SUBSET Frame
  BY <1>4
<1>7. /\ list' \in Seq(Card) /\ DOMAIN list' = DOMAIN order
      /\ \A n \in DOMAIN list' : /\ order[n] \in page /\ list'[n] = Put(order[n].id, order[n].at)
                                  /\ list'[n].id = order[n].id /\ list'[n].at = order[n].at
      /\ \A f \in page : \E n \in DOMAIN list' : list'[n] = Put(f.id, f.at)
      /\ (\A f, g \in page : f.id = g.id => f = g) => \A j : AtMostOne(list', j)
  <2>1. Lists(list', order, page)
    BY <1>2, <1>5, ListedFacts
  <2>2. QED BY <2>1 DEF Lists
<1>8. \A f, g \in page : f.id = g.id => f = g
  BY <1>1, <1>4
<1>9. \A n, k \in DOMAIN list' : list'[n].id = list'[k].id => n = k
  BY <1>7, <1>8 DEF AtMostOne
<1>10. \A n \in DOMAIN list' : list'[n].id \in Existing /\ list'[n] = Put(list'[n].id, row[list'[n].id])
  BY <1>1, <1>4, <1>7
<1>11. \A i \in Existing : Version(i) \in page => \E n \in DOMAIN list' : list'[n].id = i
  <2>1. ASSUME NEW i \in Existing, Version(i) \in page PROVE \E n \in DOMAIN list' : list'[n].id = i
    <3>1. PICK n \in DOMAIN list' : list'[n] = Put(Version(i).id, Version(i).at)
      BY <1>7, <2>1
    <3>2. list'[n].id = i
      BY <3>1 DEF Put, Version
    <3>3. QED BY <3>2
  <2>2. QED BY <2>1
<1>12. \A i \in Existing : Version(i) \in page \/ Version(i) \in cut'
  BY <1>1, <1>4
<1>13. feed = "task" => page = Queried
  BY <1>1 DEF Newest, Unlimited
<1>14. feed = "chat" => Ordered(list')
  <2>1. feed = "chat" => \A n, k \in DOMAIN order : n < k => order[n].at <= order[k].at
    BY <1>2
  <2>2. QED BY <1>7, <2>1 DEF Ordered
<1>15. cut' \subseteq Frame
  BY <1>1, <1>4
<1>16. feed = "task" => \A i \in Existing : \E n \in DOMAIN list' : list'[n].id = i
  BY <1>4, <1>11, <1>13
<1>17. QED BY <1>7, <1>9, <1>10, <1>11, <1>12, <1>14, <1>15, <1>16

\* The steps of the stream keep the types.
LEMMA StreamKeepsTypes ==
  ASSUME TypeOK, OfStream
  PROVE  TypeOK'
<1>1. CASE Load
  <2>1. list' \in Seq(Card) /\ cut' \subseteq Frame
    BY <1>1, LoadFacts
  <2>2. Since' \in Stamp
    <3>1. (list \in Seq(Card))' => (Since \in Stamp)'
      BY SinceFacts, PTL
    <3>2. QED BY <2>1, <3>1
  <2>3. cursor' \in 0..(MaxClock + 1)
    BY <1>1, <2>2, FeedsAssumption DEF Load, Stamp
  <2>4. QED BY <1>1, <2>1, <2>3 DEF Load, TypeOK, rows, rest, request, answers
<1>2. CASE Connect
  <2>1. Since \in 0..MaxClock /\ clock \in 0..MaxClock /\ MaxClock \in Nat
    BY SinceFacts, FeedsAssumption DEF TypeOK, Stamp
  <2>2. cursor' \in 0..(MaxClock + 1)
    BY <1>2, <2>1 DEF Connect
  <2>3. spoiled' \in BOOLEAN
    BY <1>2, Zenon DEF Connect, TypeOK
  <2>4. QED BY <1>2, <2>2, <2>3 DEF Connect, TypeOK, rows, rest, request, answers
<1>3. CASE Disconnect
  <2>1. Since \in 0..MaxClock /\ MaxClock \in Nat
    BY SinceFacts, FeedsAssumption DEF TypeOK, Stamp
  <2>2. cursor' \in 0..(MaxClock + 1)
    BY <1>3, <2>1 DEF Disconnect, TypeOK
  <2>3. spoiled' \in BOOLEAN
    BY <1>3, Zenon DEF Disconnect, TypeOK
  <2>4. QED BY <1>3, <2>2, <2>3 DEF Disconnect, TypeOK, rows, rest, request, answers
<1>4. CASE GroupEnds \/ GroupReopens
  BY <1>4 DEF GroupEnds, GroupReopens, TypeOK, rows, rest, request, answers
<1>5. CASE ReadsRow
  <2>1. Head(wire).id \in Item /\ Head(wire).at \in Stamp /\ wire' \in Seq(Frame)
    BY <1>5, ReadFacts DEF ReadsRow
  <2>2. list' \in Seq(Card)
    BY <1>5, <2>1, UpsertKeeps DEF ReadsRow, TypeOK
  <2>3. QED BY <1>5, <2>1, <2>2 DEF ReadsRow, TypeOK, rows, stream, rest, request, answers
<1>6. CASE ReadsMessage
  <2>1. Head(wire).id \in Item /\ Head(wire).at \in Stamp /\ wire' \in Seq(Frame)
    BY <1>6, ReadFacts DEF ReadsMessage
  <2>2. list' \in Seq(Card)
    BY <1>6, <2>1, InsertFacts DEF ReadsMessage, TypeOK
  <2>3. QED BY <1>6, <2>1, <2>2 DEF ReadsMessage, TypeOK, rows, stream, rest, request, answers
<1>7. CASE ReadsNews
  <2>1. Head(wire).id \in Item /\ Head(wire).at \in Stamp /\ wire' \in Seq(Frame)
    BY <1>7, ReadFacts DEF ReadsNews
  <2>2. list' \in Seq(Card) /\ fallen' \subseteq Card
    <3>1. list \in Seq(Card) /\ fallen \subseteq Card
      BY DEF TypeOK
    <3>2. \A again \in BOOLEAN : PushFeedItem(Head(wire).id, Head(wire).at, again) =>
            list' \in Seq(Card) /\ fallen' \subseteq Card
      BY <2>1, <3>1, PushFacts
    <3>3. \/ \E again \in BOOLEAN : PushFeedItem(Head(wire).id, Head(wire).at, again)
          \/ UNCHANGED <<list, fallen>>
      BY <1>7 DEF ReadsNews
    <3>4. QED BY <3>1, <3>2, <3>3
  <2>3. known' \in [Item -> Stamp]
    <3>1. known' = [known EXCEPT ![Head(wire).id] = Head(wire).at] \/ known' = known
      BY <1>7 DEF ReadsNews
    <3>2. known \in [Item -> Stamp]
      BY DEF TypeOK
    <3>3. QED BY <2>1, <3>1, <3>2
  <2>4. UNCHANGED <<feed, clock, first, row, gone, open, serving, event, pending, conn, cursor,
                    seen>>
    BY <1>7 DEF ReadsNews, rows, stream
  <2>5. UNCHANGED <<query, found, cut, made, asks, ask, stage, reply, before, spoiled>>
    BY <1>7 DEF ReadsNews, request, answers
  <2>6. QED BY <2>1, <2>2, <2>3, <2>4, <2>5 DEF TypeOK
<1>8. CASE PollTasks
  <2>1. wire' \in Seq(Frame) /\ Latest(Due) \in Stamp
    BY <1>8, PollTasksFacts, DueFacts
  <2>2. cursor' \in 0..(MaxClock + 1) /\ seen' \subseteq Stamp
    BY <1>8, <2>1, FeedsAssumption DEF PollTasks, Stamp
  <2>3. QED BY <1>8, <2>1, <2>2 DEF PollTasks, TypeOK, rows, rest, request, answers
<1>9. CASE PollsRows
  <2>1. wire' \in Seq(Frame) /\ Latest({row[i] : i \in Fresh}) \in Stamp
    BY <1>9, PollRowsFacts, FreshFacts
  <2>2. cursor' \in 0..(MaxClock + 1)
    BY <1>9, <2>1, FeedsAssumption DEF PollsRows, PollRows, Stamp
  <2>3. QED BY <1>9, <2>1, <2>2 DEF PollsRows, PollRows, TypeOK, rows, rest, request, answers
<1>10. CASE PushedOut
  <2>1. list' \in Seq(Card) /\ fallen' \subseteq Card
    BY <1>10, FallsOutFacts DEF PushedOut, TypeOK
  <2>2. QED BY <1>10, <2>1 DEF PushedOut, TypeOK, rows, stream, request, answers
<1>11. QED
  BY <1>1, <1>2, <1>3, <1>4, <1>5, <1>6, <1>7, <1>8, <1>9, <1>10 DEF OfStream

\* Transactions, deletions and failures keep the types.
LEMMA RowsKeepTypes ==
  ASSUME TypeOK, NEW i \in Item, OfRows(i)
  PROVE  TypeOK'
<1>1. CASE Begin(i) /\ (serving' = serving \/ serving' = serving \cup {i})
  <2>1. clock' \in Stamp /\ clock + 1 \in Stamp
    BY <1>1, FeedsAssumption DEF Begin, TypeOK, Stamp
  <2>2. QED BY <1>1, <2>1 DEF Begin, TypeOK, stream, rest, request, answers
<1>2. CASE Commit(i) \/ CommitTask(i) \/ CommitSilently(i)
  <2>0. CommitRow(i)
    BY <1>2 DEF Commit, CommitTask, CommitSilently
  <2>1. open[i] \in 1..MaxClock /\ open[i] \in Stamp /\ 0 \in Stamp /\ CommitRow(i)
    BY <2>0, FeedsAssumption DEF CommitRow, TypeOK, Stamp
  <2>2. spoiled' \in BOOLEAN
    <3>1. Commit(i) => spoiled' \in BOOLEAN
      BY Zenon DEF Commit
    <3>2. CommitTask(i) \/ CommitSilently(i) => spoiled' = spoiled
      BY DEF CommitTask, CommitSilently
    <3>3. QED BY <1>2, <3>1, <3>2 DEF TypeOK
  <2>3. /\ row' \in [Item -> Stamp] /\ open' \in [Item -> Stamp] /\ first' \in [Item -> Stamp]
        /\ reply' \in [Item -> Stamp]
    BY <2>1 DEF CommitRow, TypeOK
  <2>4. pending' \in [1..MaxClock -> Item \cup {None}]
    BY <1>2, <2>1 DEF Commit, CommitTask, CommitSilently, TypeOK
  <2>5. stage' \in [Item -> {"none", "asked", "done", "failed"}] /\ serving' \subseteq Item
    BY <1>2 DEF Commit, Answer, CommitTask, CommitSilently, TypeOK
  <2>6. QED BY <2>1, <2>2, <2>3, <2>4, <2>5 DEF CommitRow, TypeOK, stream, rest
<1>3. CASE Delete(i) /\ (stage' = stage \/ stage' = [stage EXCEPT ![i] = "done"])
  BY <1>3 DEF Delete, TypeOK, stream, rest
<1>4. CASE Fail(i)
  BY <1>4 DEF Fail, TypeOK, stream, rest
<1>5. ASSUME NEW t \in 1..MaxClock, Log(i, t) \/ LogFails(i, t)
      PROVE  TypeOK'
  <2>1. pending' = [pending EXCEPT ![t] = None]
    BY <1>5 DEF Log, LogFails
  <2>2. pending' \in [1..MaxClock -> Item \cup {None}]
    BY <2>1 DEF TypeOK
  <2>3. event' \in [1..MaxClock -> Item \cup {None}]
    BY <1>5 DEF Log, LogFails, TypeOK
  <2>4. stage' \in [Item -> {"none", "asked", "done", "failed"}] /\ serving' \subseteq Item
    BY <1>5 DEF Log, LogFails, Answer, TypeOK
  <2>5. spoiled' \in BOOLEAN
    <3>1. Log(i, t) => spoiled' \in BOOLEAN
      BY Zenon DEF Log
    <3>2. LogFails(i, t) => spoiled' = spoiled
      BY DEF LogFails
    <3>3. QED BY <1>5, <3>1, <3>2 DEF TypeOK
  <2>6. UNCHANGED <<feed, clock, first, row, gone, open, stream, wire, rest, list, made, asks,
                    ask, reply, before>>
    BY <1>5 DEF Log, LogFails
  <2>7. QED BY <2>2, <2>3, <2>4, <2>5, <2>6 DEF TypeOK, stream, rest
<1>6. QED
  BY <1>1, <1>2, <1>3, <1>4, <1>5 DEF OfRows, Logs, BeginOther, BeginOwn, DeleteOther, DeleteOwn

\* The requests of the page and their answers keep the types.
LEMMA PageKeepsTypes ==
  ASSUME TypeOK, NEW i \in Item, OfPage(i)
  PROVE  TypeOK'
<1> DEFINE kinds == {"none", "create", "move", "save", "delete", "decide", "post"}
<1>a. /\ list \in Seq(Card) /\ reply[i] \in Stamp /\ 0 \in Stamp
      /\ before[i] \in Seq(Card) /\ <<>> \in Seq(Card)
  BY FeedsAssumption DEF TypeOK, Stamp
<1>b. \A kind \in kinds : Ask(i, kind) =>
        /\ asks' \in 0..MaxAsks /\ ask' \in [Item -> kinds]
        /\ stage' \in [Item -> {"none", "asked", "done", "failed"}]
        /\ UNCHANGED <<feed, rows, stream, wire, rest, reply, spoiled>>
  BY FeedsAssumption DEF Ask, TypeOK
<1>c. \A kind : Finish(i, kind) =>
        /\ ask' \in [Item -> kinds] /\ stage' \in [Item -> {"none", "asked", "done", "failed"}]
        /\ reply' \in [Item -> Stamp] /\ before' \in [Item -> Seq(Card)]
        /\ UNCHANGED <<feed, rows, stream, wire, rest, made, asks>>
  BY <1>a DEF Finish, TypeOK
<1>d. \A kind : Answered(i, kind) => Finish(i, kind) /\ spoiled' \in BOOLEAN
  BY Zenon DEF Answered, TypeOK
<1>1. CASE AskMove(i)
  <2>1. Moved(list, i) \in Seq(Card)
    BY <1>a, MovedKeeps
  <2>2. QED BY <1>1, <1>a, <1>b, <2>1 DEF AskMove, TypeOK, rows, stream, rest
<1>2. CASE AsksOnly(i)
  <2>1. PICK kind \in Kinds \ {"none", "move"} :
          /\ Ask(i, kind) /\ UNCHANGED <<list, before>>
          /\ made' = IF kind \in {"create", "post"} THEN made \cup {i} ELSE made
    BY <1>2 DEF AsksOnly
  <2>2. kind \in kinds
    BY <2>1 DEF Kinds
  <2>3. QED BY <1>b, <2>1, <2>2 DEF TypeOK, rows, stream, rest
<1>3. CASE Created(i)
  <2>1. list' \in Seq(Card)
    BY <1>3, <1>a, PutFacts, PrependFacts DEF Created
  <2>2. QED BY <1>3, <1>c, <1>d, <2>1 DEF Created, TypeOK, rows, stream, rest
<1>4. CASE Replaced(i)
  <2>1. list' = Replace(i, reply[i]) /\ \E kind : Answered(i, kind)
    BY <1>4 DEF Replaced
  <2>2. list' \in Seq(Card)
    BY <1>a, <2>1, ReplaceKeeps
  <2>3. QED BY <1>c, <1>d, <2>1, <2>2 DEF TypeOK, rows, stream, rest
<1>5. CASE Posted(i)
  <2>1. list' \in Seq(Card)
    BY <1>5, <1>a, InsertFacts DEF Posted
  <2>2. QED BY <1>5, <1>c, <1>d, <2>1 DEF Posted, TypeOK, rows, stream, rest
<1>6. CASE Deleted(i)
  <2>1. list' \in Seq(Card)
    BY <1>6, <1>a, OthersKeeps DEF Deleted
  <2>2. QED BY <1>6, <1>c, <2>1 DEF Deleted, TypeOK, rows, stream, rest
<1>7. CASE MoveFailed(i)
  <2>1. spoiled' \in BOOLEAN
    BY <1>7, Zenon DEF MoveFailed, TypeOK
  <2>2. QED BY <1>7, <1>a, <1>c, <2>1 DEF MoveFailed, TypeOK, rows, stream, rest
<1>8. CASE RequestFailed(i)
  BY <1>8, <1>c DEF RequestFailed, TypeOK, rows, stream, rest
<1>9. QED BY <1>1, <1>2, <1>3, <1>4, <1>5, <1>6, <1>7, <1>8 DEF OfPage

\* The page has not been loaded, and each row has its first stamp or none.
LEMMA InitFacts ==
  ASSUME Init
  PROVE  /\ feed \in Feeds /\ clock = 1
         /\ row \in [Item -> {0, 1}] /\ first = row
         /\ event \in [1..MaxClock -> Item \cup {None}]
         /\ \A t \in 1..MaxClock : event[t] # None => feed = "newsTask" /\ t = 1 /\ row[event[t]] = 1
         /\ gone = {} /\ open = [i \in Item |-> 0] /\ serving = {} /\ made = {}
         /\ conn = "unloaded" /\ cursor = 0 /\ seen = {} /\ wire = <<>> /\ list = <<>>
         /\ query = "none" /\ found = {} /\ known = [i \in Item |-> 0]
         /\ pending = [t \in 1..MaxClock |-> None] /\ cut = {} /\ fallen = {}
         /\ asks = 0 /\ ask = [i \in Item |-> "none"] /\ stage = [i \in Item |-> "none"]
         /\ reply = [i \in Item |-> 0] /\ before = [i \in Item |-> <<>>] /\ spoiled = FALSE
<1>1. PICK S \in SUBSET Item :
        /\ row = [i \in Item |-> IF i \in S THEN 1 ELSE 0]
        /\ \E i \in IF feed = "newsTask" /\ S # {} THEN S ELSE {None} :
             event = [t \in 1..MaxClock |-> IF t = 1 THEN i ELSE None]
  BY Zenon DEF Init
<1>2. PICK i \in IF feed = "newsTask" /\ S # {} THEN S ELSE {None} :
        event = [t \in 1..MaxClock |-> IF t = 1 THEN i ELSE None]
  BY <1>1, Zenon
<1>3. row \in [Item -> {0, 1}] /\ \A j \in S : row[j] = 1
  BY <1>1
<1>4. (i = None) \/ (feed = "newsTask" /\ i \in S)
  BY <1>2
<1>5. i \in Item \cup {None}
  BY <1>4
<1>6. event \in [1..MaxClock -> Item \cup {None}]
  BY <1>2, <1>5
<1>7. \A t \in 1..MaxClock : event[t] # None => feed = "newsTask" /\ t = 1 /\ row[event[t]] = 1
  BY <1>2, <1>3, <1>4
<1>8. /\ feed \in Feeds /\ clock = 1 /\ first = row
      /\ gone = {} /\ open = [j \in Item |-> 0] /\ serving = {} /\ made = {}
      /\ conn = "unloaded" /\ cursor = 0 /\ seen = {} /\ wire = <<>> /\ list = <<>>
      /\ query = "none" /\ found = {} /\ known = [j \in Item |-> 0]
      /\ pending = [t \in 1..MaxClock |-> None] /\ cut = {} /\ fallen = {}
  BY Zenon DEF Init
<1>9. /\ asks = 0 /\ ask = [j \in Item |-> "none"] /\ stage = [j \in Item |-> "none"]
      /\ reply = [j \in Item |-> 0] /\ before = [j \in Item |-> <<>>] /\ spoiled = FALSE
  BY Zenon DEF Init
<1>10. QED BY <1>3, <1>6, <1>7, <1>8, <1>9

\* The variables have their types, for any number of rows, changes and requests.
THEOREM FeedsTyped == Spec => []TypeOK
<1>1. Init => TypeOK
  <2> SUFFICES ASSUME Init PROVE TypeOK
    OBVIOUS
  <2>2. 0 \in Stamp /\ 1 \in Stamp /\ <<>> \in Seq(Card) /\ <<>> \in Seq(Frame)
    BY FeedsAssumption DEF Stamp
  <2>3. row \in [Item -> Stamp]
    BY <2>2, InitFacts
  <2>4. cursor \in 0..(MaxClock + 1) /\ asks \in 0..MaxAsks
    BY FeedsAssumption, InitFacts
  <2>5. spoiled \in BOOLEAN
    BY InitFacts, Zenon
  <2>6. /\ ask \in [Item -> {"none", "create", "move", "save", "delete", "decide", "post"}]
        /\ stage \in [Item -> {"none", "asked", "done", "failed"}]
        /\ open \in [Item -> Stamp] /\ known \in [Item -> Stamp] /\ reply \in [Item -> Stamp]
        /\ before \in [Item -> Seq(Card)]
    <3>1. /\ ask = [i \in Item |-> "none"] /\ stage = [i \in Item |-> "none"]
          /\ open = [i \in Item |-> 0] /\ known = [i \in Item |-> 0]
          /\ reply = [i \in Item |-> 0] /\ before = [i \in Item |-> <<>>]
      BY InitFacts
    <3>2. ask \in [Item -> {"none"}] /\ stage \in [Item -> {"none"}]
      BY <3>1
    <3>3. QED BY <2>2, <3>1, <3>2
  <2>7. pending \in [1..MaxClock -> Item \cup {None}]
    BY InitFacts
  <2>8. QED BY <2>2, <2>3, <2>4, <2>5, <2>6, <2>7, InitFacts DEF TypeOK
<1>2. TypeOK /\ [Next]_vars => TypeOK'
  <2>1. ASSUME TypeOK, Next PROVE TypeOK'
    BY <2>1, StepKinds, QueryKeepsTypes, StreamKeepsTypes, RowsKeepTypes, PageKeepsTypes
  <2>2. ASSUME TypeOK, UNCHANGED vars PROVE TypeOK'
    BY <2>2 DEF TypeOK, vars, rows, stream, rest, request, answers
  <2>3. QED BY <2>1, <2>2
<1>3. QED BY <1>1, <1>2, PTL DEF Spec

-----------------------------------------------------------------------------
(* Stamps, versions and requests: the parts of the invariant that hold      *)
(* whether or not a race has happened.                                      *)

(* Stamps are given once; a transaction that is open has a newer stamp than *)
(* its row, and an event is of a change that has been committed.            *)
StampsInOrder ==
  /\ clock \in 1..MaxClock
  /\ \A i \in Item : /\ row[i] <= clock /\ open[i] <= clock
                     /\ open[i] # 0 => /\ open[i] > 1 /\ row[i] < open[i]
                                       /\ event[open[i]] = None /\ pending[open[i]] = None
  /\ \A i, j \in Item : open[i] = open[j] /\ i # j => open[i] = 0
  /\ \A t \in 1..MaxClock : event[t] # None => t <= clock /\ t <= row[event[t]]
  /\ \A t \in 1..MaxClock :
       pending[t] # None => /\ t > 1 /\ t <= clock /\ t <= row[pending[t]]
                            /\ event[t] = None /\ feed \in Tasks
  /\ feed = "task" => event[1] = None

(* Which requests a page makes, and how far they have come.                 *)
RequestsInStep ==
  \A i \in Item :
    /\ ask[i] \in Kinds /\ (ask[i] = "none" <=> stage[i] = "none")
    /\ ask[i] # "none" => conn # "unloaded"
    /\ ask[i] = "delete" /\ stage[i] = "done" => i \in gone
    /\ ask[i] = "post" /\ stage[i] = "asked" =>
         row[i] = 0 /\ reply[i] = 0 /\ (open[i] # 0 => i \in serving)
    /\ i \in serving => stage[i] = "asked" /\ ask[i] # "delete"
    /\ stage[i] = "none" => reply[i] = 0
    /\ feed \in Messages /\ open[i] # 0 => row[i] = 0
    /\ ask[i] = "create" => i \in made

\* Only transactions and deletions change rows, and only the page's own
\* requests and their answers change what it has asked.
LEMMA WhatChanges ==
  /\ OfQuery \/ OfStream \/ (\E i \in Item : OfPage(i)) =>
       UNCHANGED <<feed, clock, first, row, gone, open, serving, event, pending>>
  /\ OfQuery \/ OfStream =>
       UNCHANGED <<made, ask, stage, reply, before>> /\ (conn' = "unloaded" => conn = "unloaded")
  /\ (\E i \in Item : OfPage(i)) =>
       UNCHANGED <<conn, cursor, seen, wire, query, found, known, cut, fallen>>
  /\ (\E i \in Item : OfRows(i)) =>
       UNCHANGED <<feed, conn, cursor, seen, wire, query, found, known, cut, fallen, list, made,
                   ask, before>>
<1>1. OfQuery => /\ UNCHANGED <<feed, clock, first, row, gone, open, serving, event, pending>>
                 /\ UNCHANGED <<made, ask, stage, reply, before>>
                 /\ conn' = "unloaded" => conn = "unloaded"
  BY DEF OfQuery, QueryOpens, Opens, AskAgain, SeedAgain, ReadHistory, HistoryArrives, SeedsKept,
         SeedsShown, SeedsMissing, HistoryFails, rows, stream, request, answers
<1>2. OfStream => /\ UNCHANGED <<feed, clock, first, row, gone, open, serving, event, pending>>
                  /\ UNCHANGED <<made, ask, stage, reply, before>>
                  /\ conn' = "unloaded" => conn = "unloaded"
  BY DEF OfStream, Load, Connect, Disconnect, GroupEnds, GroupReopens, PushedOut, ReadsRow,
         ReadsMessage, ReadsNews, PollTasks, PollsRows, PollRows, rows, stream, request, answers
<1>3. ASSUME NEW i \in Item, OfPage(i)
      PROVE  /\ UNCHANGED <<feed, clock, first, row, gone, open, serving, event, pending>>
             /\ UNCHANGED <<conn, cursor, seen, wire, query, found, known, cut, fallen>>
  BY <1>3 DEF OfPage, AskMove, AsksOnly, Created, Replaced, Posted, Deleted, MoveFailed,
              RequestFailed, Ask, Answered, Finish, rows, stream, rest
<1>4. ASSUME NEW i \in Item, OfRows(i)
      PROVE  UNCHANGED <<feed, conn, cursor, seen, wire, query, found, known, cut, fallen, list,
                         made, ask, before>>
  BY <1>4 DEF OfRows, BeginOther, BeginOwn, Begin, Commit, CommitTask, CommitSilently, CommitRow,
              Logs, Log, LogFails, DeleteOther, DeleteOwn, Delete, Fail, stream, rest, request,
              answers
<1>5. QED BY <1>1, <1>2, <1>3, <1>4

\* What the commit of a row does, whether or not its change will be told.
LEMMA CommitFacts ==
  ASSUME TypeOK, NEW i \in Item, Commit(i) \/ CommitTask(i) \/ CommitSilently(i)
  PROVE  /\ CommitRow(i) /\ open[i] # 0 /\ open[i] \in 1..MaxClock
         /\ open'[i] = 0 /\ row'[i] = open[i]
         /\ \A j \in Item : j # i => open'[j] = open[j] /\ row'[j] = row[j] /\ reply'[j] = reply[j]
         /\ IF Own(i) THEN reply'[i] = open[i] ELSE reply'[i] = reply[i]
         /\ event' = event /\ clock' = clock
         /\ \A t \in 1..MaxClock : \/ pending'[t] = pending[t]
                                   \/ t = open[i] /\ pending'[t] = i /\ feed \in Tasks
<1>1. CommitRow(i)
  BY DEF Commit, CommitTask, CommitSilently
<1>2. open[i] # 0 /\ open[i] \in 1..MaxClock
  BY <1>1, FeedsAssumption DEF CommitRow, TypeOK, Stamp
<1>3. /\ open'[i] = 0 /\ row'[i] = open[i] /\ event' = event /\ clock' = clock
      /\ \A j \in Item : j # i => open'[j] = open[j] /\ row'[j] = row[j] /\ reply'[j] = reply[j]
      /\ IF Own(i) THEN reply'[i] = open[i] ELSE reply'[i] = reply[i]
  BY <1>1 DEF CommitRow, TypeOK
<1>4. pending' = pending \/ (feed \in Tasks /\ pending' = [pending EXCEPT ![open[i]] = i])
  BY DEF Commit, CommitTask, CommitSilently
<1>5. \A t \in 1..MaxClock : \/ pending'[t] = pending[t]
                             \/ t = open[i] /\ pending'[t] = i /\ feed \in Tasks
  BY <1>2, <1>4 DEF TypeOK
<1>6. QED BY <1>1, <1>2, <1>3, <1>5

\* What the transaction of an event does, or its failure.
LEMMA LogFacts ==
  ASSUME TypeOK, NEW i \in Item, NEW t \in 1..MaxClock, Log(i, t) \/ LogFails(i, t)
  PROVE  /\ pending[t] = i /\ i # None /\ pending'[t] = None
         /\ \A u \in 1..MaxClock : u # t => pending'[u] = pending[u] /\ event'[u] = event[u]
         /\ IF Log(i, t) THEN event'[t] = i ELSE event'[t] = event[t]
         /\ \A j \in Item : j # i => stage'[j] = stage[j] /\ (j \in serving' <=> j \in serving)
         /\ \/ i \in serving /\ reply[i] = t /\ i \notin serving' /\ stage'[i] \in {"done", "failed"}
            \/ UNCHANGED <<serving, stage>>
         /\ stage'[i] = "done" => stage[i] = "done" \/ (Log(i, t) /\ reply[i] = t)
         /\ UNCHANGED <<feed, clock, first, row, gone, open, conn, made, ask, reply>>
<1>1. /\ pending[t] = i /\ pending' = [pending EXCEPT ![t] = None]
      /\ UNCHANGED <<feed, clock, first, row, gone, open, conn, made, ask, reply>>
  BY DEF Log, LogFails, stream
<1>2. IF Log(i, t) THEN event' = [event EXCEPT ![t] = i] ELSE event' = event
  BY DEF Log, LogFails
<1>3. \/ /\ i \in serving /\ reply[i] = t /\ serving' = serving \ {i}
         /\ \/ stage' = [stage EXCEPT ![i] = "failed"]
            \/ Log(i, t) /\ stage' = [stage EXCEPT ![i] = "done"]
      \/ UNCHANGED <<serving, stage>>
  BY DEF Log, LogFails, Answer
<1>4. i # None
  BY FeedsAssumption
<1>5. /\ pending'[t] = None
      /\ \A u \in 1..MaxClock : u # t => pending'[u] = pending[u]
  BY <1>1 DEF TypeOK
<1>6. /\ \A u \in 1..MaxClock : u # t => event'[u] = event[u]
      /\ IF Log(i, t) THEN event'[t] = i ELSE event'[t] = event[t]
  BY <1>2 DEF TypeOK
<1>7. /\ \A j \in Item : j # i => stage'[j] = stage[j] /\ (j \in serving' <=> j \in serving)
      /\ \/ i \in serving /\ reply[i] = t /\ i \notin serving' /\ stage'[i] \in {"done", "failed"}
         \/ UNCHANGED <<serving, stage>>
      /\ stage'[i] = "done" => stage[i] = "done" \/ (Log(i, t) /\ reply[i] = t)
  BY <1>3 DEF TypeOK
<1>8. QED BY <1>1, <1>4, <1>5, <1>6, <1>7

\* Every step keeps the stamps, the open transactions and the log in order.
LEMMA StampsKept ==
  ASSUME TypeOK, StampsInOrder, Next
  PROVE  StampsInOrder'
<1>1. CASE UNCHANGED <<feed, clock, row, open, event, pending>>
  BY <1>1 DEF StampsInOrder
<1>2. ASSUME NEW i \in Item, Begin(i) PROVE StampsInOrder'
  <2>1. /\ clock' = clock + 1 /\ clock < MaxClock /\ open[i] = 0
        /\ open' = [open EXCEPT ![i] = clock + 1]
        /\ UNCHANGED <<feed, row, event, pending>>
    BY <1>2, FeedsAssumption DEF Begin, TypeOK, Stamp
  <2>2. MaxClock \in Nat /\ clock \in Nat /\ clock + 1 \in 1..MaxClock
        /\ \A j \in Item : row[j] \in Nat /\ open[j] \in Nat
    BY <2>1, FeedsAssumption DEF TypeOK, Stamp, StampsInOrder
  <2>3. open'[i] = clock + 1 /\ \A j \in Item : j # i => open'[j] = open[j]
    BY <2>1 DEF TypeOK
  <2>4. event[clock + 1] = None /\ pending[clock + 1] = None
    BY <2>2 DEF StampsInOrder
  <2>5. \A j \in Item : /\ row[j] <= clock + 1 /\ open'[j] <= clock + 1
                        /\ open'[j] # 0 => /\ open'[j] > 1 /\ row[j] < open'[j]
                                           /\ event[open'[j]] = None /\ pending[open'[j]] = None
    <3>1. ASSUME NEW j \in Item
          PROVE  /\ row[j] <= clock + 1 /\ open'[j] <= clock + 1
                 /\ open'[j] # 0 => /\ open'[j] > 1 /\ row[j] < open'[j]
                                    /\ event[open'[j]] = None /\ pending[open'[j]] = None
      <4>1. CASE j = i
        BY <2>2, <2>3, <2>4, <4>1 DEF StampsInOrder
      <4>2. CASE j # i
        BY <2>2, <2>3, <4>2 DEF StampsInOrder
      <4>3. QED BY <4>1, <4>2
    <3>2. QED BY <3>1
  <2>6. \A j, k \in Item : open'[j] = open'[k] /\ j # k => open'[j] = 0
    BY <2>2, <2>3 DEF StampsInOrder
  <2>7. \A t \in 1..MaxClock : event[t] # None => t <= clock + 1 /\ t <= row[event[t]]
    BY <2>2 DEF StampsInOrder
  <2>8. \A t \in 1..MaxClock :
          pending[t] # None => /\ t > 1 /\ t <= clock + 1 /\ t <= row[pending[t]]
                               /\ event[t] = None /\ feed \in Tasks
    BY <2>2 DEF StampsInOrder
  <2>9. QED BY <2>1, <2>2, <2>5, <2>6, <2>7, <2>8 DEF StampsInOrder
<1>3. ASSUME NEW i \in Item, Commit(i) \/ CommitTask(i) \/ CommitSilently(i)
      PROVE  StampsInOrder'
  <2>1. /\ open[i] # 0 /\ open[i] \in 1..MaxClock /\ open'[i] = 0 /\ row'[i] = open[i]
        /\ \A j \in Item : j # i => open'[j] = open[j] /\ row'[j] = row[j]
        /\ event' = event /\ clock' = clock /\ feed' = feed
        /\ \A t \in 1..MaxClock : \/ pending'[t] = pending[t]
                                  \/ t = open[i] /\ pending'[t] = i /\ feed \in Tasks
    BY <1>3, CommitFacts DEF CommitRow
  <2>2. MaxClock \in Nat /\ clock \in Nat /\ None \notin Item
        /\ \A j \in Item : row[j] \in Nat /\ open[j] \in Nat /\ open[j] <= MaxClock
    BY FeedsAssumption DEF TypeOK, Stamp, StampsInOrder
  <2>3. open[i] > 1 /\ row[i] < open[i] /\ open[i] <= clock /\ event[open[i]] = None
    BY <2>1 DEF StampsInOrder
  <2>4. \A j \in Item : j # i /\ open[j] # 0 => open[j] # open[i] /\ open[j] \in 1..MaxClock
    <3>1. \A j \in Item : j # i /\ open[j] # 0 => open[j] # open[i]
      BY <2>1 DEF StampsInOrder
    <3>2. QED BY <2>2, <3>1
  <2>5. ASSUME NEW j \in Item
        PROVE  /\ row'[j] <= clock /\ open'[j] <= clock
               /\ open'[j] # 0 => /\ open'[j] > 1 /\ row'[j] < open'[j]
                                  /\ event[open'[j]] = None /\ pending'[open'[j]] = None
    <3>1. CASE j = i
      BY <2>1, <2>2, <2>3, <3>1
    <3>2. CASE j # i
      <4>1. open[j] # 0 => pending'[open[j]] = pending[open[j]]
        BY <2>1, <2>4, <3>2
      <4>2. QED BY <2>1, <2>2, <3>2, <4>1 DEF StampsInOrder
    <3>3. QED BY <3>1, <3>2
  <2>6. \A j, k \in Item : open'[j] = open'[k] /\ j # k => open'[j] = 0
    BY <2>1 DEF StampsInOrder
  <2>7. \A j \in Item : row[j] <= row'[j] /\ row'[j] \in Nat
    BY <2>1, <2>2, <2>3
  <2>8. ASSUME NEW t \in 1..MaxClock, event[t] # None
        PROVE  t <= clock /\ t <= row'[event[t]]
    <3>1. t <= clock /\ t <= row[event[t]] /\ event[t] \in Item
      BY <2>8 DEF StampsInOrder, TypeOK
    <3>2. QED BY <2>2, <2>7, <3>1
  <2>9. ASSUME NEW t \in 1..MaxClock, pending'[t] # None
        PROVE  /\ t > 1 /\ t <= clock /\ t <= row'[pending'[t]]
               /\ event[t] = None /\ feed \in Tasks
    <3>1. CASE t = open[i] /\ pending'[t] = i /\ feed \in Tasks
      BY <2>1, <2>2, <2>3, <3>1
    <3>2. CASE pending'[t] = pending[t]
      <4>1. /\ t > 1 /\ t <= clock /\ t <= row[pending[t]] /\ pending[t] \in Item
            /\ event[t] = None /\ feed \in Tasks
        BY <2>9, <3>2 DEF StampsInOrder, TypeOK
      <4>2. QED BY <2>2, <2>7, <3>2, <4>1
    <3>3. QED BY <2>1, <3>1, <3>2
  <2>10. QED BY <2>1, <2>5, <2>6, <2>8, <2>9 DEF StampsInOrder
<1>4. ASSUME NEW i \in Item, Delete(i) \/ Fail(i) PROVE StampsInOrder'
  BY <1>1, <1>4 DEF Delete, Fail
<1>5. ASSUME NEW i \in Item, NEW t \in 1..MaxClock, Log(i, t) \/ LogFails(i, t)
      PROVE  StampsInOrder'
  <2>1. /\ pending[t] = i /\ i # None /\ pending'[t] = None
        /\ \A u \in 1..MaxClock : u # t => pending'[u] = pending[u] /\ event'[u] = event[u]
        /\ event'[t] = i \/ event'[t] = event[t]
        /\ UNCHANGED <<feed, clock, row, open>>
    BY <1>5, LogFacts
  <2>2. t > 1 /\ t <= clock /\ t <= row[i] /\ event[t] = None /\ feed \in Tasks
    BY <2>1 DEF StampsInOrder
  <2>3. \A j \in Item : open[j] # 0 => open[j] # t /\ open[j] \in 1..MaxClock
    <3>1. \A j \in Item : open[j] # 0 => pending[open[j]] = None
      BY DEF StampsInOrder
    <3>2. \A j \in Item : open[j] \in 0..MaxClock
      BY DEF TypeOK, Stamp
    <3>3. QED BY <2>1, <3>1, <3>2, FeedsAssumption
  <2>4. \A j \in Item : open[j] # 0 => event'[open[j]] = None /\ pending'[open[j]] = None
    <3>1. \A j \in Item : open[j] # 0 => event[open[j]] = None /\ pending[open[j]] = None
      BY DEF StampsInOrder
    <3>2. QED BY <2>1, <2>3, <3>1
  <2>5. \A u \in 1..MaxClock : event'[u] # None => u <= clock /\ u <= row[event'[u]]
    <3>1. \A u \in 1..MaxClock : event[u] # None => u <= clock /\ u <= row[event[u]]
      BY DEF StampsInOrder
    <3>2. QED BY <2>1, <2>2, <3>1
  <2>6. \A u \in 1..MaxClock :
          pending'[u] # None => /\ u > 1 /\ u <= clock /\ u <= row[pending'[u]]
                                /\ event'[u] = None /\ feed \in Tasks
    <3>1. \A u \in 1..MaxClock :
            pending[u] # None => /\ u > 1 /\ u <= clock /\ u <= row[pending[u]]
                                 /\ event[u] = None /\ feed \in Tasks
      BY DEF StampsInOrder
    <3>2. QED BY <2>1, <3>1
  <2>7. feed = "task" => event'[1] = None
    <3>1. 1 \in 1..MaxClock /\ t # 1
      BY <2>2, FeedsAssumption
    <3>2. QED BY <2>1, <3>1 DEF StampsInOrder
  <2>8. QED BY <2>1, <2>4, <2>5, <2>6, <2>7 DEF StampsInOrder
<1>6. QED BY <1>1, <1>2, <1>3, <1>4, <1>5, StepKinds, WhatChanges
          DEF OfRows, Logs, BeginOther, BeginOwn, DeleteOther, DeleteOwn

\* Every step keeps the requests of the page in step with their transactions.
LEMMA RequestsKept ==
  ASSUME TypeOK, RequestsInStep, Next
  PROVE  RequestsInStep'
<1>1. ASSUME OfQuery \/ OfStream PROVE RequestsInStep'
  BY <1>1, WhatChanges DEF RequestsInStep, Kinds
<1>2. ASSUME NEW i \in Item, Begin(i), BeginOther(i) \/ BeginOwn(i) PROVE RequestsInStep'
  <2>1. /\ open[i] = 0 /\ \A j \in Item : j # i => open'[j] = open[j]
        /\ UNCHANGED <<feed, conn, row, gone, made, ask, stage, reply>>
    BY <1>2 DEF Begin, TypeOK, stream, request, answers
  <2>2. \A j \in Item : j # i => (j \in serving' <=> j \in serving)
    BY <1>2 DEF BeginOther, BeginOwn
  <2>3. \/ serving' = serving /\ (ask[i] \in {"create", "post"} => row[i] # 0)
           /\ (feed \in Messages => row[i] = 0)
        \/ i \in serving' /\ stage[i] = "asked" /\ ask[i] # "delete"
    BY <1>2 DEF BeginOther, BeginOwn
  <2>4. open'[i] # 0
    BY <1>2, FeedsAssumption DEF Begin, TypeOK, Stamp
  <2>5. stage[i] = "asked" /\ feed \in Messages => row[i] = 0
    <3>1. stage[i] = "asked" => ask[i] \in Kinds \ {"none"}
      BY DEF RequestsInStep
    <3>2. feed \in Messages => Kinds \subseteq {"none", "post"}
      BY DEF Kinds, Messages, Groups
    <3>3. QED BY <3>1, <3>2 DEF RequestsInStep
  <2>6. Kinds' = Kinds
    BY <2>1 DEF Kinds
  <2>7. QED BY <2>1, <2>2, <2>3, <2>4, <2>5, <2>6 DEF RequestsInStep
<1>3. ASSUME NEW i \in Item, Commit(i) \/ CommitTask(i) \/ CommitSilently(i)
      PROVE  RequestsInStep'
  <2>1. /\ open[i] # 0 /\ open'[i] = 0
        /\ \A j \in Item : j # i => open'[j] = open[j] /\ row'[j] = row[j] /\ reply'[j] = reply[j]
        /\ ~Own(i) => reply'[i] = reply[i]
        /\ UNCHANGED <<feed, conn, gone, made, ask>>
    BY <1>3, CommitFacts DEF CommitRow, stream
  <2>2. Kinds' = Kinds
    BY <2>1 DEF Kinds
  <2>3. \/ Own(i) /\ serving' = serving \ {i} /\ stage' = [stage EXCEPT ![i] = "done"]
        \/ (feed \in Messages => ~Own(i)) /\ UNCHANGED <<serving, stage>>
    BY <1>3 DEF Commit, Answer, CommitTask, CommitSilently, Tasks, Messages, Groups
  <2>4. CASE Own(i) /\ serving' = serving \ {i} /\ stage' = [stage EXCEPT ![i] = "done"]
    <3>1. i \notin serving' /\ stage'[i] = "done" /\ i \in serving
          /\ \A j \in Item : j # i => stage'[j] = stage[j] /\ (j \in serving' <=> j \in serving)
      BY <2>4 DEF TypeOK, Own
    <3>2. QED BY <2>1, <2>2, <3>1 DEF RequestsInStep
  <2>5. CASE (feed \in Messages => ~Own(i)) /\ UNCHANGED <<serving, stage>>
    <3>1. stage[i] = "asked" => ask[i] # "post"
      <4>1. ask[i] = "post" => feed \in Messages
        BY DEF RequestsInStep, Kinds, Messages, Groups
      <4>2. QED BY <2>1, <2>5, <4>1 DEF RequestsInStep, Own
    <3>2. Own(i) => stage[i] = "asked"
      BY DEF RequestsInStep, Own
    <3>3. QED BY <2>1, <2>2, <2>5, <3>1, <3>2 DEF RequestsInStep
  <2>6. QED BY <2>3, <2>4, <2>5
<1>4. ASSUME NEW i \in Item, Delete(i), DeleteOther(i) \/ DeleteOwn(i) PROVE RequestsInStep'
  <2>1. /\ gone' = gone \cup {i} /\ UNCHANGED <<feed, conn, row, open, serving, made, ask, reply>>
        /\ \A j \in Item : j # i => stage'[j] = stage[j]
        /\ \/ stage'[i] = stage[i]
           \/ ask[i] = "delete" /\ stage[i] = "asked" /\ stage'[i] = "done"
    <3>1. gone' = gone \cup {i} /\ UNCHANGED <<feed, conn, row, open, serving, made, ask, reply>>
      BY <1>4 DEF Delete, stream
    <3>2. \/ stage' = stage
          \/ ask[i] = "delete" /\ stage[i] = "asked" /\ stage' = [stage EXCEPT ![i] = "done"]
      BY <1>4 DEF DeleteOther, DeleteOwn
    <3>3. QED BY <3>1, <3>2 DEF TypeOK
  <2>2. Kinds' = Kinds
    BY <2>1 DEF Kinds
  <2>3. QED BY <2>1, <2>2 DEF RequestsInStep
<1>5. ASSUME NEW i \in Item, Fail(i) PROVE RequestsInStep'
  <2>1. /\ UNCHANGED <<feed, conn, row, open, gone, made, ask, reply>> /\ serving' = serving \ {i}
        /\ \A j \in Item : j # i => stage'[j] = stage[j]
        /\ stage'[i] = "failed" /\ stage[i] # "none"
    BY <1>5 DEF Fail, TypeOK, stream
  <2>2. Kinds' = Kinds
    BY <2>1 DEF Kinds
  <2>3. QED BY <2>1, <2>2 DEF RequestsInStep
<1>6. ASSUME NEW i \in Item, OfPage(i) PROVE RequestsInStep'
  <2>1. UNCHANGED <<feed, row, gone, open, serving, conn>> /\ Kinds' = Kinds
    BY <1>6, WhatChanges DEF Kinds
  <2>2. \A kind : Ask(i, kind) =>
          /\ ask[i] = "none" /\ conn # "unloaded" /\ stage'[i] = "asked" /\ ask'[i] = kind
          /\ reply' = reply
          /\ \A j \in Item : j # i => ask'[j] = ask[j] /\ stage'[j] = stage[j]
    BY DEF Ask, TypeOK
  <2>3. \A kind : Finish(i, kind) =>
          /\ made' = made /\ stage'[i] = "none" /\ ask'[i] = "none" /\ ask[i] = kind
          /\ reply'[i] = 0
          /\ \A j \in Item : j # i => ask'[j] = ask[j] /\ stage'[j] = stage[j] /\ reply'[j] = reply[j]
    BY DEF Finish, TypeOK
  <2>4. CASE AskMove(i)
    <3>1. Ask(i, "move") /\ "move" \in Kinds /\ made' = made
      BY <2>4 DEF AskMove, Kinds
    <3>2. QED BY <2>1, <2>2, <3>1 DEF RequestsInStep
  <2>5. CASE AsksOnly(i)
    <3>1. PICK kind \in Kinds \ {"none", "move"} :
            /\ Ask(i, kind)
            /\ kind \in {"create", "post"} => New(i)
            /\ made' = IF kind \in {"create", "post"} THEN made \cup {i} ELSE made
      BY <2>5 DEF AsksOnly
    <3>2. kind \in {"create", "post"} => row[i] = 0 /\ open[i] = 0
      BY <3>1 DEF New
    <3>3. QED BY <2>1, <2>2, <3>1, <3>2 DEF RequestsInStep
  <2>6. CASE \E kind : Finish(i, kind) /\ stage[i] \in {"done", "failed"}
    <3>1. "none" \in Kinds
      BY DEF Kinds
    <3>2. PICK kind : Finish(i, kind) /\ stage[i] \in {"done", "failed"}
      BY <2>6
    <3>3. /\ made' = made /\ stage'[i] = "none" /\ ask'[i] = "none" /\ reply'[i] = 0
          /\ \A j \in Item : j # i => ask'[j] = ask[j] /\ stage'[j] = stage[j] /\ reply'[j] = reply[j]
      BY <2>3, <3>2
    <3>4. QED BY <2>1, <3>1, <3>2, <3>3 DEF RequestsInStep
  <2>7. QED BY <1>6, <2>4, <2>5, <2>6
        DEF OfPage, Created, Replaced, Posted, Deleted, MoveFailed, RequestFailed, Answered
<1>7. ASSUME NEW i \in Item, NEW t \in 1..MaxClock, Log(i, t) \/ LogFails(i, t)
      PROVE  RequestsInStep'
  <2>1. /\ UNCHANGED <<feed, row, gone, open, conn, made, ask, reply>>
        /\ \A j \in Item : j # i => stage'[j] = stage[j] /\ (j \in serving' <=> j \in serving)
        /\ \/ i \in serving /\ i \notin serving' /\ stage'[i] \in {"done", "failed"}
           \/ UNCHANGED <<serving, stage>>
    BY <1>7, LogFacts
  <2>2. Kinds' = Kinds
    BY <2>1 DEF Kinds
  <2>3. QED BY <2>1, <2>2 DEF RequestsInStep
<1>8. QED BY <1>1, <1>2, <1>3, <1>4, <1>5, <1>6, <1>7, StepKinds
          DEF OfRows, Logs, BeginOther, BeginOwn, DeleteOther, DeleteOwn

\* Every step keeps the types.
LEMMA TypesKept ==
  ASSUME TypeOK, Next
  PROVE  TypeOK'
BY StepKinds, QueryKeepsTypes, StreamKeepsTypes, RowsKeepTypes, PageKeepsTypes

(* The elements of the lists are cards and frames.                          *)
ElementsTyped ==
  /\ Len(list) \in Nat /\ DOMAIN list = 1..Len(list)
  /\ \A n \in DOMAIN list : /\ n \in Nat /\ list[n] \in Card
                           /\ list[n].id \in Item /\ list[n].at \in Stamp /\ list[n].at \in Nat
  /\ \A n \in DOMAIN wire : n \in Nat /\ wire[n].id \in Item /\ wire[n].at \in Nat
  /\ \A f \in found : f.id \in Item /\ f.at \in Stamp /\ f.at \in Nat
  /\ \A i \in Item : before[i] \in Seq(Card) /\ \A n \in DOMAIN before[i] : before[i][n].id \in Item
  /\ \A i \in Item : row[i] \in Nat /\ open[i] \in Nat /\ known[i] \in Nat /\ reply[i] \in Nat
  /\ clock \in Nat /\ cursor \in Nat

\* What the types say of the elements of the lists and sets.
LEMMA ElementsHaveTypes ==
  ASSUME TypeOK
  PROVE  ElementsTyped
<1>1. \A t \in Stamp : t \in Nat
  BY FeedsAssumption DEF Stamp
<1>2. /\ Len(list) \in Nat /\ DOMAIN list = 1..Len(list)
      /\ \A n \in DOMAIN list : /\ n \in Nat /\ list[n] \in Card
                               /\ list[n].id \in Item /\ list[n].at \in Stamp /\ list[n].at \in Nat
  BY CardFacts DEF TypeOK
<1>3. \A n \in DOMAIN wire : n \in Nat /\ wire[n].id \in Item /\ wire[n].at \in Nat
  <2>1. \A n \in DOMAIN wire : n \in Nat /\ wire[n] \in Frame
    BY ListFacts DEF TypeOK
  <2>2. QED BY <1>1, <2>1 DEF Frame
<1>4. \A f \in found : f.id \in Item /\ f.at \in Stamp /\ f.at \in Nat
  BY <1>1 DEF TypeOK, Frame
<1>5. \A i \in Item : before[i] \in Seq(Card) /\ \A n \in DOMAIN before[i] : before[i][n].id \in Item
  <2>1. \A i \in Item : before[i] \in Seq(Card)
    BY DEF TypeOK
  <2>2. QED BY <2>1, CardFacts
<1>6. \A i \in Item : row[i] \in Nat /\ open[i] \in Nat /\ known[i] \in Nat /\ reply[i] \in Nat
  BY <1>1 DEF TypeOK
<1>7. clock \in Nat /\ cursor \in Nat
  BY <1>1, FeedsAssumption DEF TypeOK
<1>8. QED BY <1>2, <1>3, <1>4, <1>5, <1>6, <1>7 DEF ElementsTyped

\* The same after a step.
LEMMA ElementsKeepTypes ==
  ASSUME TypeOK, Next
  PROVE  TypeOK' /\ ElementsTyped /\ ElementsTyped'
<1>1. TypeOK'
  BY TypesKept
<1>2. TypeOK' => ElementsTyped'
  BY ElementsHaveTypes, PTL
<1>3. QED BY <1>1, <1>2, ElementsHaveTypes

(* Whatever holds a version of a row holds one that was committed; of a     *)
(* message there is one.                                                    *)
VersionOf(last, t) == t \in 1..last /\ (feed \in Messages => t = last)

VersionsExist ==
  /\ \A n \in DOMAIN list : VersionOf(row[list[n].id], list[n].at)
  /\ \A n \in DOMAIN wire : VersionOf(row[wire[n].id], wire[n].at)
  /\ \A f \in found : VersionOf(row[f.id], f.at)
  /\ \A i \in Item : \A n \in DOMAIN before[i] : VersionOf(row[before[i][n].id], before[i][n].at)
  /\ \A i \in Item : /\ known[i] <= row[i] /\ reply[i] <= row[i]
                     /\ stage[i] = "done" /\ ask[i] # "delete" => VersionOf(row[i], reply[i])

\* A row only gets newer, and a message stays as it is.
LEMMA RowsGrow ==
  ASSUME TypeOK, StampsInOrder, RequestsInStep, Next
  PROVE  /\ feed' = feed
         /\ \A i \in Item : /\ row[i] \in Nat /\ row'[i] \in Nat /\ row[i] <= row'[i]
                            /\ feed \in Messages /\ row[i] # 0 => row'[i] = row[i]
                            /\ \A t : VersionOf(row[i], t) => VersionOf(row'[i], t)
<1>1. TypeOK'
  BY TypesKept
<1>2. \A i \in Item : row[i] \in Nat /\ row'[i] \in Nat
  BY <1>1, FeedsAssumption DEF TypeOK, Stamp
<1>3. /\ feed' = feed
      /\ \/ row' = row
         \/ \E i \in Item : Commit(i) \/ CommitTask(i) \/ CommitSilently(i)
  BY StepKinds, WhatChanges
     DEF OfRows, BeginOther, BeginOwn, Begin, Logs, Log, LogFails, DeleteOther, DeleteOwn, Delete, Fail
<1>4. \A i \in Item : row[i] <= row'[i] /\ (feed \in Messages /\ row[i] # 0 => row'[i] = row[i])
  <2>1. CASE row' = row
    BY <1>2, <2>1
  <2>2. ASSUME NEW i \in Item, Commit(i) \/ CommitTask(i) \/ CommitSilently(i)
        PROVE  \A j \in Item : row[j] <= row'[j] /\ (feed \in Messages /\ row[j] # 0 => row'[j] = row[j])
    <3>1. /\ open[i] # 0 /\ row'[i] = open[i] /\ open[i] \in Nat
          /\ \A j \in Item : j # i => row'[j] = row[j]
      <4>1. /\ open[i] # 0 /\ row'[i] = open[i] /\ open[i] \in 1..MaxClock
            /\ \A j \in Item : j # i => row'[j] = row[j]
        BY <2>2, CommitFacts
      <4>2. QED BY <4>1, FeedsAssumption
    <3>2. row[i] < open[i] /\ (feed \in Messages => row[i] = 0)
      BY <3>1 DEF StampsInOrder, RequestsInStep
    <3>3. QED BY <1>2, <3>1, <3>2
  <2>3. QED BY <1>3, <2>1, <2>2
<1>5. ASSUME NEW i \in Item, NEW t, VersionOf(row[i], t) PROVE VersionOf(row'[i], t)
  <2>1. t \in 1..row[i] /\ (feed \in Messages => t = row[i])
    BY <1>5 DEF VersionOf
  <2>2. t \in 1..row'[i] /\ row[i] # 0
    BY <1>2, <1>4, <2>1
  <2>3. QED BY <1>4, <2>1, <2>2 DEF VersionOf
<1>6. QED BY <1>2, <1>3, <1>4, <1>5

\* The frames of a poll, and the rows that a query reads, are committed versions.
LEMMA FramesExist ==
  ASSUME TypeOK, StampsInOrder, VersionsExist
  PROVE  /\ PollTasks \/ PollsRows => \A n \in DOMAIN wire' : VersionOf(row[wire'[n].id], wire'[n].at)
         /\ ReadHistory => \A f \in found' : VersionOf(row[f.id], f.at)
<1>1. \A i \in Existing : i \in Item /\ row[i] \in Nat /\ VersionOf(row[i], row[i])
  BY FeedsAssumption DEF Existing, TypeOK, Stamp, VersionOf
<1>2. feed \in Tasks => feed \notin Messages
  BY FeedKinds, FeedsAssumption DEF Tasks
<1>3. ASSUME feed \in Tasks, NEW t \in 1..clock, event[t] \in Existing
      PROVE  VersionOf(row[event[t]], t)
  <2>1. t \in 1..MaxClock /\ event[t] # None
    BY <1>1, <1>3, FeedsAssumption DEF StampsInOrder
  <2>2. t <= row[event[t]]
    BY <2>1 DEF StampsInOrder
  <2>3. QED BY <1>1, <1>2, <1>3, <2>1, <2>2 DEF VersionOf
<1>4. ASSUME PollTasks, NEW n \in DOMAIN wire' PROVE VersionOf(row[wire'[n].id], wire'[n].at)
  <2>1. PICK t \in Due : /\ wire'[n].id = event[t]
                         /\ wire'[n].at = IF feed = "task" THEN row[event[t]] ELSE t
    BY <1>4, PollTasksFacts
  <2>2. t \in 1..clock /\ event[t] \in Existing
    BY <2>1 DEF Due
  <2>3. feed \in Tasks
    BY <1>4 DEF PollTasks
  <2>4. QED BY <1>1, <1>3, <2>1, <2>2, <2>3
<1>5. ASSUME PollsRows, NEW n \in DOMAIN wire' PROVE VersionOf(row[wire'[n].id], wire'[n].at)
  BY <1>1, <1>5, PollRowsFacts DEF Fresh
<1>6. ReadHistory => found' \in SUBSET Queried
  BY DEF ReadHistory
<1>7. ASSUME ReadHistory, NEW f \in found' PROVE f.id \in Existing /\ VersionOf(row[f.id], f.at)
  <2>a. f \in Queried /\ f.id \in Existing
    BY <1>6, <1>7, QueriedFacts
  <2>1. CASE feed = "newsTask"
    <3>1. PICK t \in 1..clock : event[t] = f.id /\ t = f.at
      BY <2>a, <2>1, QueriedFacts
    <3>2. QED BY <1>3, <2>a, <2>1, <3>1 DEF Tasks
  <2>2. CASE feed # "newsTask"
    <3>1. f.at = row[f.id]
      BY <2>a, <2>2, QueriedFacts
    <3>2. QED BY <1>1, <2>a, <3>1
  <2>3. QED BY <2>a, <2>1, <2>2
<1>8. QED BY <1>4, <1>5, <1>7

\* A card is there already, or it shows a version of its row.
LEMMA CardsExist ==
  ASSUME TypeOK, StampsInOrder, RequestsInStep, VersionsExist, Next
  PROVE  \A n \in DOMAIN list' : \/ \E k \in DOMAIN list : /\ list'[n].id = list[k].id
                                                           /\ list'[n].at = list[k].at
                                 \/ VersionOf(row[list'[n].id], list'[n].at)
<1> DEFINE Goal == \A n \in DOMAIN list' : \/ \E k \in DOMAIN list : /\ list'[n].id = list[k].id
                                                                    /\ list'[n].at = list[k].at
                                           \/ VersionOf(row[list'[n].id], list'[n].at)
<1>a. list \in Seq(Card) /\ found \in SUBSET Frame
  BY DEF TypeOK
<1>b. \A f \in found : f.id \in Item /\ f.at \in Stamp
  BY <1>a DEF Frame
<1>c. \A i \in Item : reply[i] \in Stamp
  BY DEF TypeOK
<1>d. \A kind : Read(kind) => /\ Head(wire).id \in Item /\ Head(wire).at \in Stamp
                              /\ VersionOf(row[Head(wire).id], Head(wire).at)
  BY ReadFacts DEF VersionsExist
<1>e. \A i \in Item : \A kind : Answered(i, kind) /\ kind # "delete" => VersionOf(row[i], reply[i])
  BY DEF Answered, Finish, VersionsExist
<1>1. CASE list' = list
  BY <1>1
<1>2. CASE HistoryArrives
  <2>1. PICK order \in Arranged(Merged) : list' = Cards(order)
    BY <1>2 DEF HistoryArrives, Cards
  <2>2. /\ Merged \in SUBSET Frame
        /\ \A g \in Merged : \/ g \in found
                             \/ \E n \in DOMAIN list : list[n].id = g.id /\ list[n].at = g.at
    BY <1>a, MergedFacts
  <2>3. \A n \in DOMAIN list' : \E g \in Merged : list'[n] = Put(g.id, g.at)
    BY <2>1, <2>2, ArrangedFacts
  <2>4. \A g \in Merged : Put(g.id, g.at).id = g.id /\ Put(g.id, g.at).at = g.at
    BY <2>2, PutFacts DEF Frame
  <2>5. QED BY <2>2, <2>3, <2>4 DEF VersionsExist
<1>3. CASE SeedsShown
  <2>1. fallen \subseteq Card /\ cut \subseteq Frame
    BY DEF TypeOK
  <2>2. \A n \in DOMAIN list' : \E g \in found : list'[n] = Put(g.id, g.at)
    BY <1>a, <1>3, <2>1, SeedsFacts
  <2>3. \A g \in found : Put(g.id, g.at).id = g.id /\ Put(g.id, g.at).at = g.at
    BY <1>b, PutFacts
  <2>4. QED BY <2>2, <2>3 DEF VersionsExist
<1>4. CASE Load
  <2>1. \A n \in DOMAIN list' : list'[n].id \in Existing /\ list'[n] = Put(list'[n].id, row[list'[n].id])
    BY <1>4, LoadFacts
  <2>2. \A i \in Existing : i \in Item /\ row[i] \in Stamp /\ VersionOf(row[i], row[i])
    BY FeedsAssumption DEF Existing, TypeOK, Stamp, VersionOf
  <2>3. \A i \in Existing : Put(i, row[i]).at = row[i]
    BY <2>2, PutFacts
  <2>4. QED BY <2>1, <2>2, <2>3
<1>5. ASSUME NEW i \in Item, NEW t \in Stamp, VersionOf(row[i], t),
             \A n \in DOMAIN list' : \/ list'[n].id = i /\ list'[n].at = t
                                     \/ \E k \in DOMAIN list : /\ list'[n].id = list[k].id
                                                               /\ list'[n].at = list[k].at
      PROVE  Goal
  BY <1>5
<1>6. CASE ReadsRow
  <2>1. \A n \in DOMAIN list' : \/ list'[n] = Put(Head(wire).id, Head(wire).at)
                                \/ \E k \in DOMAIN list : list'[n] = list[k]
    BY <1>6, <1>a, <1>d, UpsertKeeps DEF ReadsRow
  <2>2. QED BY <1>5, <1>6, <1>d, <2>1, PutFacts DEF ReadsRow
<1>7. ASSUME NEW i \in Item, NEW t \in Stamp, VersionOf(row[i], t), list' = Insert(i, t)
      PROVE  Goal
  <2>1. Put(i, t) \in Card /\ Put(i, t).id = i /\ Put(i, t).at = t
    BY PutFacts
  <2>2. \A n \in DOMAIN Sorted(list, Put(i, t)) :
          \/ Sorted(list, Put(i, t))[n] = Put(i, t)
          \/ \E k \in DOMAIN list : Sorted(list, Put(i, t))[n] = list[k]
    BY <1>a, <2>1, SortedKeeps
  <2>3. QED BY <1>5, <1>7, <2>1, <2>2 DEF Insert
<1>8. ASSUME NEW i \in Item, NEW t \in Stamp, VersionOf(row[i], t),
             NEW again \in BOOLEAN, PushFeedItem(i, t, again)
      PROVE  Goal
  <2>1. fallen \subseteq Card
    BY DEF TypeOK
  <2>2. \A n \in DOMAIN list' : \/ \E k \in DOMAIN list : list'[n] = list[k]
                                \/ list'[n].id = i /\ list'[n].at = t
    BY <1>a, <1>8, <2>1, PushFacts
  <2>3. QED BY <1>5, <1>8, <2>2
<1>9. ASSUME NEW i \in Item, OfPage(i) PROVE Goal
  <2>1. CASE AskMove(i)
    BY <1>a, <2>1, MovedKeeps DEF AskMove, SameRows
  <2>2. CASE AsksOnly(i) \/ RequestFailed(i)
    BY <1>1, <2>2 DEF AsksOnly, RequestFailed
  <2>3. CASE Created(i)
    <3>1. \A n \in DOMAIN list' : \/ list'[n] = Put(i, reply[i])
                                  \/ \E k \in DOMAIN list : list'[n] = list[k]
      BY <1>a, <1>c, <2>3, PutFacts, PrependFacts DEF Created
    <3>2. VersionOf(row[i], reply[i])
      BY <1>e, <2>3 DEF Created
    <3>3. QED BY <1>5, <1>c, <3>1, <3>2, PutFacts
  <2>4. CASE Replaced(i)
    <3>1. list' = Replace(i, reply[i]) /\ VersionOf(row[i], reply[i])
      BY <1>e, <2>4 DEF Replaced
    <3>2. \A n \in DOMAIN list' : \/ list'[n] = Put(i, reply[i])
                                  \/ \E k \in DOMAIN list : list'[n] = list[k]
      BY <3>1 DEF Replace
    <3>3. QED BY <1>5, <1>c, <3>1, <3>2, PutFacts
  <2>5. CASE Posted(i)
    BY <1>7, <1>c, <1>e, <2>5 DEF Posted
  <2>6. CASE Deleted(i)
    <3>1. PICK others \in Ascending({n \in DOMAIN list : list[n].id # i}) :
             list' = [n \in DOMAIN others |-> list[others[n]]]
      BY <2>6 DEF Deleted
    <3>2. \A n \in DOMAIN list' : \E k \in DOMAIN list : list'[n] = list[k]
      BY <1>a, <3>1, OthersKeeps
    <3>3. QED BY <3>2
  <2>7. CASE MoveFailed(i)
    BY <2>7 DEF MoveFailed, VersionsExist
  <2>8. QED BY <1>9, <2>1, <2>2, <2>3, <2>4, <2>5, <2>6, <2>7 DEF OfPage
<1>10. CASE ReadsMessage
  BY <1>7, <1>10, <1>d DEF ReadsMessage
<1>11. CASE ReadsNews
  BY <1>1, <1>8, <1>11, <1>d DEF ReadsNews
<1>12. CASE QueryOpens \/ AskAgain \/ SeedAgain \/ ReadHistory \/ SeedsKept \/ SeedsMissing
            \/ HistoryFails
  BY <1>1, <1>12
     DEF QueryOpens, Opens, AskAgain, SeedAgain, ReadHistory, SeedsKept, SeedsMissing, HistoryFails
<1>p. CASE PushedOut
  <2>1. fallen \subseteq Card
    BY DEF TypeOK
  <2>2. \A n \in DOMAIN list' : n \in DOMAIN list /\ list'[n] = list[n]
    BY <1>a, <1>p, <2>1, FallsOutFacts DEF PushedOut
  <2>3. QED BY <2>2
<1>13. CASE Connect \/ Disconnect \/ GroupEnds \/ GroupReopens \/ PollTasks \/ PollsRows
  BY <1>1, <1>13 DEF Connect, Disconnect, GroupEnds, GroupReopens, PollTasks, PollsRows, PollRows
<1>14. ASSUME NEW i \in Item, OfRows(i) PROVE Goal
  BY <1>1, <1>14, WhatChanges
<1>15. QED
  BY <1>2, <1>3, <1>4, <1>6, <1>9, <1>10, <1>11, <1>12, <1>p, <1>13, <1>14, StepKinds
     DEF OfQuery, OfStream

\* The list a failed move restores is the one it began with.
LEMMA RestoredList ==
  ASSUME TypeOK, Next, NEW i \in Item
  PROVE  before'[i] = before[i] \/ before'[i] = <<>> \/ (before'[i] = list /\ AskMove(i))
<1>1. ASSUME NEW j \in Item, OfPage(j)
      PROVE  before'[i] = before[i] \/ before'[i] = <<>> \/ (before'[i] = list /\ AskMove(i))
  <2>1. CASE AskMove(j)
    BY <2>1 DEF AskMove, TypeOK
  <2>2. CASE AsksOnly(j)
    BY <2>2 DEF AsksOnly
  <2>3. CASE \E kind : Finish(j, kind)
    BY <2>3 DEF Finish, TypeOK
  <2>4. QED BY <1>1, <2>1, <2>2, <2>3
        DEF OfPage, Created, Replaced, Posted, Deleted, MoveFailed, RequestFailed, Answered
<1>2. QED BY <1>1, StepKinds, WhatChanges

\* No step makes up a version: what a list, a frame, a query or an answer holds
\* of a row was committed.
LEMMA VersionsKept ==
  ASSUME TypeOK, StampsInOrder, RequestsInStep, VersionsExist, Next
  PROVE  VersionsExist'
<1>a. TypeOK' /\ ElementsTyped'
  BY ElementsKeepTypes
<1>b. /\ feed' = feed
      /\ \A i \in Item : /\ row[i] \in Nat /\ row'[i] \in Nat /\ row[i] <= row'[i]
                         /\ \A t : VersionOf(row[i], t) => VersionOf(row'[i], t)
  BY RowsGrow
<1>1. ASSUME NEW n \in DOMAIN list' PROVE VersionOf(row'[list'[n].id], list'[n].at)
  <2>1. list'[n].id \in Item
    BY <1>a DEF ElementsTyped
  <2>2. VersionOf(row[list'[n].id], list'[n].at)
    BY CardsExist DEF VersionsExist
  <2>3. QED BY <1>b, <2>1, <2>2
<1>2. ASSUME NEW n \in DOMAIN wire' PROVE VersionOf(row'[wire'[n].id], wire'[n].at)
  <2>1. wire'[n].id \in Item
    BY <1>a DEF ElementsTyped
  <2>2. CASE PollTasks \/ PollsRows
    BY <1>b, <2>1, <2>2, FramesExist
  <2>3. CASE wire' = wire
    BY <1>b, <2>1, <2>3 DEF VersionsExist
  <2>4. CASE wire' = <<>>
    BY <2>4
  <2>5. CASE ReadsRow \/ ReadsMessage \/ ReadsNews
    <3>1. \E k \in DOMAIN wire : wire'[n] = wire[k]
      BY <2>5, ReadFacts DEF ReadsRow, ReadsMessage, ReadsNews
    <3>2. QED BY <1>b, <2>1, <3>1 DEF VersionsExist
  <2>6. OfQuery => wire' = wire
    BY DEF OfQuery, QueryOpens, Opens, AskAgain, SeedAgain, ReadHistory, HistoryArrives, SeedsKept,
           SeedsShown, SeedsMissing, HistoryFails
  <2>7. Load \/ Connect \/ GroupEnds \/ GroupReopens \/ Disconnect \/ PushedOut =>
          wire' = wire \/ wire' = <<>>
    BY DEF Load, Connect, GroupEnds, GroupReopens, Disconnect, PushedOut
  <2>8. QED BY <2>2, <2>3, <2>4, <2>5, <2>6, <2>7, StepKinds, WhatChanges DEF OfStream
<1>3. ASSUME NEW f \in found' PROVE VersionOf(row'[f.id], f.at)
  <2>1. f.id \in Item
    BY <1>a DEF ElementsTyped
  <2>2. CASE ReadHistory
    BY <1>b, <2>1, <2>2, FramesExist
  <2>3. CASE found' = found
    BY <1>b, <2>1, <2>3 DEF VersionsExist
  <2>4. CASE found' = {}
    BY <2>4
  <2>5. OfQuery => ReadHistory \/ found' = found \/ found' = {}
    BY DEF OfQuery, QueryOpens, Opens, AskAgain, SeedAgain, HistoryArrives, SeedsKept,
           SeedsShown, SeedsMissing, HistoryFails
  <2>6. OfStream => found' = found
    BY DEF OfStream, Load, Connect, Disconnect, GroupEnds, GroupReopens, PushedOut, ReadsRow, ReadsMessage,
           ReadsNews, PollTasks, PollsRows, PollRows, rest
  <2>7. QED BY <2>2, <2>3, <2>4, <2>5, <2>6, StepKinds, WhatChanges
<1>4. ASSUME NEW i \in Item, NEW n \in DOMAIN before'[i]
      PROVE  VersionOf(row'[before'[i][n].id], before'[i][n].at)
  <2>1. before'[i] \in Seq(Card) /\ before'[i][n].id \in Item
    BY <1>a DEF ElementsTyped
  <2>2. before'[i] = before[i] \/ before'[i] = <<>> \/ before'[i] = list
    BY RestoredList
  <2>3. VersionOf(row[before'[i][n].id], before'[i][n].at)
    BY <2>2 DEF VersionsExist
  <2>4. QED BY <1>b, <2>1, <2>3
<1>5. ASSUME NEW i \in Item PROVE known'[i] <= row'[i]
  <2>1. known[i] <= row[i] /\ known[i] \in Nat /\ known'[i] \in Nat
    BY <1>a, FeedsAssumption DEF VersionsExist, TypeOK, Stamp
  <2>2. CASE known'[i] = known[i]
    BY <1>b, <2>1, <2>2
  <2>3. CASE SeedsKept
    <3> DEFINE versions(j) == {f \in found : f.id = j /\ feed \in {"newsApproval", "newsAgent"}}
    <3>1. \A f \in versions(i) : f.at <= row[i]
      BY <1>b DEF VersionsExist, VersionOf
    <3>2. versions(i) # {} => (CHOOSE f \in versions(i) : TRUE) \in versions(i)
      OBVIOUS
    <3>3. known' = [j \in Item |-> IF versions(j) = {} THEN known[j]
                                   ELSE (CHOOSE f \in versions(j) : TRUE).at]
      BY <2>3 DEF SeedsKept
    <3> HIDE DEF versions
    <3>4. known'[i] <= row[i]
      BY <2>1, <3>1, <3>2, <3>3
    <3>5. QED BY <1>b, <2>1, <3>4
  <2>4. CASE ReadsNews
    <3>1. Head(wire).id \in Item /\ Head(wire) = wire[1] /\ 1 \in DOMAIN wire
      BY <2>4, ReadFacts DEF ReadsNews
    <3>2. Head(wire).at <= row[Head(wire).id]
      BY <1>b, <3>1 DEF VersionsExist, VersionOf
    <3>3. known'[i] = known[i] \/ (i = Head(wire).id /\ known'[i] = Head(wire).at)
      <4>1. known' = known \/ known' = [known EXCEPT ![Head(wire).id] = Head(wire).at]
        BY <2>4 DEF ReadsNews
      <4>2. QED BY <4>1, <3>1 DEF TypeOK
    <3>4. row[i] <= row'[i] /\ row[i] \in Nat /\ row'[i] \in Nat
      BY <1>b
    <3>5. CASE known'[i] = known[i]
      BY <2>2, <3>5
    <3>6. CASE i = Head(wire).id /\ known'[i] = Head(wire).at
      BY <2>1, <3>2, <3>4, <3>6
    <3>7. QED BY <3>3, <3>5, <3>6
  <2>5. OfQuery => SeedsKept \/ known' = known
    BY DEF OfQuery, QueryOpens, Opens, AskAgain, SeedAgain, ReadHistory, HistoryArrives,
           SeedsShown, SeedsMissing, HistoryFails
  <2>6. OfStream => ReadsNews \/ known' = known
    BY DEF OfStream, Load, Connect, Disconnect, GroupEnds, GroupReopens, PushedOut, ReadsRow, ReadsMessage,
           PollTasks, PollsRows, PollRows, rest
  <2>7. QED BY <2>2, <2>3, <2>4, <2>5, <2>6, StepKinds, WhatChanges
<1>6. ASSUME NEW i \in Item, stage'[i] = "done", ask'[i] # "delete" PROVE VersionOf(row'[i], reply'[i])
  <2>1. CASE stage[i] = "done" /\ ask[i] # "delete" /\ reply'[i] = reply[i]
    BY <1>b, <2>1 DEF VersionsExist
  <2>2. OfQuery \/ OfStream => stage[i] = "done" /\ ask[i] # "delete" /\ reply'[i] = reply[i]
    BY <1>6, WhatChanges
  <2>3. ASSUME NEW j \in Item, OfPage(j) PROVE stage[i] = "done" /\ ask[i] # "delete" /\ reply'[i] = reply[i]
    <3>1. CASE \E kind : Ask(j, kind)
      BY <1>6, <3>1 DEF Ask, TypeOK
    <3>2. CASE \E kind : Finish(j, kind)
      BY <1>6, <3>2 DEF Finish, TypeOK
    <3>3. QED BY <2>3, <3>1, <3>2
          DEF OfPage, AskMove, AsksOnly, Created, Replaced, Posted, Deleted, MoveFailed,
              RequestFailed, Answered
  <2>4. ASSUME NEW j \in Item, Commit(j) \/ CommitTask(j) \/ CommitSilently(j)
        PROVE  VersionOf(row'[i], reply'[i])
    <3>1. /\ row'[j] = open[j] /\ open[j] # 0 /\ ask' = ask
          /\ \A k \in Item : k # j => reply'[k] = reply[k]
          /\ IF Own(j) THEN reply'[j] = open[j] ELSE reply'[j] = reply[j]
      BY <2>4, CommitFacts DEF CommitRow
    <3>2. stage'[i] = stage[i] \/ (i = j /\ Own(j))
      BY <2>4 DEF Commit, CommitTask, CommitSilently, Answer, TypeOK
    <3>3. CASE i = j /\ Own(j)
      BY <1>b, <3>1, <3>3 DEF VersionOf
    <3>4. CASE ~(i = j /\ Own(j))
      <4>1. stage'[i] = stage[i] /\ reply'[i] = reply[i] /\ ask'[i] = ask[i]
        BY <3>1, <3>2, <3>4
      <4>2. QED BY <1>6, <2>1, <4>1
    <3>5. QED BY <3>3, <3>4
  <2>9. ASSUME NEW j \in Item, NEW t \in 1..MaxClock, Log(j, t) \/ LogFails(j, t)
        PROVE  VersionOf(row'[i], reply'[i])
    <3>1. /\ pending[t] = j /\ j # None /\ UNCHANGED <<row, ask, reply>>
          /\ \A k \in Item : k # j => stage'[k] = stage[k]
          /\ stage'[j] = "done" => stage[j] = "done" \/ reply[j] = t
      BY <2>9, LogFacts
    <3>2. t <= row[j] /\ feed \in Tasks /\ t \in Nat
      BY <3>1, FeedsAssumption DEF StampsInOrder
    <3>3. CASE i = j /\ reply[i] = t
      <4>1. feed \notin Messages
        BY <3>2, FeedKinds, FeedsAssumption DEF Tasks
      <4>2. QED BY <1>b, <3>1, <3>2, <3>3, <4>1 DEF VersionOf
    <3>4. CASE ~(i = j /\ reply[i] = t)
      <4>1. stage[i] = "done" /\ ask[i] # "delete" /\ reply'[i] = reply[i]
        BY <1>6, <3>1, <3>4
      <4>2. QED BY <2>1, <4>1
    <3>5. QED BY <3>3, <3>4
  <2>5. ASSUME NEW j \in Item, Begin(j) PROVE stage[i] = "done" /\ ask[i] # "delete" /\ reply'[i] = reply[i]
    BY <1>6, <2>5 DEF Begin, request, answers
  <2>6. ASSUME NEW j \in Item, Delete(j), DeleteOther(j) \/ DeleteOwn(j)
        PROVE  stage[i] = "done" /\ ask[i] # "delete" /\ reply'[i] = reply[i]
    <3>1. ask' = ask /\ reply' = reply
      BY <2>6 DEF Delete
    <3>2. stage' = stage \/ (ask[j] = "delete" /\ stage' = [stage EXCEPT ![j] = "done"])
      BY <2>6 DEF DeleteOther, DeleteOwn
    <3>3. QED BY <1>6, <3>1, <3>2 DEF TypeOK
  <2>7. ASSUME NEW j \in Item, Fail(j) PROVE stage[i] = "done" /\ ask[i] # "delete" /\ reply'[i] = reply[i]
    BY <1>6, <2>7 DEF Fail, TypeOK
  <2>8. QED BY <2>1, <2>2, <2>3, <2>4, <2>5, <2>6, <2>7, <2>9, StepKinds
            DEF OfRows, Logs, BeginOther, BeginOwn, DeleteOther, DeleteOwn
<1>7. ASSUME NEW i \in Item PROVE reply'[i] <= row'[i]
  <2>1. CASE reply'[i] = reply[i] \/ reply'[i] = 0
    <3>1. reply[i] <= row[i] /\ reply[i] \in Nat
      BY FeedsAssumption DEF VersionsExist, TypeOK, Stamp
    <3>2. QED BY <1>b, <2>1, <3>1
  <2>2. ASSUME NEW j \in Item, OfPage(j) PROVE reply'[i] = reply[i] \/ reply'[i] = 0
    <3>1. CASE \E kind : Ask(j, kind)
      BY <3>1 DEF Ask
    <3>2. CASE \E kind : Finish(j, kind)
      BY <3>2 DEF Finish, TypeOK
    <3>3. QED BY <2>2, <3>1, <3>2
          DEF OfPage, AskMove, AsksOnly, Created, Replaced, Posted, Deleted, MoveFailed,
              RequestFailed, Answered
  <2>3. ASSUME NEW j \in Item, Commit(j) \/ CommitTask(j) \/ CommitSilently(j)
        PROVE  reply'[i] = reply[i] \/ reply'[i] = row'[i]
    <3>1. /\ row'[j] = open[j] /\ \A k \in Item : k # j => reply'[k] = reply[k]
          /\ IF Own(j) THEN reply'[j] = open[j] ELSE reply'[j] = reply[j]
      BY <2>3, CommitFacts
    <3>2. QED BY <3>1
  <2>4. CASE reply'[i] = row'[i]
    BY <1>b, <2>4
  <2>5. ASSUME NEW j \in Item, OfRows(j), ~(Commit(j) \/ CommitTask(j) \/ CommitSilently(j))
        PROVE  reply' = reply
    BY <2>5 DEF OfRows, BeginOther, BeginOwn, Begin, Logs, Log, LogFails, DeleteOther, DeleteOwn,
                Delete, Fail, request, answers
  <2>6. QED BY <2>1, <2>2, <2>3, <2>4, <2>5, StepKinds, WhatChanges
<1>8. QED BY <1>b, <1>1, <1>2, <1>3, <1>4, <1>5, <1>6, <1>7 DEF VersionsExist, VersionOf

(* The stream, and the query that runs beside it.                           *)
StreamInStep ==
  /\ conn # "on" => wire = <<>> /\ seen = {}
  /\ feed \notin Tasks => seen = {}
  /\ seen \subseteq {cursor}
  /\ feed # "task" => \A n \in DOMAIN wire : wire[n].at <= cursor
  /\ conn = "on" => cursor > 0
  /\ conn = "unloaded" => list = <<>> /\ cursor = 0 /\ query = "none"
  /\ query \in {"none", "asked"} => found = {}
  /\ query # "none" => feed \in Groups \cup News
  /\ query = "kept" => feed \in News
  /\ conn = "ended" => feed \in Groups
  /\ feed \in News /\ cursor = 0 => list = <<>>

\* A page without requests of its own makes no step of them.
LEMMA NewsAsksNothing ==
  ASSUME RequestsInStep, NEW i \in Item, OfPage(i)
  PROVE  /\ feed \notin News /\ conn # "unloaded"
         /\ feed = "agent" => FALSE
<1>1. feed \in News \cup {"agent"} => Kinds = {"none"}
  BY DEF Kinds, News, Groups
<1>2. \A kind : Finish(i, kind) => /\ kind \in Kinds /\ kind = ask[i]
                                   /\ kind # "none" => conn # "unloaded"
  BY DEF Finish, RequestsInStep
<1>3. CASE AskMove(i)
  BY <1>3 DEF AskMove, Ask, News
<1>4. CASE AsksOnly(i)
  BY <1>1, <1>4 DEF AsksOnly, Ask
<1>5. CASE \E kind : Finish(i, kind) /\ kind # "none"
  BY <1>1, <1>2, <1>5
<1>6. CASE RequestFailed(i)
  <2>1. Finish(i, ask[i]) /\ ask[i] # "none"
    BY <1>6 DEF RequestFailed, RequestsInStep
  <2>2. QED BY <1>5, <2>1
<1>7. CASE Replaced(i)
  BY <1>5, <1>7 DEF Replaced, Answered
<1>8. CASE Created(i) \/ Posted(i) \/ Deleted(i) \/ MoveFailed(i)
  BY <1>5, <1>8 DEF Created, Posted, Deleted, MoveFailed, Answered
<1>9. QED BY <1>3, <1>4, <1>6, <1>7, <1>8 DEF OfPage

\* Every step keeps the connection, the cursor, the wire and the query in step.
LEMMA StreamStepKept ==
  ASSUME TypeOK, StampsInOrder, RequestsInStep, VersionsExist, StreamInStep, Next
  PROVE  StreamInStep'
<1>a. TypeOK' /\ ElementsTyped /\ ElementsTyped'
  BY ElementsKeepTypes
<1>b. /\ Reached \in Nat
      /\ conn = "on" => Reached = cursor
      /\ conn # "on" => cursor <= Reached /\ \A f \in found : f.at <= Reached
  BY ReachedFacts, FeedsAssumption DEF TypeOK
<1>c. \A f \in found : f.at > 0
  BY <1>a DEF VersionsExist, VersionOf, ElementsTyped
<1>1. CASE QueryOpens \/ AskAgain \/ SeedAgain
  BY <1>1 DEF QueryOpens, Opens, AskAgain, SeedAgain, StreamInStep, stream
<1>2. CASE ReadHistory \/ SeedsKept \/ SeedsMissing \/ HistoryFails
  BY <1>2 DEF ReadHistory, SeedsKept, SeedsMissing, HistoryFails, StreamInStep, stream
<1>3. CASE HistoryArrives
  <2>1. /\ query' = "none" /\ found' = {} /\ cursor' = Reached /\ feed \notin News
        /\ UNCHANGED <<feed, conn, seen, wire>> /\ query = "read"
    BY <1>3, FeedKinds DEF HistoryArrives
  <2>2. conn # "on" => wire = <<>> /\ seen = {}
    BY DEF StreamInStep
  <2>3. QED BY <1>b, <2>1, <2>2 DEF StreamInStep
<1>4. CASE SeedsShown
  <2>1. /\ query' = "none" /\ found' = {} /\ cursor' = Reached
        /\ UNCHANGED <<feed, conn, seen, wire>> /\ query = "kept"
    BY <1>4 DEF SeedsShown
  <2>2. conn # "on" => wire = <<>> /\ seen = {}
    BY DEF StreamInStep
  <2>3. Reached = 0 => list' = <<>>
    <3>1. Reached = 0 => found = {}
      BY <1>a, <1>b, <1>c DEF StreamInStep, ElementsTyped
    <3>3. \A n \in DOMAIN list' : \E f \in found : list'[n] = Put(f.id, f.at)
      <4>1. found \subseteq Frame /\ fallen \subseteq Card /\ cut \subseteq Frame
        BY DEF TypeOK
      <4>2. QED BY <1>4, <4>1, SeedsFacts
    <3>4. list' \in Seq(Card)
      BY <1>a DEF TypeOK
    <3>5. list' # <<>> => 1 \in DOMAIN list'
      BY <3>4
    <3>6. QED BY <3>1, <3>3, <3>5
  <2>4. QED BY <1>b, <2>1, <2>2, <2>3 DEF StreamInStep
<1>5. CASE Load
  BY <1>5, FeedKinds DEF Load, StreamInStep, rest
<1>6. CASE Connect
  <2>1. Since \in Nat /\ clock \in 1..MaxClock
    BY SinceFacts, FeedsAssumption DEF TypeOK, Stamp, StampsInOrder
  <2>2. cursor' > 0
    BY <1>6, <2>1, FeedsAssumption DEF Connect
  <2>3. /\ conn = "off" /\ conn' = "on" /\ seen' = {} /\ UNCHANGED <<feed, wire, query, found, list>>
    BY <1>6 DEF Connect, rest
  <2>4. wire = <<>>
    BY <2>3 DEF StreamInStep
  <2>5. QED BY <1>a, <2>2, <2>3, <2>4 DEF StreamInStep, ElementsTyped
<1>7. CASE Disconnect
  <2>1. /\ conn = "on" /\ conn' = "off" /\ wire' = <<>> /\ seen' = {}
        /\ cursor' = cursor \/ cursor' = Since
        /\ UNCHANGED <<feed, query, found, list>>
    BY <1>7 DEF Disconnect, rest
  <2>2. Since = 0 => list = <<>>
    <3>1. list # <<>> => \E n \in DOMAIN list : list[n].at = Since
      BY SinceFacts DEF TypeOK
    <3>2. \A n \in DOMAIN list : list[n].at > 0
      BY <1>a DEF VersionsExist, VersionOf, ElementsTyped
    <3>3. QED BY <3>1, <3>2
  <2>3. cursor > 0
    BY <2>1 DEF StreamInStep
  <2>4. QED BY <1>a, <2>1, <2>2, <2>3 DEF StreamInStep, ElementsTyped
<1>8. CASE GroupEnds \/ GroupReopens
  BY <1>8, FeedKinds DEF GroupEnds, GroupReopens, StreamInStep, rest
<1>p. CASE PushedOut
  <2>1. list # <<>> /\ UNCHANGED <<feed, conn, cursor, seen, wire, query, found>>
    BY <1>p DEF PushedOut, FallsOut, stream
  <2>2. QED BY <2>1 DEF StreamInStep
<1>9. CASE ReadsRow \/ ReadsMessage \/ ReadsNews
  <2>1. /\ conn = "on" /\ \A n \in DOMAIN wire' : \E k \in DOMAIN wire : wire'[n] = wire[k]
    BY <1>9, ReadFacts DEF ReadsRow, ReadsMessage, ReadsNews
  <2>2. UNCHANGED <<feed, conn, cursor, seen, query, found>>
    BY <1>9 DEF ReadsRow, ReadsMessage, ReadsNews, stream, rest
  <2>3. cursor > 0
    BY <2>1 DEF StreamInStep
  <2>4. QED BY <1>a, <2>1, <2>2, <2>3 DEF StreamInStep, ElementsTyped
<1>10. CASE PollTasks
  <2>1. /\ feed \in Tasks /\ conn = "on" /\ cursor' = Latest(Due) /\ seen' = {Latest(Due)} /\ Due # {}
        /\ UNCHANGED <<feed, conn, query, found, list>>
    BY <1>10 DEF PollTasks, rest
  <2>2. /\ Latest(Due) \in Due /\ Latest(Due) \in Nat /\ \A t \in Due : t <= Latest(Due)
        /\ \A t \in Due : t \in 1..clock
    BY <2>1, DueFacts DEF Due
  <2>3. Latest(Due) > 0
    BY <1>a, <2>2 DEF ElementsTyped
  <2>4. ASSUME feed # "task", NEW n \in DOMAIN wire' PROVE wire'[n].at <= Latest(Due)
    <3>1. PICK t \in Due : wire'[n].at = IF feed = "task" THEN row[event[t]] ELSE t
      BY <1>10, PollTasksFacts
    <3>2. QED BY <2>2, <2>4, <3>1
  <2>5. QED BY <2>1, <2>2, <2>3, <2>4 DEF StreamInStep
<1>11. CASE PollsRows
  <2>1. /\ feed \notin Tasks /\ conn = "on" /\ cursor' = Latest({row[i] : i \in Fresh}) /\ Fresh # {}
        /\ UNCHANGED <<feed, conn, seen, query, found, list>>
    BY <1>11 DEF PollsRows, PollRows, rest
  <2>2. /\ \A i \in Fresh : row[i] <= cursor' /\ i \in Item /\ row[i] # 0
        /\ \E i \in Fresh : row[i] = cursor'
    BY <2>1, FreshFacts DEF Fresh, Existing
  <2>3. cursor' > 0
    BY <1>a, <2>2 DEF ElementsTyped
  <2>4. \A n \in DOMAIN wire' : wire'[n].at <= cursor'
    BY <1>11, <2>2, PollRowsFacts
  <2>5. QED BY <2>1, <2>3, <2>4 DEF StreamInStep
<1>12. ASSUME NEW i \in Item, OfRows(i) PROVE StreamInStep'
  BY <1>12, WhatChanges DEF StreamInStep
<1>13. ASSUME NEW i \in Item, OfPage(i) PROVE StreamInStep'
  BY <1>13, WhatChanges, NewsAsksNothing DEF StreamInStep
<1>14. QED BY <1>1, <1>2, <1>3, <1>4, <1>5, <1>6, <1>7, <1>8, <1>p, <1>9, <1>10, <1>11, <1>12,
              <1>13, StepKinds DEF OfQuery, OfStream

(* What the stream has seen at its cursor is an event of the log.           *)
SeenTold == \A t \in seen : t \in 1..MaxClock /\ event[t] # None

\* What the generator remembers as sent is an event of the log.
LEMMA SeenToldKept ==
  ASSUME TypeOK, StampsInOrder, SeenTold, Next
  PROVE  SeenTold'
<1>1. \A t \in 1..MaxClock : event[t] # None => event'[t] # None
  <2>1. CASE event' = event
    BY <2>1
  <2>2. ASSUME NEW i \in Item, NEW u \in 1..MaxClock, Log(i, u)
        PROVE  \A t \in 1..MaxClock : event[t] # None => event'[t] # None
    BY <2>2, LogFacts
  <2>3. ASSUME NEW i \in Item, OfRows(i)
        PROVE  event' = event \/ \E u \in 1..MaxClock : Log(i, u)
    BY <2>3 DEF OfRows, BeginOther, BeginOwn, Begin, Commit, CommitTask, CommitSilently, CommitRow,
                Logs, LogFails, DeleteOther, DeleteOwn, Delete, Fail
  <2>4. QED BY <2>1, <2>2, <2>3, StepKinds, WhatChanges
<1>2. CASE PollTasks
  <2>1. seen' = {Latest(Due)} /\ Latest(Due) \in Due
    BY <1>2, DueFacts DEF PollTasks
  <2>2. Latest(Due) \in 1..clock /\ event[Latest(Due)] # None
    BY <2>1 DEF Due
  <2>3. Latest(Due) \in 1..MaxClock
    BY <2>2, FeedsAssumption DEF StampsInOrder
  <2>4. QED BY <1>1, <2>1, <2>2, <2>3 DEF SeenTold
<1>3. OfQuery \/ OfStream => PollTasks \/ seen' = seen \/ seen' = {}
  BY DEF OfQuery, QueryOpens, Opens, AskAgain, SeedAgain, ReadHistory, HistoryArrives, SeedsKept,
         SeedsShown, SeedsMissing, HistoryFails, OfStream, Load, Connect, Disconnect, GroupEnds,
         GroupReopens, PushedOut, ReadsRow, ReadsMessage, ReadsNews, PollsRows, PollRows, stream
<1>4. CASE seen' = seen \/ seen' = {}
  BY <1>1, <1>4 DEF SeenTold
<1>5. QED BY <1>2, <1>3, <1>4, StepKinds, WhatChanges

\* Those parts together.
InStep ==
  TypeOK /\ StampsInOrder /\ RequestsInStep /\ VersionsExist /\ StreamInStep /\ SeenTold

\* Before the page is loaded all of it is in step.
LEMMA InStepAtFirst ==
  ASSUME Init, TypeOK
  PROVE  InStep
<1>1. MaxClock \in Nat /\ 1 \in 1..MaxClock
  BY FeedsAssumption
<1>2. \A i \in Item : row[i] \in {0, 1} /\ open[i] = 0 /\ known[i] = 0 /\ stage[i] = "none"
                      /\ ask[i] = "none" /\ before[i] = <<>>
  BY InitFacts
<1>3. StampsInOrder
  <2>1. clock \in 1..MaxClock /\ clock = 1
    BY <1>1, InitFacts
  <2>2. \A t \in 1..MaxClock : event[t] # None => feed = "newsTask" /\ t = 1 /\ row[event[t]] = 1
    BY InitFacts
  <2>3. feed = "task" => event[1] = None
    BY <1>1, <2>2
  <2>a. \A t \in 1..MaxClock : pending[t] = None
    BY InitFacts
  <2>4. QED BY <1>1, <1>2, <2>1, <2>2, <2>3, <2>a DEF StampsInOrder
<1>4. RequestsInStep
  BY <1>2, InitFacts DEF RequestsInStep, Kinds
<1>5. VersionsExist
  BY <1>2, InitFacts DEF VersionsExist
<1>6. StreamInStep
  BY InitFacts DEF StreamInStep
<1>7. SeenTold
  BY InitFacts DEF SeenTold
<1>8. QED BY <1>3, <1>4, <1>5, <1>6, <1>7 DEF InStep

\* Every step keeps all of it in step.
LEMMA InStepKept ==
  ASSUME InStep, Next
  PROVE  InStep'
BY TypesKept, StampsKept, RequestsKept, VersionsKept, StreamStepKept, SeenToldKept DEF InStep

-----------------------------------------------------------------------------
(* The cards of a list.                                                     *)

FewCards(cards, i) ==
  IF feed = "task" /\ i \in made /\ ask[i] # "create" THEN AtMostTwo(cards, i)
                                                      ELSE AtMostOne(cards, i)
CardsUnique ==
  IF feed \in News THEN Distinct(list)
  ELSE \A i \in Item : FewCards(list, i) /\ \A j \in Item : FewCards(before[j], i)

\* The items of the activity page stay distinct.
LEMMA ItemsKept ==
  ASSUME InStep, feed \in News, Distinct(list), Next
  PROVE  Distinct(list')
<1>a. list \in Seq(Card) /\ found \subseteq Frame /\ fallen \subseteq Card /\ cut \subseteq Frame
  BY DEF InStep, TypeOK
<1>1. CASE list' = list
  BY <1>1
<1>2. CASE SeedsShown
  BY <1>a, <1>2, SeedsFacts
<1>3. CASE ReadsNews
  <2>1. Head(wire).id \in Item /\ Head(wire).at \in Stamp
    BY <1>3, ReadFacts DEF ReadsNews, InStep
  <2>2. ASSUME NEW again \in BOOLEAN, PushFeedItem(Head(wire).id, Head(wire).at, again)
        PROVE  Distinct(list')
    BY <1>a, <2>1, <2>2, PushFacts
  <2>3. QED BY <1>1, <1>3, <2>2 DEF ReadsNews
<1>4. OfQuery => SeedsShown \/ list' = list
  BY FeedKinds DEF OfQuery, QueryOpens, Opens, AskAgain, SeedAgain, ReadHistory, HistoryArrives,
                   SeedsKept, SeedsMissing, HistoryFails
<1>p. CASE PushedOut
  <2>1. \A n \in DOMAIN list' : n \in DOMAIN list /\ list'[n] = list[n]
    BY <1>a, <1>p, FallsOutFacts DEF PushedOut
  <2>2. QED BY <2>1 DEF Distinct
<1>5. OfStream => ReadsNews \/ PushedOut \/ list' = list
  BY FeedKinds DEF OfStream, Load, Connect, Disconnect, GroupEnds, GroupReopens, ReadsRow,
                   ReadsMessage, PollTasks, PollsRows, PollRows
<1>6. QED BY <1>1, <1>2, <1>3, <1>p, <1>4, <1>5, StepKinds, WhatChanges, NewsAsksNothing DEF InStep

\* A message that is sorted in, unless it is there, stays the only one of its row.
LEMMA InsertKeeps ==
  ASSUME list \in Seq(Card), NEW i \in Item, NEW t \in Stamp
  PROVE  /\ \A j : AtMostOne(list, j) => AtMostOne(Insert(i, t), j)
         /\ Ordered(list) => Ordered(Insert(i, t))
         /\ \A n \in DOMAIN list : \E k \in DOMAIN Insert(i, t) : Insert(i, t)[k] = list[n]
         /\ i \notin Shown => \E k \in DOMAIN Insert(i, t) : Insert(i, t)[k] = Put(i, t)
         /\ \A k \in DOMAIN Insert(i, t) : \/ Insert(i, t)[k] = Put(i, t)
                                           \/ \E n \in DOMAIN list : Insert(i, t)[k] = list[n]
<1> DEFINE s == Sorted(list, Put(i, t))
<1>1. Put(i, t) \in Card /\ Put(i, t).id = i
  BY PutFacts
<1>2. /\ \E n \in DOMAIN s : s[n] = Put(i, t)
      /\ \A n \in DOMAIN list : \E k \in DOMAIN s : s[k] = list[n]
      /\ \A k \in DOMAIN s : s[k] = Put(i, t) \/ \E n \in DOMAIN list : s[k] = list[n]
      /\ Ordered(list) => Ordered(s)
      /\ \A j : AtMostOne(list, j) /\ (i = j => \A n \in DOMAIN list : list[n].id # j)
           => AtMostOne(s, j)
  BY <1>1, SortedKeeps, ZenonT(60)
<1>3. Insert(i, t) = IF i \in Shown THEN list ELSE s
  BY DEF Insert
<1> HIDE DEF s
<1>4. i \notin Shown => \A n \in DOMAIN list : list[n].id # i
  BY DEF Shown
<1>5. QED BY <1>2, <1>3, <1>4

\* Every step keeps a row to its one card, or two where the page created it
\* before its stream told of it.
LEMMA CardsKept ==
  ASSUME InStep, CardsUnique, Next
  PROVE  CardsUnique'
<1> DEFINE two(i) == feed = "task" /\ i \in made' /\ ask'[i] # "create"
           few(cards, i) == IF two(i) THEN AtMostTwo(cards, i) ELSE AtMostOne(cards, i)
<1>a. list \in Seq(Card) /\ found \in SUBSET Frame /\ \A i \in Item : reply[i] \in Stamp
  BY DEF InStep, TypeOK
<1>b. feed' = feed
  BY RowsGrow DEF InStep
<1>c. \A cards, i : AtMostOne(cards, i) => AtMostTwo(cards, i)
  BY DEF AtMostOne, AtMostTwo
<1>d. ASSUME NEW i \in Item, feed = "task", i \in made, ask[i] # "create"
      PROVE  i \in made' /\ ask'[i] # "create"
  <2>1. ASSUME NEW j \in Item, OfPage(j) PROVE i \in made' /\ ask'[i] # "create"
    <3>1. CASE AskMove(j)
      BY <1>d, <3>1 DEF AskMove, Ask, InStep, TypeOK
    <3>2. CASE AsksOnly(j)
      <4>1. PICK kind : /\ Ask(j, kind)
                        /\ kind \in {"create", "post"} => New(j)
                        /\ made' = IF kind \in {"create", "post"} THEN made \cup {j} ELSE made
        BY <3>2 DEF AsksOnly
      <4>2. ask' = [ask EXCEPT ![j] = kind] /\ (kind = "create" => j \notin made)
        BY <4>1 DEF Ask, New
      <4>3. QED BY <1>d, <4>1, <4>2 DEF InStep, TypeOK
    <3>3. CASE \E kind : Finish(j, kind)
      BY <1>d, <3>3 DEF Finish, InStep, TypeOK
    <3>4. QED BY <2>1, <3>1, <3>2, <3>3
          DEF OfPage, Created, Replaced, Posted, Deleted, MoveFailed, RequestFailed, Answered
  <2>2. QED BY <1>d, <2>1, StepKinds, WhatChanges DEF InStep
<1>e. \A i \in Item : \A cards : FewCards(cards, i) => few(cards, i)
  BY <1>c, <1>d DEF FewCards
<1>1. CASE feed \in News
  BY <1>1, <1>b, ItemsKept DEF CardsUnique
<1>2. CASE feed \notin News
  <2>a. \A i \in Item : few(list, i) /\ \A j \in Item : few(before[j], i)
    BY <1>2, <1>e DEF CardsUnique
  <2>b. \A i \in Item : feed # "task" => AtMostOne(list, i)
    BY <1>2 DEF CardsUnique, FewCards
  <2>1. \A i, j \in Item : few(before'[j], i)
    <3>1. ASSUME NEW i \in Item, NEW j \in Item PROVE few(before'[j], i)
      <4>1. AtMostOne(<<>>, i)
        BY DEF AtMostOne
      <4>2. before'[j] = before[j] \/ before'[j] = <<>> \/ before'[j] = list
        BY RestoredList DEF InStep
      <4>3. QED BY <1>c, <2>a, <4>1, <4>2
    <3>2. QED BY <3>1
  <2>2. ASSUME NEW i \in Item PROVE few(list', i)
    <3>1. CASE list' = list
      BY <2>a, <3>1
    <3>2. ASSUME AtMostOne(list, i) => AtMostOne(list', i), AtMostTwo(list, i) => AtMostTwo(list', i)
          PROVE  few(list', i)
      BY <2>a, <3>2
    <3>3. ASSUME AtMostOne(list', i) PROVE few(list', i)
      BY <1>c, <3>3
    <3> HIDE DEF few
    <3>4. CASE HistoryArrives
      <4>1. feed # "task" /\ feed \in Messages
        BY <3>4, FeedKinds DEF HistoryArrives
      <4>2. /\ Merged \in SUBSET Frame
            /\ \A g \in Merged : \/ g \in found
                                 \/ \E n \in DOMAIN list : list[n].id = g.id /\ list[n].at = g.at
        BY <1>a, MergedFacts
      <4>3. \A g \in Merged : g.at = row[g.id]
        BY <4>1, <4>2 DEF InStep, VersionsExist, VersionOf
      <4>4. \A f, g \in Merged : f.id = g.id => f = g
        <5>1. \A f, g \in Frame : f.id = g.id /\ f.at = g.at => f = g
          BY DEF Frame
        <5>2. QED BY <4>2, <4>3, <5>1
      <4>5. PICK order \in Arranged(Merged) : list' = Cards(order)
        BY <3>4 DEF HistoryArrives, Cards
      <4>6. AtMostOne(list', i)
        BY <4>2, <4>4, <4>5, ArrangedFacts
      <4>7. QED BY <3>3, <4>6
    <3>5. CASE Load
      <4>1. AtMostOne(list', i)
        BY <3>5, LoadFacts DEF AtMostOne, InStep
      <4>2. QED BY <3>3, <4>1
    <3>6. CASE ReadsRow
      <4>1. Head(wire).id \in Item /\ Head(wire).at \in Stamp
        BY <3>6, ReadFacts DEF ReadsRow, InStep
      <4>2. QED BY <1>a, <3>2, <3>6, <4>1, UpsertKeeps DEF ReadsRow
    <3>7. CASE ReadsMessage
      <4>1. Head(wire).id \in Item /\ Head(wire).at \in Stamp /\ feed # "task"
        BY <3>7, ReadFacts, FeedKinds DEF ReadsMessage, InStep, Groups
      <4>2. AtMostOne(list', i)
        BY <1>a, <2>b, <3>7, <4>1, InsertKeeps DEF ReadsMessage
      <4>3. QED BY <3>3, <4>2
    <3>8. ASSUME NEW j \in Item, OfPage(j) PROVE few(list', i)
      <4>1. CASE AskMove(j)
        BY <1>a, <3>2, <4>1, MovedKeeps, SameRowsKeeps DEF AskMove
      <4>2. CASE AsksOnly(j) \/ RequestFailed(j)
        BY <3>1, <4>2 DEF AsksOnly, RequestFailed
      <4>3. CASE Created(j)
        <5>1. Put(j, reply[j]) \in Card /\ Put(j, reply[j]).id = j
          BY <1>a, PutFacts
        <5>2. list' = <<Put(j, reply[j])>> \o list
          BY <4>3 DEF Created
        <5>3. /\ \A k : AtMostOne(list, k) /\ (j = k => \A n \in DOMAIN list : list[n].id # k)
                          => AtMostOne(list', k)
              /\ \A k : AtMostOne(list, k) => AtMostTwo(list', k)
              /\ \A k : AtMostTwo(list, k) /\ j # k => AtMostTwo(list', k)
          BY <1>a, <5>1, <5>2, PrependKeeps
        <5>4. CASE i # j
          BY <3>2, <5>3, <5>4
        <5>5. CASE i = j
          <6>1. ask[i] = "create" /\ i \in made /\ feed = "task"
            BY <4>3, <5>5 DEF Created, Answered, Finish, InStep, RequestsInStep, Kinds
          <6>2. AtMostOne(list, i)
            BY <1>2, <6>1 DEF CardsUnique, FewCards
          <6>3. ask'[i] = "none" /\ made' = made
            BY <4>3, <5>5 DEF Created, Answered, Finish, InStep, TypeOK
          <6>4. QED BY <5>3, <6>1, <6>2, <6>3 DEF few
        <5>6. QED BY <5>4, <5>5
      <4>4. CASE Replaced(j)
        BY <1>a, <3>2, <4>4, ReplaceKeeps, SameRowsKeeps DEF Replaced
      <4>5. CASE Posted(j)
        <5>1. ask[j] = "post" /\ ask[j] \in Kinds
          BY <4>5 DEF Posted, Answered, Finish, InStep, RequestsInStep
        <5>2. feed # "task"
          BY <5>1 DEF Kinds, Groups
        <5>3. AtMostOne(list', i)
          BY <1>a, <2>b, <4>5, <5>2, InsertKeeps DEF Posted
        <5>4. QED BY <3>3, <5>3
      <4>6. CASE Deleted(j)
        <5>1. PICK others \in Ascending({n \in DOMAIN list : list[n].id # j}) :
                 list' = [n \in DOMAIN others |-> list[others[n]]]
          BY <4>6 DEF Deleted
        <5>2. QED BY <1>a, <3>2, <5>1, OthersKeeps
      <4>7. CASE MoveFailed(j)
        BY <2>a, <4>7 DEF MoveFailed, few
      <4>8. QED BY <3>8, <4>1, <4>2, <4>3, <4>4, <4>5, <4>6, <4>7 DEF OfPage
    <3>9. OfQuery => HistoryArrives \/ list' = list
      BY <1>2 DEF OfQuery, QueryOpens, Opens, AskAgain, SeedAgain, ReadHistory, SeedsKept,
                  SeedsShown, SeedsMissing, HistoryFails, InStep, StreamInStep
    <3>10. OfStream => Load \/ ReadsRow \/ ReadsMessage \/ list' = list
      BY <1>2 DEF OfStream, Connect, Disconnect, GroupEnds, GroupReopens, PushedOut, ReadsNews,
                  PollTasks, PollsRows, PollRows
    <3>11. QED BY <3>1, <3>4, <3>5, <3>6, <3>7, <3>8, <3>9, <3>10, StepKinds, WhatChanges DEF InStep
  <2>3. QED BY <1>2, <1>b, <2>1, <2>2 DEF CardsUnique, FewCards
<1>3. QED BY <1>1, <1>2

\* One card, or two, in numbers.
LEMMA CopiesCount ==
  ASSUME NEW i
  PROVE  /\ AtMostOne(list, i) => Cardinality(Copies(i)) <= 1
         /\ AtMostTwo(list, i) => Cardinality(Copies(i)) <= 2
<1>1. \A n \in Copies(i) : n \in DOMAIN list /\ list[n].id = i
  BY DEF Copies
<1>2. Cardinality({}) = 0 /\ IsFiniteSet({})
  BY FS_EmptySet
<1>3. \A n : IsFiniteSet({n}) /\ Cardinality({n}) = 1
  BY FS_Singleton
<1>4. CASE Copies(i) = {}
  BY <1>2, <1>4
<1>5. ASSUME NEW n \in Copies(i)
      PROVE  /\ AtMostOne(list, i) => Cardinality(Copies(i)) <= 1
             /\ AtMostTwo(list, i) => Cardinality(Copies(i)) <= 2
  <2>1. ASSUME AtMostOne(list, i) PROVE Copies(i) = {n}
    BY <1>1, <1>5, <2>1 DEF AtMostOne
  <2>2. ASSUME AtMostTwo(list, i), NEW k \in Copies(i), k # n PROVE Copies(i) = {n} \cup {k}
    BY <1>1, <1>5, <2>2 DEF AtMostTwo
  <2>3. \A k : k # n => Cardinality({n} \cup {k}) = 2
    <3>1. ASSUME NEW k, k # n PROVE Cardinality({n} \cup {k}) = 2
      <4>1. Cardinality({n} \cup {k}) = IF k \in {n} THEN Cardinality({n}) ELSE Cardinality({n}) + 1
        BY <1>3, FS_AddElement
      <4>2. Cardinality({n} \cup {k}) = Cardinality({n}) + 1
        BY <3>1, <4>1
      <4>3. Cardinality({n}) = 1
        BY <1>3
      <4>4. QED BY <4>2, <4>3
    <3>2. QED BY <3>1
  <2>4. (\A k \in Copies(i) : k = n) => Copies(i) = {n}
    BY <1>5
  <2>5. AtMostOne(list, i) => Cardinality(Copies(i)) <= 1
    <3>1. Cardinality({n}) <= 1
      BY <1>3
    <3>2. QED BY <2>1, <3>1
  <2>6. ASSUME AtMostTwo(list, i) PROVE Cardinality(Copies(i)) <= 2
    <3>1. CASE \A k \in Copies(i) : k = n
      <4>1. Cardinality({n}) <= 2
        BY <1>3
      <4>2. QED BY <2>4, <3>1, <4>1
    <3>2. ASSUME NEW k \in Copies(i), k # n PROVE Cardinality(Copies(i)) <= 2
      <4>1. Copies(i) = {n} \cup {k}
        BY <2>2, <2>6, <3>2
      <4>2. Cardinality({n} \cup {k}) <= 2
        BY <2>3, <3>2
      <4>3. QED BY <4>1, <4>2
    <3>3. QED BY <3>1, <3>2
  <2>7. QED BY <2>5, <2>6
<1>6. QED BY <1>4, <1>5

\* The cards of a row, counted.
LEMMA FewCardsCount ==
  ASSUME CardsUnique
  PROVE  UniqueCards
<1>1. CASE feed \in News
  BY <1>1 DEF CardsUnique, UniqueCards, Distinct
<1>2. ASSUME feed \notin News, NEW i \in Item
      PROVE  Cardinality(Copies(i)) <= IF feed = "task" /\ i \in made THEN 2 ELSE 1
  <2>1. FewCards(list, i)
    BY <1>2 DEF CardsUnique
  <2>2. AtMostOne(list, i) => AtMostTwo(list, i)
    BY DEF AtMostOne, AtMostTwo
  <2>3. CASE feed = "task" /\ i \in made
    BY <2>1, <2>2, <2>3, CopiesCount DEF FewCards
  <2>4. CASE ~(feed = "task" /\ i \in made)
    BY <2>1, <2>4, CopiesCount DEF FewCards
  <2>5. QED BY <2>3, <2>4
<1>3. QED BY <1>1, <1>2 DEF UniqueCards

\* The chat, and the lists of a group, stay in the order of their stamps.
LEMMA OrderKept ==
  ASSUME InStep, feed \in {"chat"} \cup Groups, Ordered(list), Next
  PROVE  Ordered(list')
<1>a. list \in Seq(Card) /\ found \in SUBSET Frame /\ \A i \in Item : reply[i] \in Stamp
  BY DEF InStep, TypeOK
<1>b. feed \notin News /\ feed \notin {"task", "approval", "agent"}
  BY DEF News, Groups
<1>1. CASE list' = list
  BY <1>1
<1>2. CASE HistoryArrives
  <2>1. Merged \in SUBSET Frame
    BY <1>a, MergedFacts
  <2>2. PICK order \in Arranged(Merged) : list' = Cards(order)
    BY <1>2 DEF HistoryArrives, Cards
  <2>3. QED BY <2>1, <2>2, ArrangedFacts
<1>3. CASE Load
  BY <1>3, LoadFacts DEF Load, InStep
<1>4. CASE ReadsMessage
  <2>1. Head(wire).id \in Item /\ Head(wire).at \in Stamp
    BY <1>4, ReadFacts DEF ReadsMessage, InStep
  <2>2. QED BY <1>a, <1>4, <2>1, InsertKeeps DEF ReadsMessage
<1>5. ASSUME NEW i \in Item, OfPage(i) PROVE Ordered(list')
  <2>1. Kinds = {"none", "post"}
    BY DEF Kinds, Groups
  <2>2. \A kind : Finish(i, kind) => kind \in {"none", "post"}
    BY <2>1 DEF Finish, InStep, RequestsInStep
  <2>3. CASE Posted(i)
    BY <1>a, <2>3, InsertKeeps DEF Posted
  <2>4. CASE AsksOnly(i) \/ RequestFailed(i)
    BY <1>1, <2>4 DEF AsksOnly, RequestFailed
  <2>5. ~AskMove(i)
    BY <1>b DEF AskMove
  <2>6. ~(Created(i) \/ Replaced(i) \/ Deleted(i) \/ MoveFailed(i))
    BY <2>2 DEF Created, Replaced, Deleted, MoveFailed, Answered
  <2>7. QED BY <1>5, <2>3, <2>4, <2>5, <2>6 DEF OfPage
<1>6. OfQuery => HistoryArrives \/ list' = list
  BY <1>b DEF OfQuery, QueryOpens, Opens, AskAgain, SeedAgain, ReadHistory, SeedsKept,
              SeedsShown, SeedsMissing, HistoryFails, InStep, StreamInStep
<1>7. OfStream => Load \/ ReadsMessage \/ list' = list
  BY <1>b DEF OfStream, Connect, Disconnect, GroupEnds, GroupReopens, PushedOut, ReadsRow, ReadsNews,
              PollTasks, PollsRows, PollRows
<1>8. QED BY <1>1, <1>2, <1>3, <1>4, <1>5, <1>6, <1>7, StepKinds, WhatChanges DEF InStep

-----------------------------------------------------------------------------
(* Statuses the page has set itself.                                        *)

(* The list that a failed move restores shows no status of that move.       *)
RestoredSettled ==
  ~spoiled => \A i \in Item : ask[i] = "move" =>
                \A n \in DOMAIN before[i] : before[i][n].id = i => ~before[i][n].mine

\* What has happened stays known.
LEMMA SpoiledStays ==
  ASSUME Next, ~spoiled'
  PROVE  ~spoiled
<1>1. Stream => (spoiled => spoiled')
  BY DEF Stream, Load, PollTasks, PollApprovals, PollAgents, PollChat, PollGroup, PollRows,
         ReadTask, ReadApproval, ReadAgent, ReadChat, ReadGroupChat, ReadGroupNotes,
         ReadNewsTask, ReadNewsApproval, ReadNewsAgent, ReadNewsChat
<1>2. Connect \/ Disconnect \/ GroupEnds \/ GroupReopens \/ PushedOut => (spoiled => spoiled')
  BY DEF Connect, Disconnect, GroupEnds, GroupReopens, PushedOut
<1>3. ConnectTasks \/ ConnectApprovals \/ ConnectAgents \/ ConnectChat
      \/ ConnectGroupChat \/ ConnectGroupNotes \/ ConnectNewsTasks
      \/ ConnectNewsApprovals \/ ConnectNewsAgents \/ ConnectNewsChat => Connect
  BY DEF ConnectTasks, ConnectApprovals, ConnectAgents, ConnectChat, ConnectGroupChat,
         ConnectGroupNotes, ConnectNewsTasks, ConnectNewsApprovals, ConnectNewsAgents,
         ConnectNewsChat
<1>4. OpenGroup \/ AskAgain \/ OpenActivity \/ SeedAgain \/ History \/ SeedsMissing
      \/ HistoryFails
        => (spoiled => spoiled')
  BY DEF OpenGroup, OpenActivity, Opens, AskAgain, SeedAgain, History, ReadHistory,
         HistoryArrives, SeedsKept, SeedsShown, SeedsMissing, HistoryFails
<1>5. ASSUME NEW i \in Item PROVE BeginOther(i) \/ CommitSilently(i) \/ DeleteOther(i) \/ Server(i)
                                   \/ (\E t \in 1..MaxClock : LogFails(i, t)) => (spoiled => spoiled')
  BY DEF BeginOther, Begin, Server, Commit, CommitTask, CommitSilently, Log, LogFails, DeleteOther,
         Delete, Serve, BeginOwn, DeleteOwn, Fail
<1>6. ASSUME NEW i \in Item PROVE AskCreate(i) \/ AskMove(i) \/ AskSave(i) \/ AskDelete(i)
                                   \/ AskDecide(i) \/ AskPost(i) \/ AskGroupChat(i)
                                   \/ AskGroupNote(i) \/ Page(i) => (spoiled => spoiled')
  BY DEF AskCreate, AskMove, AskSave, AskDelete, AskDecide, AskPost, AskGroupChat, AskGroupNote,
         Ask, Page, Created, MoveDone, Saved, Decided, Posted, Deleted, MoveFailed,
         RequestFailed, Answered
<1>7. QED BY <1>1, <1>2, <1>3, <1>4, <1>5, <1>6 DEF Next

\* Every step keeps a status of the page's own to the request that set it, in the
\* list and in the list a failed move restores.
LEMMA MovesKept ==
  ASSUME InStep, MovesSettle, RestoredSettled, Next
  PROVE  MovesSettle' /\ RestoredSettled'
<1> SUFFICES ASSUME ~spoiled'
             PROVE  /\ \A n \in DOMAIN list' : list'[n].mine => ask'[list'[n].id] = "move"
                    /\ \A i \in Item : ask'[i] = "move" =>
                         \A n \in DOMAIN before'[i] : before'[i][n].id = i => ~before'[i][n].mine
  BY DEF MovesSettle, RestoredSettled
<1>a. /\ ~spoiled
      /\ \A n \in DOMAIN list : list[n].mine => ask[list[n].id] = "move"
      /\ \A i \in Item : ask[i] = "move" =>
           \A n \in DOMAIN before[i] : before[i][n].id = i => ~before[i][n].mine
  BY SpoiledStays DEF MovesSettle, RestoredSettled
<1>b. /\ list \in Seq(Card) /\ found \subseteq Frame /\ fallen \subseteq Card /\ cut \subseteq Frame
      /\ \A i \in Item : reply[i] \in Stamp /\ before[i] \in Seq(Card)
  BY DEF InStep, TypeOK
<1>c. TypeOK' /\ ElementsTyped /\ ElementsTyped'
  BY ElementsKeepTypes DEF InStep
<1>d. \A i \in Item, t \in Stamp : ~Put(i, t).mine
  BY PutFacts
<1>1. ASSUME NEW i \in Item, ask'[i] = "move", NEW n \in DOMAIN before'[i], before'[i][n].id = i
      PROVE  ~before'[i][n].mine
  <2>1. CASE before'[i] = list /\ AskMove(i)
    <3>1. ask[i] = "none"
      BY <2>1 DEF AskMove, Ask
    <3>2. QED BY <1>1, <1>a, <2>1, <3>1
  <2>2. CASE before'[i] = <<>>
    BY <1>1, <2>2
  <2>3. CASE before'[i] = before[i]
    <3>1. CASE ask[i] = "move"
      BY <1>1, <1>a, <2>3, <3>1
    <3>2. CASE ask[i] # "move"
      <4>1. ASSUME NEW j \in Item, OfPage(j) PROVE AskMove(i)
        <5>1. CASE AskMove(j)
          BY <1>1, <3>2, <5>1 DEF AskMove, Ask, InStep, TypeOK
        <5>2. CASE AsksOnly(j)
          BY <1>1, <3>2, <5>2 DEF AsksOnly, Ask, InStep, TypeOK
        <5>3. CASE \E kind : Finish(j, kind)
          BY <1>1, <3>2, <5>3 DEF Finish, InStep, TypeOK
        <5>4. QED BY <4>1, <5>1, <5>2, <5>3
              DEF OfPage, Created, Replaced, Posted, Deleted, MoveFailed, RequestFailed, Answered
      <4>2. AskMove(i)
        BY <1>1, <3>2, <4>1, StepKinds, WhatChanges DEF InStep
      <4>3. before'[i] = list /\ ask[i] = "none"
        BY <4>2 DEF AskMove, Ask, InStep, TypeOK
      <4>4. QED BY <1>1, <1>a, <4>3
    <3>3. QED BY <3>1, <3>2
  <2>4. QED BY <2>1, <2>2, <2>3, RestoredList DEF InStep
<1>2. ASSUME NEW n \in DOMAIN list', list'[n].mine PROVE ask'[list'[n].id] = "move"
  <2>1. CASE ask' = ask /\ \E k \in DOMAIN list : list'[n] = list[k]
    BY <1>2, <1>a, <2>1
  <2>2. CASE \E i \in Item, t \in Stamp : list'[n] = Put(i, t)
    BY <1>2, <1>d, <2>2
  <2>3. CASE HistoryArrives
    <3>1. Merged \in SUBSET Frame /\ \A g \in Merged : g.id \in Item /\ g.at \in Stamp
      BY <1>b, MergedFacts DEF Frame
    <3>2. PICK order \in Arranged(Merged) : list' = Cards(order)
      BY <2>3 DEF HistoryArrives, Cards
    <3>3. \E g \in Merged : list'[n] = Put(g.id, g.at)
      BY <1>2, <3>1, <3>2, ArrangedFacts
    <3>4. QED BY <2>2, <3>1, <3>3
  <2>4. CASE SeedsShown
    <3>1. \A g \in found : g.id \in Item /\ g.at \in Stamp
      BY <1>b DEF Frame
    <3>2. \E g \in found : list'[n] = Put(g.id, g.at)
      BY <1>2, <1>b, <2>4, SeedsFacts
    <3>3. QED BY <2>2, <3>1, <3>2
  <2>5. CASE Load
    <3>1. list'[n] = Put(list'[n].id, row[list'[n].id]) /\ list'[n].id \in Item
      BY <1>2, <2>5, LoadFacts DEF InStep, Existing
    <3>2. row[list'[n].id] \in Stamp
      BY <3>1 DEF InStep, TypeOK
    <3>3. QED BY <2>2, <3>1, <3>2
  <2>6. CASE ReadsRow
    <3>1. Head(wire).id \in Item /\ Head(wire).at \in Stamp
      BY <2>6, ReadFacts DEF ReadsRow, InStep
    <3>2. \/ list'[n] = Put(Head(wire).id, Head(wire).at)
          \/ \E k \in DOMAIN list : list'[n] = list[k]
      BY <1>2, <1>b, <2>6, <3>1, UpsertKeeps DEF ReadsRow
    <3>3. ask' = ask
      BY <2>6 DEF ReadsRow, request, answers
    <3>4. QED BY <2>1, <2>2, <3>1, <3>2, <3>3
  <2>7. CASE ReadsMessage
    <3>1. Head(wire).id \in Item /\ Head(wire).at \in Stamp
      BY <2>7, ReadFacts DEF ReadsMessage, InStep
    <3>2. \/ list'[n] = Put(Head(wire).id, Head(wire).at)
          \/ \E k \in DOMAIN list : list'[n] = list[k]
      BY <1>2, <1>b, <2>7, <3>1, InsertKeeps DEF ReadsMessage
    <3>3. ask' = ask
      BY <2>7 DEF ReadsMessage, request, answers
    <3>4. QED BY <2>1, <2>2, <3>1, <3>2, <3>3
  <2>8. CASE ReadsNews
    <3>1. Head(wire).id \in Item /\ Head(wire).at \in Stamp /\ ask' = ask
      BY <2>8, ReadFacts DEF ReadsNews, InStep, request, answers
    <3>2. CASE list' = list
      BY <1>2, <2>1, <3>1, <3>2
    <3>3. ASSUME NEW again \in BOOLEAN, PushFeedItem(Head(wire).id, Head(wire).at, again)
          PROVE  ask'[list'[n].id] = "move"
      <4>1. (\E k \in DOMAIN list : list'[n] = list[k]) \/ ~list'[n].mine
        BY <1>2, <1>b, <3>1, <3>3, PushFacts
      <4>2. QED BY <1>2, <2>1, <3>1, <4>1
    <3>4. QED BY <2>8, <3>2, <3>3 DEF ReadsNews
  <2>9. ASSUME NEW i \in Item, OfPage(i) PROVE ask'[list'[n].id] = "move"
    <3>a. ASSUME NEW kind, Finish(i, kind), NEW k \in DOMAIN list, list'[n] = list[k],
                 kind # "move" \/ list[k].id # i
          PROVE  ask'[list'[n].id] = "move"
      <4>1. list[k].id \in Item /\ ask[list[k].id] = "move"
        BY <1>2, <1>a, <1>c, <3>a DEF ElementsTyped
      <4>2. ask[i] = kind /\ ask' = [ask EXCEPT ![i] = "none"]
        BY <3>a DEF Finish
      <4>3. list[k].id # i
        BY <3>a, <4>1, <4>2
      <4>4. ask'[list[k].id] = ask[list[k].id]
        BY <4>1, <4>2, <4>3 DEF InStep, TypeOK
      <4>5. QED BY <3>a, <4>1, <4>4
    <3>1. CASE AskMove(i)
      <4>1. /\ n \in DOMAIN list /\ list'[n].id = list[n].id
            /\ list'[n].mine => list[n].id = i \/ list[n].mine
        BY <1>2, <1>b, <3>1, MovedKeeps DEF AskMove, SameRows
      <4>2. ask' = [ask EXCEPT ![i] = "move"]
        BY <3>1 DEF AskMove, Ask
      <4>3. QED BY <1>2, <1>a, <1>c, <4>1, <4>2 DEF InStep, TypeOK, ElementsTyped
    <3>2. CASE AsksOnly(i)
      <4>1. list' = list /\ \E kind : ask[i] = "none" /\ ask' = [ask EXCEPT ![i] = kind]
        BY <3>2 DEF AsksOnly, Ask
      <4>2. QED BY <1>2, <1>a, <1>c, <4>1 DEF InStep, TypeOK, ElementsTyped
    <3>3. CASE Created(i)
      <4>1. Finish(i, "create") /\ list' = <<Put(i, reply[i])>> \o list
        BY <3>3 DEF Created, Answered
      <4>2. Put(i, reply[i]) \in Card
        BY <1>b, PutFacts
      <4>a. list \in Seq(Card) /\ n \in DOMAIN list'
        BY <1>2, <1>b
      <4>b. (<<Put(i, reply[i])>> \o list)[1] = Put(i, reply[i])
        BY <4>2, <4>a, PrependFacts
      <4>c. \A k \in DOMAIN (<<Put(i, reply[i])>> \o list) :
              k # 1 => k - 1 \in DOMAIN list /\ (<<Put(i, reply[i])>> \o list)[k] = list[k - 1]
        BY <4>2, <4>a, PrependFacts
      <4>3. list'[n] = Put(i, reply[i]) \/ \E k \in DOMAIN list : list'[n] = list[k]
        BY <4>1, <4>a, <4>b, <4>c
      <4>4. QED BY <1>b, <2>2, <3>a, <4>1, <4>3, SMTT(60)
    <3>4. CASE Replaced(i)
      <4>1. PICK kind : Finish(i, kind) /\ list' = Replace(i, reply[i])
        BY <3>4 DEF Replaced, Answered
      <4>2. n \in DOMAIN list /\ list'[n] = IF list[n].id = i THEN Put(i, reply[i]) ELSE list[n]
        BY <1>2, <4>1 DEF Replace
      <4>3. QED BY <1>b, <2>2, <3>a, <4>1, <4>2
    <3>5. CASE Posted(i)
      <4>1. Finish(i, "post") /\ list' = Insert(i, reply[i])
        BY <3>5 DEF Posted, Answered
      <4>2. list'[n] = Put(i, reply[i]) \/ \E k \in DOMAIN list : list'[n] = list[k]
        BY <1>2, <1>b, <4>1, InsertKeeps
      <4>3. QED BY <1>b, <2>2, <3>a, <4>1, <4>2
    <3>6. CASE Deleted(i)
      <4>1. PICK others \in Ascending({k \in DOMAIN list : list[k].id # i}) :
               list' = [k \in DOMAIN others |-> list[others[k]]]
        BY <3>6 DEF Deleted
      <4>2. \E k \in DOMAIN list : list'[n] = list[k]
        BY <1>2, <1>b, <4>1, OthersKeeps
      <4>3. QED BY <3>6, <3>a, <4>2 DEF Deleted
    <3>7. CASE MoveFailed(i)
      <4>1. /\ Finish(i, "move") /\ ask[i] = "move" /\ list' = before[i] /\ list = Moved(before[i], i)
        BY <3>7 DEF MoveFailed, Finish
      <4>2. n \in DOMAIN before[i] /\ before[i][n].mine /\ before[i][n].id # i
        BY <1>2, <1>a, <4>1
      <4>3. n \in DOMAIN list /\ list[n] = before[i][n]
        BY <1>b, <4>1, <4>2, MovedKeeps DEF SameRows
      <4>4. QED BY <3>a, <4>1, <4>2, <4>3
    <3>8. CASE RequestFailed(i)
      <4>1. Finish(i, ask[i]) /\ ask[i] # "move" /\ list' = list
        BY <3>8 DEF RequestFailed
      <4>2. QED BY <1>2, <3>a, <4>1
    <3>9. QED BY <2>9, <3>1, <3>2, <3>3, <3>4, <3>5, <3>6, <3>7, <3>8 DEF OfPage
  <2>10. OfQuery => HistoryArrives \/ SeedsShown \/ (list' = list /\ ask' = ask)
    BY DEF OfQuery, QueryOpens, Opens, AskAgain, SeedAgain, ReadHistory, SeedsKept, SeedsMissing,
           HistoryFails, request, answers
  <2>p. CASE PushedOut
    <3>1. n \in DOMAIN list /\ list'[n] = list[n]
      BY <1>2, <1>b, <2>p, FallsOutFacts DEF PushedOut
    <3>2. ask' = ask
      BY <2>p DEF PushedOut, request, answers
    <3>3. QED BY <2>1, <3>1, <3>2
  <2>11. OfStream => \/ Load \/ ReadsRow \/ ReadsMessage \/ ReadsNews \/ PushedOut
                     \/ list' = list /\ ask' = ask
    BY DEF OfStream, Connect, Disconnect, GroupEnds, GroupReopens, PollTasks, PollsRows, PollRows,
           request, answers
  <2>12. list' = list /\ ask' = ask => ask'[list'[n].id] = "move"
    BY <1>2, <2>1
  <2>13. QED BY <2>3, <2>4, <2>5, <2>6, <2>7, <2>8, <2>9, <2>p, <2>10, <2>11, <2>12,
                StepKinds, WhatChanges DEF InStep
<1>3. QED BY <1>1, <1>2

\* What holds of the lists whether they are complete or not.
ListsInStep == InStep /\ CardsUnique /\ ChatInOrder /\ MovesSettle /\ RestoredSettled

\* The lists, the streams and the requests of a page stay in step, for any
\* number of rows, changes and requests.
THEOREM ListsInvariant == Spec => []ListsInStep
<1>1. Init /\ TypeOK => ListsInStep
  <2> SUFFICES ASSUME Init, TypeOK PROVE ListsInStep
    OBVIOUS
  <2>1. list = <<>> /\ (\A i \in Item : before[i] = <<>> /\ ask[i] = "none")
    BY InitFacts
  <2>2. DOMAIN list = {} /\ \A i \in Item : DOMAIN before[i] = {}
    BY <2>1
  <2>3. CardsUnique
    BY <2>2 DEF CardsUnique, FewCards, Distinct, AtMostOne, AtMostTwo
  <2>4. ChatInOrder /\ MovesSettle /\ RestoredSettled
    BY <2>1, <2>2 DEF ChatInOrder, MovesSettle, RestoredSettled
  <2>5. QED BY <2>3, <2>4, InStepAtFirst DEF ListsInStep
<1>2. ListsInStep /\ [Next]_vars => ListsInStep'
  <2>1. ASSUME ListsInStep, Next PROVE ListsInStep'
    <3>1. ChatInOrder'
      <4>1. feed' = feed
        BY <2>1, RowsGrow DEF ListsInStep, InStep
      <4>2. CASE feed \in {"chat"} \cup Groups
        <5>1. Ordered(list)
          BY <2>1, <4>2 DEF ListsInStep, ChatInOrder, Ordered
        <5>2. Ordered(list')
          BY <2>1, <4>2, <5>1, OrderKept DEF ListsInStep
        <5>3. QED BY <5>2 DEF ChatInOrder, Ordered
      <4>3. QED BY <4>1, <4>2 DEF ChatInOrder
    <3>2. QED BY <2>1, <3>1, InStepKept, CardsKept, MovesKept DEF ListsInStep
  <2>2. ASSUME ListsInStep, UNCHANGED vars PROVE ListsInStep'
    <3>1. UNCHANGED <<feed, clock, first, row, gone, open, serving, event, pending, conn, cursor,
                      seen, wire>>
      BY <2>2 DEF vars, rows, stream
    <3>2. UNCHANGED <<query, found, known, cut, fallen, list, made, asks, ask, stage, reply,
                      before, spoiled>>
      BY <2>2 DEF vars, rest, request, answers
    <3>3. TypeOK'
      BY <2>2, <3>1, <3>2 DEF ListsInStep, InStep, TypeOK
    <3>4. StampsInOrder' /\ RequestsInStep' /\ VersionsExist' /\ StreamInStep' /\ SeenTold'
      BY <2>2, <3>1, <3>2 DEF ListsInStep, InStep, StampsInOrder, RequestsInStep, Kinds,
                              VersionsExist, VersionOf, StreamInStep, SeenTold
    <3>5. CardsUnique' /\ ChatInOrder'
      BY <2>2, <3>1, <3>2 DEF ListsInStep, CardsUnique, FewCards, ChatInOrder
    <3>6. MovesSettle' /\ RestoredSettled'
      BY <2>2, <3>1, <3>2 DEF ListsInStep, MovesSettle, RestoredSettled
    <3>7. QED BY <3>3, <3>4, <3>5, <3>6 DEF ListsInStep, InStep
  <2>3. QED BY <2>1, <2>2
<1>3. QED BY <1>1, <1>2, FeedsTyped, PTL DEF Spec

\* Of mergeRow and its siblings, of the optimistic insertion of a new task, and
\* of the items of the activity page: no row has an entry too many.
THEOREM CardsAreUnique == Spec => []UniqueCards
<1>1. ListsInStep => UniqueCards
  BY FewCardsCount DEF ListsInStep
<1>2. QED BY <1>1, ListsInvariant, PTL

\* The chat of a board, and the lists of a group, never leave the order of their stamps.
THEOREM ChatStaysInOrder == Spec => []ChatInOrder
<1>1. ListsInStep => ChatInOrder
  BY DEF ListsInStep
<1>2. QED BY <1>1, ListsInvariant, PTL

\* A status that the server has not confirmed is shown only while the move is
\* under way, whatever becomes of the request.
THEOREM MovesAreSettled == Spec => []MovesSettle
<1>1. ListsInStep => MovesSettle
  BY DEF ListsInStep
<1>2. QED BY <1>1, ListsInvariant, PTL

-----------------------------------------------------------------------------
(* Nothing is lost: the parts of the invariant that hold as long as none of *)
(* the races has happened.                                                  *)

InLog(i) == feed \in Tasks => event[row[i]] = i

(* A list has heard of version t of a row; a stream or a query will tell it.*)
Heard(cards, i, t) ==
  IF feed \in News \cup Messages THEN Tells(cards, i, t) ELSE Heads(cards, i, t)
Awaits(t, from, told) == t >= from /\ t \notin told
Comes(q, frames, i, t) == q = "asked" \/ [id |-> i, at |-> t] \in frames
Left(C, F, i, t) == [id |-> i, at |-> t] \in C \/ \E c \in F : c.id = i /\ c.at = t
Elsewhere(q, frames, C, F, i, t) == Comes(q, frames, i, t) \/ Left(C, F, i, t)
Holds(cards, i) == \E n \in DOMAIN cards : cards[n].id = i

(* Every change that is told is on the page (whatever status the page has   *)
(* set itself), on its way, still ahead of the stream, or left out.         *)
NothingMissed ==
  conn # "unloaded" =>
    \A i \in Existing : InLog(i) =>
      \/ Heard(list, i, row[i]) \/ Tells(wire, i, row[i])
      \/ Awaits(row[i], cursor, seen) \/ Elsewhere(query, found, cut, fallen, i, row[i])

(* A frame that was overtaken is followed by another.                       *)
StaleFramesFollowed ==
  feed \notin News =>
    \A n \in DOMAIN wire : InLog(wire[n].id) =>
      wire[n].at = row[wire[n].id] \/ Awaits(row[wire[n].id], cursor, seen)

(* The tasks that were there before the log.                                *)
FirstTasksShown ==
  feed = "task" /\ conn # "unloaded" => \A i \in Existing : row[i] = 1 => Holds(list, i)

(* What commits after the query was read is newer than what it read.        *)
QueryComplete ==
  query \in {"read", "kept"} =>
    \A i \in Existing : InLog(i) =>
      Elsewhere(query, found, cut, fallen, i, row[i]) \/ \A f \in found : f.at <= row[i]

(* The version of an agent that is kept has been told, or will be.          *)
KnownIsTold ==
  feed = "newsAgent" =>
    \A i \in Existing : known[i] = row[i] =>
      \/ Heard(list, i, row[i]) \/ Elsewhere(query, found, cut, fallen, i, row[i])
      \/ conn # "on" /\ cursor = 0 /\ found = {}

Complete ==
  NothingMissed /\ StaleFramesFollowed /\ FirstTasksShown /\ QueryComplete /\ KnownIsTold

\* After a step that changes no row.
LEMMA CompleteAgain ==
  ASSUME feed' = feed, row' = row, event' = event, gone \subseteq gone',
         conn' # "unloaded" =>
           \A i \in Existing : InLog(i) =>
             \/ Heard(list', i, row[i]) \/ Tells(wire', i, row[i])
             \/ Awaits(row[i], cursor', seen') \/ Elsewhere(query', found', cut', fallen', i, row[i]),
         feed \notin News =>
           \A n \in DOMAIN wire' : InLog(wire'[n].id) =>
             wire'[n].at = row[wire'[n].id] \/ Awaits(row[wire'[n].id], cursor', seen'),
         feed = "task" /\ conn' # "unloaded" =>
           \A i \in Existing : row[i] = 1 => Holds(list', i),
         query' \in {"read", "kept"} =>
           \A i \in Existing : InLog(i) =>
             Elsewhere(query', found', cut', fallen', i, row[i]) \/ \A f \in found' : f.at <= row[i],
         feed = "newsAgent" =>
           \A i \in Existing : known'[i] = row[i] =>
             \/ Heard(list', i, row[i]) \/ Elsewhere(query', found', cut', fallen', i, row[i])
             \/ conn' # "on" /\ cursor' = 0 /\ found' = {}
  PROVE  Complete'
<1>1. \A i \in Existing' : i \in Existing
  BY DEF Existing
<1>2. \A i : (feed' \in Tasks => event'[row'[i]] = i) => InLog(i)
  BY DEF InLog
<1>3. NothingMissed'
  BY <1>1, <1>2 DEF NothingMissed, InLog, Heard, Awaits, Elsewhere, Comes, Left, Tells, Heads
<1>4. StaleFramesFollowed'
  BY <1>2 DEF StaleFramesFollowed, InLog, Awaits
<1>5. FirstTasksShown'
  BY <1>1 DEF FirstTasksShown, Holds
<1>6. QueryComplete'
  BY <1>1, <1>2 DEF QueryComplete, InLog, Elsewhere, Comes, Left
<1>7. KnownIsTold'
  BY <1>1 DEF KnownIsTold, Heard, Elsewhere, Comes, Left, Tells, Heads
<1>8. QED BY <1>3, <1>4, <1>5, <1>6, <1>7 DEF Complete


\* What a query that is shown or has been read leaves of the rows it brings.
LEMMA QueryBrings ==
  ASSUME InStep, NothingMissed, QueryComplete, query \in {"read", "kept"}, NEW cards \in Seq(Card),
         feed \in Groups \cup News, conn # "unloaded", NEW C, NEW F,
         \A f \in found : Tells(cards, f.id, f.at) \/ Left(C, F, f.id, f.at),
         \A i \in Existing : Tells(list, i, row[i]) \/ Left(cut, fallen, i, row[i]) =>
                               Tells(cards, i, row[i]) \/ Left(C, F, i, row[i]),
         NEW i \in Existing, InLog(i)
  PROVE  \/ Tells(cards, i, row[i]) \/ Tells(wire, i, row[i])
         \/ Awaits(row[i], Reached, seen) \/ Left(C, F, i, row[i])
<1>a. /\ ElementsTyped /\ i \in Item /\ row[i] \in Nat
      /\ cursor \in 0..(MaxClock + 1) /\ found \in SUBSET Frame
  BY ElementsHaveTypes DEF InStep, TypeOK, ElementsTyped, Existing
<1>b. /\ Reached \in Nat
      /\ conn = "on" => Reached = cursor
      /\ conn # "on" => seen = {} /\ (Reached = cursor \/ \E f \in found : Reached = f.at)
  BY <1>a, ReachedFacts, FeedsAssumption DEF InStep, StreamInStep
<1>c. feed \in News \cup Messages
  BY FeedKinds
<1>d. Elsewhere(query, found, cut, fallen, i, row[i]) =>
        Tells(cards, i, row[i]) \/ Left(C, F, i, row[i])
  <2>1. CASE Comes(query, found, i, row[i])
    <3>1. [id |-> i, at |-> row[i]] \in found
      BY <2>1 DEF Comes
    <3>2. QED BY <3>1
  <2>2. QED BY <2>1 DEF Elsewhere
<1>1. \/ Tells(list, i, row[i]) \/ Tells(wire, i, row[i])
      \/ Awaits(row[i], cursor, seen) \/ Elsewhere(query, found, cut, fallen, i, row[i])
  BY <1>c DEF NothingMissed, Heard
<1>2. CASE Awaits(row[i], cursor, seen)
  <2>1. CASE conn = "on"
    BY <1>2, <1>b, <2>1
  <2>2. CASE conn # "on"
    <3>1. Elsewhere(query, found, cut, fallen, i, row[i]) \/ \A f \in found : f.at <= row[i]
      BY DEF QueryComplete
    <3>2. CASE \A f \in found : f.at <= row[i]
      BY <1>2, <1>b, <2>2, <3>2 DEF Awaits
    <3>3. QED BY <1>d, <3>1, <3>2
  <2>3. QED BY <2>1, <2>2
<1>3. QED BY <1>1, <1>2, <1>d

\* A query is asked, or read.
LEMMA AsksStayComplete ==
  ASSUME InStep, Complete, QueryOpens \/ AskAgain \/ SeedAgain \/ ReadHistory
  PROVE  Complete'
<1>a. feed' = feed /\ row' = row /\ event' = event /\ gone \subseteq gone'
  BY WhatChanges DEF OfQuery
<1>b. wire' = wire /\ cursor' = cursor /\ seen' = seen
  BY DEF QueryOpens, Opens, AskAgain, SeedAgain, ReadHistory, stream
<1>c. feed \in Groups \cup News
  BY DEF QueryOpens, AskAgain, SeedAgain, ReadHistory, InStep, StreamInStep
<1>d. feed # "task"
  BY <1>c DEF Groups, News
<1>1. \A i \in Existing : InLog(i) => Elsewhere(query', found', cut', fallen', i, row[i])
  <2>1. CASE QueryOpens \/ AskAgain \/ SeedAgain
    <3>1. query' = "asked"
      BY <2>1 DEF QueryOpens, Opens, AskAgain, SeedAgain
    <3>2. QED BY <3>1 DEF Elsewhere, Comes
  <2>2. ASSUME ReadHistory, NEW i \in Existing, InLog(i)
        PROVE  Elsewhere(query', found', cut', fallen', i, row[i])
    <3>1. [id |-> i, at |-> row[i]] \in Queried
      <4>1. CASE feed = "newsTask"
        <5>1. row[i] \in 1..clock
          BY ElementsHaveTypes DEF InStep, StampsInOrder, Existing, ElementsTyped
        <5>2. event[row[i]] = i
          BY <2>2, <4>1 DEF InLog, Tasks
        <5>3. QED BY <4>1, <5>1, <5>2, QueriedFacts DEF InStep
      <4>2. CASE feed # "newsTask"
        BY <4>2, QueriedFacts DEF InStep, Version
      <4>3. QED BY <4>1, <4>2
    <3>2. cut' = (cut \cup Queried) \ found'
      BY <2>2 DEF ReadHistory
    <3>3. QED BY <3>1, <3>2 DEF Elsewhere, Comes, Left
  <2>3. QED BY <2>1, <2>2
<1>2. query' \in {"read", "kept"} =>
        \A i \in Existing : InLog(i) =>
          Elsewhere(query', found', cut', fallen', i, row[i]) \/ \A f \in found' : f.at <= row[i]
  BY <1>1
<1>3. feed \notin News =>
        \A n \in DOMAIN wire' : InLog(wire'[n].id) =>
          wire'[n].at = row[wire'[n].id] \/ Awaits(row[wire'[n].id], cursor', seen')
  BY <1>b DEF Complete, StaleFramesFollowed
<1>4. feed = "newsAgent" =>
        \A i \in Existing : known'[i] = row[i] => Elsewhere(query', found', cut', fallen', i, row[i])
  BY <1>1 DEF InLog, Tasks
<1>5. QED BY <1>a, <1>d, <1>1, <1>2, <1>3, <1>4, CompleteAgain

\* A query arrives, or its versions are kept, or it fails while no stream needs it.
LEMMA AnswersStayComplete ==
  ASSUME InStep, Complete, ~spoiled',
         HistoryArrives \/ SeedsKept \/ SeedsShown \/ SeedsMissing \/ HistoryFails
  PROVE  Complete'
<1>a. feed' = feed /\ row' = row /\ event' = event /\ gone \subseteq gone'
  BY WhatChanges DEF OfQuery
<1>b. wire' = wire /\ seen' = seen /\ conn' = conn
  BY DEF HistoryArrives, SeedsKept, SeedsShown, SeedsMissing, HistoryFails, stream
<1>c. /\ feed \in Groups \cup News /\ feed \in News \cup Messages
      /\ SeedsKept \/ SeedsShown => feed \in News
  BY FeedKinds
     DEF HistoryArrives, SeedsKept, SeedsShown, SeedsMissing, HistoryFails, InStep, StreamInStep
<1>d. /\ feed # "task" /\ (feed = "newsAgent" => feed \in News)
      /\ (feed \in Groups => feed \notin News)
  BY <1>c DEF Groups, News
<1>e. /\ ElementsTyped /\ list \in Seq(Card) /\ found \in SUBSET Frame
      /\ fallen \subseteq Card /\ cut \subseteq Frame
      /\ cursor \in 0..(MaxClock + 1)
  BY ElementsHaveTypes DEF InStep, TypeOK
<1>f. conn # "unloaded"
  BY DEF HistoryArrives, SeedsKept, SeedsShown, SeedsMissing, HistoryFails, InStep, StreamInStep
<1>g. ASSUME feed \notin News, cursor' = cursor \/ cursor' = Reached
      PROVE  \A n \in DOMAIN wire' : InLog(wire'[n].id) =>
               wire'[n].at = row[wire'[n].id] \/ Awaits(row[wire'[n].id], cursor', seen')
  <2>1. CASE conn = "on"
    <3>1. cursor' = cursor
      BY <1>e, <1>g, <2>1, ReachedFacts
    <3>2. QED BY <1>b, <1>g, <3>1 DEF Complete, StaleFramesFollowed
  <2>2. CASE conn # "on"
    <3>1. wire' = <<>>
      BY <1>b, <2>2 DEF InStep, StreamInStep
    <3>2. DOMAIN wire' = {}
      BY <3>1
    <3>3. QED BY <3>2
  <2>3. QED BY <2>1, <2>2
<1>1. CASE HistoryArrives
  <2>1. /\ query = "read" /\ query' = "none" /\ cursor' = Reached /\ feed \in Groups
        /\ feed \in Messages /\ cut' = cut /\ fallen' = fallen
    BY <1>1 DEF HistoryArrives, Messages
  <2>2. Merged \in SUBSET Frame
    BY <1>e, MergedFacts
  <2>3. PICK order \in Arranged(Merged) : list' = Cards(order)
    BY <1>1 DEF HistoryArrives, Cards
  <2>4. list' \in Seq(Card) /\ \A f \in Merged : \E n \in DOMAIN list' : list'[n] = Put(f.id, f.at)
    BY <2>2, <2>3, ArrangedFacts
  <2>5. \A f \in Merged : Tells(list', f.id, f.at)
    BY <2>2, <2>4 DEF Put, Tells, Frame
  <2>6. \A f \in found : Tells(list', f.id, f.at)
    BY <1>e, <2>5, MergedFacts
  <2>7. ASSUME NEW i \in Existing, Tells(list, i, row[i]) PROVE Tells(list', i, row[i])
    <3>1. PICK n \in DOMAIN list : list[n].id = i /\ list[n].at = row[i]
      BY <2>7 DEF Tells
    <3>2. CASE \E f \in found : f.id = i
      <4>1. PICK f \in found : f.id = i
        BY <3>2
      <4>2. f.at = row[i]
        BY <2>1, <4>1 DEF InStep, VersionsExist, VersionOf
      <4>3. QED BY <2>6, <4>1, <4>2
    <3>3. CASE \A f \in found : f.id # i
      <4>1. [id |-> i, at |-> row[i]] \in Merged
        BY <1>e, <3>1, <3>3, MergedFacts
      <4>2. QED BY <2>5, <4>1
    <3>4. QED BY <3>2, <3>3
  <2>8. \A i \in Existing : InLog(i) =>
          \/ Tells(list', i, row[i]) \/ Tells(wire, i, row[i]) \/ Awaits(row[i], Reached, seen)
          \/ Left(cut', fallen', i, row[i])
    BY <1>c, <1>f, <2>1, <2>4, <2>6, <2>7, QueryBrings DEF Complete
  <2>9. \A i \in Existing : InLog(i) =>
          \/ Heard(list', i, row[i]) \/ Tells(wire', i, row[i]) \/ Awaits(row[i], cursor', seen')
          \/ Elsewhere(query', found', cut', fallen', i, row[i])
    BY <1>b, <1>c, <2>1, <2>8 DEF Heard, Elsewhere
  <2>10. QED BY <1>a, <1>d, <1>g, <2>1, <2>9, CompleteAgain
<1>2. CASE SeedsShown
  <2>1. /\ query = "kept" /\ query' = "none" /\ cursor' = Reached /\ feed \in News
        /\ ~Outdated /\ known' = known
    BY <1>2, <1>c DEF SeedsShown
  <2>3. PICK kept \in SUBSET found :
           /\ list' \in Seq(Card) /\ found \ kept \subseteq cut'
           /\ \A f \in cut : f \in cut' \/ f \in kept
           /\ \A c \in fallen : \/ [id |-> c.id, at |-> c.at] \in cut'
                              \/ [id |-> c.id, at |-> c.at] \in kept
           /\ \A f \in kept : \E n \in DOMAIN list' : list'[n] = Put(f.id, f.at)
    BY <1>2, <1>e, SeedsFacts
  <2>4. \A f \in kept : Tells(list', f.id, f.at)
    BY <2>3 DEF Put, Tells
  <2>5. \A f \in Frame : f \in cut' => Left(cut', fallen', f.id, f.at)
    BY DEF Frame, Left
  <2>6. \A f \in found : Tells(list', f.id, f.at) \/ Left(cut', fallen', f.id, f.at)
    BY <1>e, <2>3, <2>4, <2>5
  <2>a. ASSUME NEW i \in Existing, Left(cut, fallen, i, row[i])
        PROVE  Tells(list', i, row[i]) \/ Left(cut', fallen', i, row[i])
    <3>1. [id |-> i, at |-> row[i]] \in cut' \/ [id |-> i, at |-> row[i]] \in kept
      BY <2>3, <2>a DEF Left
    <3>2. CASE [id |-> i, at |-> row[i]] \in cut'
      BY <3>2 DEF Left
    <3>3. CASE [id |-> i, at |-> row[i]] \in kept
      BY <2>4, <3>3
    <3>4. QED BY <3>1, <3>2, <3>3
  <2>7. ASSUME NEW i \in Existing, Tells(list, i, row[i])
        PROVE  Tells(list', i, row[i]) \/ Left(cut', fallen', i, row[i])
    <3>1. PICK n \in DOMAIN list : list[n].id = i /\ list[n].at = row[i]
      BY <2>7 DEF Tells
    <3>2. PICK f \in found : f.id = i /\ ~(f.at < list[n].at)
      BY <2>1, <3>1 DEF Outdated
    <3>3. f.at \in 1..row[i]
      BY <3>2 DEF InStep, VersionsExist, VersionOf
    <3>4. f.at = row[i]
      BY <1>e, <3>1, <3>2, <3>3 DEF ElementsTyped, Existing
    <3>5. QED BY <2>6, <3>2, <3>4
  <2>8. \A i \in Existing : InLog(i) =>
          \/ Tells(list', i, row[i]) \/ Tells(wire, i, row[i]) \/ Awaits(row[i], Reached, seen)
          \/ Left(cut', fallen', i, row[i])
    BY <1>c, <1>f, <2>1, <2>3, <2>6, <2>7, <2>a, QueryBrings DEF Complete
  <2>9. \A i \in Existing : InLog(i) =>
          \/ Heard(list', i, row[i]) \/ Tells(wire', i, row[i]) \/ Awaits(row[i], cursor', seen')
          \/ Elsewhere(query', found', cut', fallen', i, row[i])
    BY <1>b, <1>c, <2>1, <2>8 DEF Heard, Elsewhere
  <2>10. ASSUME feed = "newsAgent", NEW i \in Existing, known'[i] = row[i]
         PROVE  \/ Heard(list', i, row[i]) \/ Elsewhere(query', found', cut', fallen', i, row[i])
                \/ conn' # "on" /\ cursor' = 0 /\ found' = {}
    <3>1. \/ Tells(list, i, row[i]) \/ Elsewhere(query, found, cut, fallen, i, row[i])
          \/ conn # "on" /\ cursor = 0 /\ found = {}
      BY <1>c, <2>1, <2>10 DEF Complete, KnownIsTold, Heard
    <3>2. CASE Tells(list, i, row[i])
      BY <1>c, <2>7, <3>2 DEF Heard, Elsewhere
    <3>3. CASE Left(cut, fallen, i, row[i])
      BY <1>c, <2>a, <3>3 DEF Heard, Elsewhere
    <3>4. CASE Comes(query, found, i, row[i])
      <4>1. [id |-> i, at |-> row[i]] \in found
        BY <2>1, <3>4 DEF Comes
      <4>2. Tells(list', i, row[i]) \/ Left(cut', fallen', i, row[i])
        BY <2>6, <4>1
      <4>3. QED BY <1>c, <4>2 DEF Heard, Elsewhere
    <3>5. CASE conn # "on" /\ cursor = 0 /\ found = {}
      <4>1. Reached = cursor
        BY <1>e, <3>5, ReachedFacts
      <4>2. found' = {}
        BY <1>2 DEF SeedsShown
      <4>3. QED BY <1>b, <2>1, <3>5, <4>1, <4>2
    <3>6. QED BY <3>1, <3>2, <3>3, <3>4, <3>5 DEF Elsewhere
  <2>11. QED BY <1>a, <1>d, <2>1, <2>9, <2>10, CompleteAgain
<1>3. CASE SeedsKept
  <2>1. /\ query = "read" /\ query' = "kept" /\ cursor' = cursor /\ feed \in News
        /\ found' = found /\ list' = list /\ cut' = cut /\ fallen' = fallen
    BY <1>3, <1>c DEF SeedsKept, stream
  <2>2. \A i : Elsewhere(query', found', cut', fallen', i, row[i]) <=> Elsewhere(query, found, cut, fallen, i, row[i])
    BY <2>1 DEF Elsewhere, Comes
  <2>3. \A i \in Existing : InLog(i) =>
          \/ Heard(list', i, row[i]) \/ Tells(wire', i, row[i])
          \/ Awaits(row[i], cursor', seen') \/ Elsewhere(query', found', cut', fallen', i, row[i])
    BY <1>b, <1>f, <2>1, <2>2 DEF Complete, NothingMissed
  <2>4. \A i \in Existing : InLog(i) =>
          Elsewhere(query', found', cut', fallen', i, row[i]) \/ \A f \in found' : f.at <= row[i]
    BY <2>1, <2>2 DEF Complete, QueryComplete
  <2>5. ASSUME feed = "newsAgent", NEW i \in Existing, known'[i] = row[i]
        PROVE  \/ Heard(list', i, row[i]) \/ Elsewhere(query', found', cut', fallen', i, row[i])
               \/ conn' # "on" /\ cursor' = 0 /\ found' = {}
    <3> DEFINE versions == {f \in found : f.id = i /\ feed \in {"newsApproval", "newsAgent"}}
    <3>0. i \in Item
      BY DEF Existing
    <3>1. known'[i] = IF versions = {} THEN known[i] ELSE (CHOOSE f \in versions : TRUE).at
      BY <1>3, <3>0 DEF SeedsKept
    <3>2. CASE versions = {}
      <4>1. known[i] = row[i]
        BY <2>5, <3>1, <3>2
      <4>2. QED BY <1>b, <2>1, <2>2, <2>5, <4>1 DEF Complete, KnownIsTold
    <3>3. CASE versions # {}
      <4>1. PICK f \in versions : known'[i] = f.at
        BY <3>1, <3>3
      <4>2. f \in found /\ f.id = i /\ f.at = row[i] /\ f \in Frame
        BY <1>e, <2>5, <4>1
      <4>3. f = [id |-> i, at |-> row[i]]
        BY <4>2 DEF Frame
      <4>4. QED BY <2>1, <4>2, <4>3 DEF Elsewhere, Comes
    <3>4. QED BY <3>2, <3>3
  <2>6. QED BY <1>a, <1>d, <2>1, <2>3, <2>4, <2>5, CompleteAgain
<1>4. CASE SeedsMissing \/ HistoryFails
  <2>1. found' = {} /\ cursor = 0 /\ cursor' = 0
    BY <1>4 DEF SeedsMissing, HistoryFails, stream
  <2>2. conn # "on" /\ seen' = {}
    BY <1>b, <2>1 DEF InStep, StreamInStep
  <2>3. \A i \in Existing : Awaits(row[i], cursor', seen')
    BY <1>e, <2>1, <2>2 DEF Awaits, Existing, ElementsTyped
  <2>4. conn' # "on"
    BY <1>b, <2>2
  <2>5. QED BY <1>a, <1>d, <1>g, <2>1, <2>3, <2>4, CompleteAgain
<1>5. QED BY <1>1, <1>2, <1>3, <1>4

\* The snapshot arrives, or the stream is opened or ends.
LEMMA ConnectionsStayComplete ==
  ASSUME InStep, Complete, ~spoiled', Load \/ Connect \/ Disconnect \/ GroupEnds \/ GroupReopens
  PROVE  Complete'
<1>a. feed' = feed /\ row' = row /\ event' = event /\ gone \subseteq gone'
  BY WhatChanges DEF OfStream
<1>b. /\ query' = query /\ found' = found /\ known' = known
      /\ Load \/ (cut' = cut /\ fallen' = fallen)
  BY DEF Load, Connect, Disconnect, GroupEnds, GroupReopens, rest
<1>c. /\ ElementsTyped /\ list \in Seq(Card) /\ Since \in Nat
      /\ \A i \in Existing : row[i] \in Nat /\ row[i] # 0 /\ i \in Item
      /\ \A t \in Stamp : t \in Nat
  <2>1. ElementsTyped /\ list \in Seq(Card)
    BY ElementsHaveTypes DEF InStep, TypeOK
  <2>2. \A t \in Stamp : t \in Nat
    BY FeedsAssumption DEF Stamp
  <2>3. Since \in Nat
    BY <2>1, <2>2, SinceFacts
  <2>4. QED BY <2>1, <2>2, <2>3 DEF ElementsTyped, Existing
<1>d. ~Load => \A i : Elsewhere(query', found', cut', fallen', i, row[i])
                       <=> Elsewhere(query, found, cut, fallen, i, row[i])
  BY <1>b
<1>e. query' \in {"read", "kept"} =>
        \A i \in Existing : InLog(i) =>
          \/ Elsewhere(query', found', cut', fallen', i, row[i])
          \/ \A f \in found' : f.at <= row[i]
  <2>1. Load => query' \notin {"read", "kept"}
    BY <1>b DEF Load, InStep, StreamInStep
  <2>2. QED BY <1>b, <2>1 DEF Complete, QueryComplete
<1>f. wire' = <<>>
        => \A n \in DOMAIN wire' : InLog(wire'[n].id) =>
             wire'[n].at = row[wire'[n].id] \/ Awaits(row[wire'[n].id], cursor', seen')
  <2>1. wire' = <<>> => DOMAIN wire' = {}
    OBVIOUS
  <2>2. QED BY <2>1
<1>1. CASE Load
  <2>1. /\ conn = "unloaded" /\ feed \notin News /\ wire' = wire
        /\ feed # "newsAgent" /\ query = "none" /\ wire = <<>>
    BY <1>1 DEF Load, InStep, StreamInStep, News
  <2>2. /\ list' \in Seq(Card)
        /\ \A n \in DOMAIN list' : /\ list'[n].id \in Existing
                                   /\ list'[n] = Put(list'[n].id, row[list'[n].id])
        /\ \A i \in Existing : (\E n \in DOMAIN list' : list'[n].id = i) \/ Version(i) \in cut'
        /\ feed = "task" => \A i \in Existing : \E n \in DOMAIN list' : list'[n].id = i
        /\ \A n, k \in DOMAIN list' : list'[n].id = list'[k].id => n = k
    BY <1>1, LoadFacts DEF InStep
  <2>3. ASSUME NEW i \in Existing, NEW n \in DOMAIN list', list'[n].id = i
        PROVE  Heard(list', i, row[i])
    <3>2. list'[n] = Put(i, row[i])
      BY <2>2, <2>3
    <3>3. list'[n].at = row[i]
      BY <3>2 DEF Put
    <3>4. \A k \in DOMAIN list' : list'[k].id = i => n <= k
      <4>1. n \in Nat
        BY <2>2, CardFacts
      <4>2. QED BY <2>2, <2>3, <4>1
    <3>5. QED BY <2>3, <3>3, <3>4 DEF Heard, Heads, Tells
  <2>4. \A i \in Existing :
          Heard(list', i, row[i]) \/ Elsewhere(query', found', cut', fallen', i, row[i])
    BY <2>2, <2>3 DEF Elsewhere, Left, Version
  <2>5. feed = "task" => \A i \in Existing : Holds(list', i)
    BY <2>2 DEF Holds
  <2>6. QED BY <1>a, <1>b, <1>e, <1>f, <2>1, <2>4, <2>5, CompleteAgain
<1>2. CASE Connect
  <2>1. /\ conn = "off" /\ cursor' = IF Since = 0 THEN clock + 1 ELSE Since
        /\ seen' = {} /\ seen = {} /\ wire' = wire /\ wire = <<>> /\ list' = list
        /\ ~Ahead /\ ~Gap /\ cut' = cut /\ fallen' = fallen
    BY <1>2 DEF Connect, InStep, StreamInStep, rest
  <2>2. feed = "task" => \A i \in Existing : row[i] = 1 => Holds(list', i)
    BY <2>1 DEF Complete, FirstTasksShown
  <2>3. CASE ~Uncertain
    <3>1. \A i \in Existing : Elsewhere(query', found', cut', fallen', i, row[i])
      BY <1>b, <1>c, <2>3 DEF Uncertain, Coming, Version, Elsewhere, Comes
    <3>2. QED BY <1>a, <1>e, <1>f, <2>1, <2>2, <3>1, CompleteAgain
  <2>4. CASE Uncertain
    <3>1. Since <= cursor /\ list # <<>>
      BY <1>c, <2>1, <2>4 DEF Ahead, Gap, ElementsTyped
    <3>2. PICK n \in DOMAIN list : list[n].at = Since
      BY <1>c, <3>1, SinceFacts
    <3>3. Since \in 1..row[list[n].id]
      BY <3>2 DEF InStep, VersionsExist, VersionOf
    <3>4. cursor' = Since
      BY <1>c, <2>1, <3>3
    <3>5. \A i \in Existing : Awaits(row[i], cursor, seen) => Awaits(row[i], cursor', seen')
      BY <1>c, <2>1, <3>1, <3>4 DEF Awaits, ElementsTyped
    <3>6. \A i \in Existing : InLog(i) =>
            \/ Heard(list', i, row[i]) \/ Tells(wire', i, row[i])
            \/ Awaits(row[i], cursor', seen') \/ Elsewhere(query', found', cut', fallen', i, row[i])
      BY <1>b, <2>1, <3>5 DEF Complete, NothingMissed
    <3>7. feed = "newsAgent" =>
            \A i \in Existing : known'[i] = row[i] =>
              Heard(list', i, row[i]) \/ Elsewhere(query', found', cut', fallen', i, row[i])
      <4>1. feed = "newsAgent" => cursor # 0
        BY <3>1 DEF InStep, StreamInStep, News
      <4>2. QED BY <1>b, <2>1, <4>1 DEF Complete, KnownIsTold
    <3>8. QED BY <1>a, <1>e, <1>f, <2>1, <2>2, <3>6, <3>7, CompleteAgain
  <2>5. QED BY <2>3, <2>4
<1>3. CASE Disconnect
  <2>1. /\ conn = "on" /\ cursor' = IF wire = <<>> \/ Since > cursor THEN cursor ELSE Since
        /\ seen' = {} /\ wire' = <<>> /\ list' = list /\ ~CutShort
        /\ cut' = cut /\ fallen' = fallen
    BY <1>3 DEF Disconnect, rest
  <2>2. \A n \in DOMAIN wire : wire[n].at \in Nat /\ Since <= wire[n].at
    BY <1>c, <2>1 DEF CutShort, ElementsTyped
  <2>4. cursor' <= cursor
    BY <1>c, <2>1 DEF ElementsTyped
  <2>5. cursor' \in Nat
    BY <1>c, <2>1 DEF ElementsTyped
  <2>6. \A i \in Existing : Awaits(row[i], cursor, seen) => Awaits(row[i], cursor', seen')
    BY <1>c, <2>1, <2>4, <2>5 DEF Awaits, ElementsTyped
  <2>7. ASSUME NEW i \in Existing, Tells(wire, i, row[i]) PROVE Awaits(row[i], cursor', seen')
    <3>1. PICK n \in DOMAIN wire : wire[n].at = row[i]
      BY <2>7 DEF Tells
    <3>2. wire # <<>>
      BY <3>1
    <3>3. cursor' <= Since /\ Since <= row[i]
      BY <1>c, <2>1, <2>2, <3>1, <3>2 DEF ElementsTyped
    <3>4. QED BY <1>c, <2>1, <2>5, <3>3 DEF Awaits
  <2>8. \A i \in Existing : InLog(i) =>
          \/ Heard(list', i, row[i]) \/ Tells(wire', i, row[i])
          \/ Awaits(row[i], cursor', seen') \/ Elsewhere(query', found', cut', fallen', i, row[i])
    BY <1>b, <2>1, <2>6, <2>7 DEF Complete, NothingMissed
  <2>9. feed = "task" => \A i \in Existing : row[i] = 1 => Holds(list', i)
    BY <2>1 DEF Complete, FirstTasksShown
  <2>10. feed = "newsAgent" =>
          \A i \in Existing : known'[i] = row[i] =>
            Heard(list', i, row[i]) \/ Elsewhere(query', found', cut', fallen', i, row[i])
    BY <1>b, <2>1 DEF Complete, KnownIsTold
  <2>11. QED BY <1>a, <1>e, <1>f, <2>1, <2>8, <2>9, <2>10, CompleteAgain
<1>4. CASE GroupEnds \/ GroupReopens
  <2>1. /\ cursor' = cursor /\ seen' = seen /\ wire' = wire /\ list' = list
        /\ feed \in Groups /\ conn # "unloaded" /\ cut' = cut /\ fallen' = fallen
    BY <1>4 DEF GroupEnds, GroupReopens, InStep, StreamInStep, rest
  <2>2. feed # "task" /\ feed # "newsAgent"
    BY <2>1 DEF Groups
  <2>3. \A i \in Existing : InLog(i) =>
          \/ Heard(list', i, row[i]) \/ Tells(wire', i, row[i])
          \/ Awaits(row[i], cursor', seen') \/ Elsewhere(query', found', cut', fallen', i, row[i])
    BY <1>b, <2>1 DEF Complete, NothingMissed
  <2>4. feed \notin News =>
          \A n \in DOMAIN wire' : InLog(wire'[n].id) =>
            wire'[n].at = row[wire'[n].id] \/ Awaits(row[wire'[n].id], cursor', seen')
    BY <2>1 DEF Complete, StaleFramesFollowed
  <2>5. QED BY <1>a, <1>e, <2>2, <2>3, <2>4, CompleteAgain
<1>5. QED BY <1>1, <1>2, <1>3, <1>4

\* What the list has told it tells still, or the limit has left it out.
LEMMA ItemsFall ==
  ASSUME NEW i, NEW t, Tells(list, i, t),
         \A n \in DOMAIN list : (\E k \in DOMAIN list' : list'[k] = list[n]) \/ list[n] \in fallen'
  PROVE  Tells(list', i, t) \/ Left(cut', fallen', i, t)
<1>1. PICK n \in DOMAIN list : list[n].id = i /\ list[n].at = t
  BY DEF Tells
<1>2. QED BY <1>1 DEF Tells, Left

\* An item of another stream pushes one out.
LEMMA PushedOutStaysComplete ==
  ASSUME InStep, Complete, PushedOut
  PROVE  Complete'
<1>a. feed' = feed /\ row' = row /\ event' = event /\ gone \subseteq gone'
  BY WhatChanges DEF OfStream
<1>b. /\ UNCHANGED <<conn, cursor, seen, wire, query, found, known, cut>>
      /\ feed \in News /\ feed \in News \cup Messages /\ feed # "task"
  BY DEF PushedOut, stream, News
<1>c. /\ fallen \subseteq fallen'
      /\ \A n \in DOMAIN list : (\E k \in DOMAIN list' : list'[k] = list[n]) \/ list[n] \in fallen'
  <2>1. list \in Seq(Card) /\ fallen \subseteq Card
    BY DEF InStep, TypeOK
  <2>2. QED BY <2>1, FallsOutFacts DEF PushedOut
<1>d. \A i : Heard(list, i, row[i]) => Heard(list', i, row[i]) \/ Left(cut', fallen', i, row[i])
  BY <1>b, <1>c, ItemsFall DEF Heard
<1>e. \A i : Elsewhere(query, found, cut, fallen, i, row[i])
              => Elsewhere(query', found', cut', fallen', i, row[i])
  BY <1>b, <1>c DEF Elsewhere, Comes, Left
<1>f. \A i : Left(cut', fallen', i, row[i]) => Elsewhere(query', found', cut', fallen', i, row[i])
  BY DEF Elsewhere
<1>1. \A i \in Existing : InLog(i) =>
        \/ Heard(list', i, row[i]) \/ Tells(wire', i, row[i])
        \/ Awaits(row[i], cursor', seen') \/ Elsewhere(query', found', cut', fallen', i, row[i])
  <2>1. conn # "unloaded"
    BY DEF PushedOut, FallsOut, InStep, StreamInStep
  <2>2. QED BY <1>b, <1>d, <1>e, <1>f, <2>1 DEF Complete, NothingMissed
<1>2. query' \in {"read", "kept"} =>
        \A i \in Existing : InLog(i) =>
          \/ Elsewhere(query', found', cut', fallen', i, row[i])
          \/ \A f \in found' : f.at <= row[i]
  BY <1>b, <1>e DEF Complete, QueryComplete
<1>3. feed = "newsAgent" =>
        \A i \in Existing : known'[i] = row[i] =>
          \/ Heard(list', i, row[i]) \/ Elsewhere(query', found', cut', fallen', i, row[i])
          \/ conn' # "on" /\ cursor' = 0 /\ found' = {}
  BY <1>b, <1>d, <1>e, <1>f DEF Complete, KnownIsTold
<1>4. QED BY <1>a, <1>b, <1>1, <1>2, <1>3, CompleteAgain

\* A frame is read.
LEMMA ReadsStayComplete ==
  ASSUME InStep, Complete, ReadsRow \/ ReadsMessage \/ ReadsNews
  PROVE  Complete'
<1> DEFINE j == Head(wire).id
           t == Head(wire).at
<1>a. feed' = feed /\ row' = row /\ event' = event /\ gone \subseteq gone'
  BY WhatChanges DEF OfStream
<1>b. /\ query' = query /\ found' = found /\ conn' = conn /\ conn = "on"
      /\ cursor' = cursor /\ seen' = seen /\ cut' = cut /\ (ReadsNews \/ fallen' = fallen)
  BY DEF ReadsRow, ReadsMessage, ReadsNews, Read, rest, stream
<1>c. /\ ElementsTyped /\ list \in Seq(Card) /\ known \in [Item -> Stamp]
      /\ fallen \subseteq Card
  BY ElementsHaveTypes DEF InStep, TypeOK
<1>d. /\ j \in Item /\ t \in Stamp /\ j = wire[1].id /\ t = wire[1].at /\ 1 \in DOMAIN wire
      /\ \A n \in DOMAIN wire' : n + 1 \in DOMAIN wire /\ wire'[n] = wire[n + 1]
      /\ \A n \in DOMAIN wire : n # 1 => n - 1 \in DOMAIN wire' /\ wire'[n - 1] = wire[n]
  <2>1. Read(feed)
    BY DEF ReadsRow, ReadsMessage, ReadsNews
  <2>2. QED BY <2>1, ReadFacts DEF InStep
<1> HIDE DEF j, t
<1>p. /\ fallen \subseteq fallen'
      /\ ReadsNews => \A n \in DOMAIN list :
                        (\E k \in DOMAIN list' : list'[k] = list[n]) \/ list[n] \in fallen'
  <2>1. CASE \E again \in BOOLEAN : PushFeedItem(j, t, again)
    <3>1. PICK again \in BOOLEAN : PushFeedItem(j, t, again)
      BY <2>1
    <3>2. /\ fallen \subseteq fallen'
          /\ \A n \in DOMAIN list : (\E k \in DOMAIN list' : list'[k] = list[n]) \/ list[n] \in fallen'
      BY <1>c, <1>d, <3>1, PushFacts
    <3>3. QED BY <3>2
  <2>2. ReadsNews =>
          (\E again \in BOOLEAN : PushFeedItem(j, t, again)) \/ UNCHANGED <<list, fallen>>
    BY DEF ReadsNews, j, t
  <2>3. CASE UNCHANGED <<list, fallen>>
    BY <2>3
  <2>4. CASE ~ReadsNews
    BY <1>b, <2>4
  <2>5. QED BY <2>1, <2>2, <2>3, <2>4
<1>q. \A i : Elsewhere(query, found, cut, fallen, i, row[i])
              => Elsewhere(query', found', cut', fallen', i, row[i])
  BY <1>b, <1>p DEF Elsewhere, Comes, Left
<1>e. query' \in {"read", "kept"} =>
        \A i \in Existing : InLog(i) =>
          \/ Elsewhere(query', found', cut', fallen', i, row[i])
          \/ \A f \in found' : f.at <= row[i]
  BY <1>b, <1>q DEF Complete, QueryComplete
<1>f. feed \notin News =>
        \A n \in DOMAIN wire' : InLog(wire'[n].id) =>
          wire'[n].at = row[wire'[n].id] \/ Awaits(row[wire'[n].id], cursor', seen')
  BY <1>b, <1>d DEF Complete, StaleFramesFollowed
<1>g. \A i : Tells(wire, i, row[i]) => (i = j /\ t = row[i]) \/ Tells(wire', i, row[i])
  <2>1. ASSUME NEW i, NEW n \in DOMAIN wire, wire[n].id = i, wire[n].at = row[i]
        PROVE  (i = j /\ t = row[i]) \/ Tells(wire', i, row[i])
    <3>1. CASE n = 1
      BY <1>d, <2>1, <3>1
    <3>2. CASE n # 1
      <4>1. n - 1 \in DOMAIN wire' /\ wire'[n - 1].id = i /\ wire'[n - 1].at = row[i]
        BY <1>d, <2>1, <3>2
      <4>2. QED BY <4>1 DEF Tells
    <3>3. QED BY <3>1, <3>2
  <2>2. QED BY <2>1 DEF Tells
<1>1. CASE ReadsRow
  <2>1. /\ feed \notin News \cup Messages /\ feed \notin News /\ feed # "newsAgent"
        /\ list' = Upsert(j, t) /\ known' = known
    BY <1>1 DEF ReadsRow, News, Messages, Groups, j, t, rest
  <2>2. ASSUME NEW i \in Existing, InLog(i)
        PROVE  \/ Heard(list', i, row[i]) \/ Tells(wire', i, row[i])
               \/ Awaits(row[i], cursor', seen') \/ Elsewhere(query', found', cut', fallen', i, row[i])
    <3>0. i \in Item
      BY DEF Existing
    <3>1. \/ Heads(list, i, row[i]) \/ Tells(wire, i, row[i])
          \/ Awaits(row[i], cursor, seen) \/ Elsewhere(query, found, cut, fallen, i, row[i])
      BY <1>b, <2>1, <2>2 DEF Complete, NothingMissed, Heard
    <3>2. Heads(Upsert(j, t), j, t)
      BY <1>c, <1>d, UpsertKeeps
    <3>3. CASE i = j /\ t = row[i]
      BY <2>1, <3>2, <3>3 DEF Heard
    <3>4. CASE i = j /\ t # row[i]
      <4>1. Awaits(row[i], cursor, seen)
        BY <1>d, <2>1, <2>2, <3>4 DEF Complete, StaleFramesFollowed
      <4>2. QED BY <1>b, <4>1
    <3>5. CASE i # j
      <4>1. Heads(list, i, row[i]) => Heads(list', i, row[i])
        BY <1>c, <1>d, <2>1, <3>0, <3>5, UpsertKeeps
      <4>2. QED BY <1>b, <1>g, <1>q, <2>1, <3>1, <3>5, <4>1 DEF Heard
    <3>6. QED BY <3>3, <3>4, <3>5
  <2>3. ASSUME feed = "task", NEW i \in Existing, row[i] = 1 PROVE Holds(list', i)
    <3>1. Holds(list, i)
      BY <1>b, <2>3 DEF Complete, FirstTasksShown
    <3>2. i \in Shown
      BY <3>1 DEF Holds, Shown
    <3>3. QED BY <1>c, <1>d, <2>1, <3>2, UpsertKeeps, SMTT(60) DEF Holds
  <2>4. QED BY <1>a, <1>e, <1>f, <2>1, <2>2, <2>3, CompleteAgain
<1>2. CASE ReadsMessage
  <2>1. /\ feed \in Messages /\ feed \notin News /\ feed # "newsAgent" /\ feed # "task"
        /\ list' = Insert(j, t) /\ known' = known
    BY <1>2 DEF ReadsMessage, News, Messages, Groups, j, t, rest
  <2>2. \A i : Tells(list, i, row[i]) => Tells(list', i, row[i])
    BY <1>c, <1>d, <2>1, InsertKeeps DEF Tells
  <2>3. t = row[j] => Tells(list', j, row[j])
    <3>1. CASE j \in Shown
      <4>1. PICK n \in DOMAIN list : list[n].id = j
        BY <3>1 DEF Shown
      <4>2. list[n].at = row[j]
        BY <2>1, <4>1 DEF InStep, VersionsExist, VersionOf
      <4>3. QED BY <2>2, <4>1, <4>2 DEF Tells
    <3>2. CASE j \notin Shown
      BY <1>c, <1>d, <2>1, <3>2, InsertKeeps, PutFacts DEF Tells
    <3>3. QED BY <3>1, <3>2
  <2>4. ASSUME NEW i \in Existing, InLog(i)
        PROVE  \/ Heard(list', i, row[i]) \/ Tells(wire', i, row[i])
               \/ Awaits(row[i], cursor', seen') \/ Elsewhere(query', found', cut', fallen', i, row[i])
    <3>1. \/ Tells(list, i, row[i]) \/ Tells(wire, i, row[i])
          \/ Awaits(row[i], cursor, seen) \/ Elsewhere(query, found, cut, fallen, i, row[i])
      BY <1>b, <2>1, <2>4 DEF Complete, NothingMissed, Heard
    <3>2. QED BY <1>b, <1>g, <1>q, <2>1, <2>2, <2>3, <3>1 DEF Heard
  <2>5. QED BY <1>a, <1>e, <1>f, <2>1, <2>4, CompleteAgain
<1>3. CASE ReadsNews
  <2> DEFINE Pushed == \E again \in BOOLEAN : PushFeedItem(j, t, again)
             Ignored == feed = "newsAgent" /\ known[j] = t
             out(i) == Elsewhere(query', found', cut', fallen', i, row[i])
  <2>1. /\ feed \in News \cup Messages /\ feed \in News /\ feed # "task"
        /\ Pushed \/ Ignored
        /\ feed = "newsAgent" => known' = [known EXCEPT ![j] = t]
    BY <1>3 DEF ReadsNews, News, j, t
  <2>a. \A i, u : Left(cut', fallen', i, u) => Elsewhere(query', found', cut', fallen', i, u)
    BY DEF Elsewhere
  <2>b. \A i : Tells(list, i, row[i]) => Tells(list', i, row[i]) \/ Left(cut', fallen', i, row[i])
    BY <1>3, <1>p, ItemsFall
  <2>2. Pushed => Tells(list', j, t) \/ Left(cut', fallen', j, t)
    <3>1. ASSUME NEW again \in BOOLEAN, PushFeedItem(j, t, again)
          PROVE  Tells(list', j, t) \/ Left(cut', fallen', j, t)
      <4>1. \/ \E n \in DOMAIN list' : list'[n].id = j /\ list'[n].at = t
            \/ \E c \in fallen' : c.id = j /\ c.at = t
        BY <1>c, <1>d, <3>1, PushFacts
      <4>2. QED BY <4>1 DEF Tells, Left
    <3>2. QED BY <3>1
  <2>4. ASSUME j \in Existing, t = row[j]
        PROVE  Tells(list', j, row[j]) \/ out(j)
    <3>1. CASE Pushed
      BY <2>2, <2>4, <2>a, <3>1
    <3>2. CASE Ignored
      <4>1. Tells(list, j, row[j]) \/ Elsewhere(query, found, cut, fallen, j, row[j])
        BY <1>b, <2>1, <2>4, <3>2 DEF Complete, KnownIsTold, Heard
      <4>2. QED BY <1>q, <2>a, <2>b, <4>1
    <3>3. QED BY <2>1, <3>1, <3>2
  <2> HIDE DEF Pushed, Ignored
  <2>5. ASSUME NEW i \in Existing, InLog(i)
        PROVE  Heard(list', i, row[i]) \/ Tells(wire', i, row[i]) \/ Awaits(row[i], cursor', seen') \/ out(i)
    <3>1. \/ Tells(list, i, row[i]) \/ Tells(wire, i, row[i])
          \/ Awaits(row[i], cursor, seen) \/ Elsewhere(query, found, cut, fallen, i, row[i])
      BY <1>b, <2>1, <2>5 DEF Complete, NothingMissed, Heard
    <3>2. CASE Tells(list, i, row[i])
      BY <2>1, <2>a, <2>b, <3>2 DEF Heard
    <3>3. CASE Tells(wire, i, row[i])
      BY <1>g, <2>1, <2>4, <2>5, <3>3 DEF Heard
    <3>4. QED BY <1>b, <1>q, <3>1, <3>2, <3>3
  <2>6. ASSUME feed = "newsAgent", NEW i \in Existing, known'[i] = row[i]
        PROVE  Heard(list', i, row[i]) \/ out(i)
    <3>1. CASE i = j
      <4>1. known'[j] = t
        BY <1>c, <1>d, <2>1, <2>6
      <4>2. QED BY <2>1, <2>4, <2>6, <3>1, <4>1 DEF Heard
    <3>2. CASE i # j
      <4>1. known[i] = row[i]
        BY <1>c, <2>1, <2>6, <3>2 DEF Existing
      <4>2. Tells(list, i, row[i]) \/ Elsewhere(query, found, cut, fallen, i, row[i])
        BY <1>b, <2>1, <2>6, <4>1 DEF Complete, KnownIsTold, Heard
      <4>3. QED BY <1>q, <2>1, <2>a, <2>b, <4>2 DEF Heard
    <3>3. QED BY <3>1, <3>2
  <2>7. QED BY <1>a, <1>e, <2>1, <2>5, <2>6, CompleteAgain
<1>4. QED BY <1>1, <1>2, <1>3

\* The database is polled.
LEMMA PollsStayComplete ==
  ASSUME InStep, Complete, PollTasks \/ PollsRows
  PROVE  Complete'
<1>a. feed' = feed /\ row' = row /\ event' = event /\ gone \subseteq gone'
  BY WhatChanges DEF OfStream
<1>b. /\ query' = query /\ found' = found /\ known' = known /\ list' = list
      /\ cut' = cut /\ fallen' = fallen /\ conn' = conn /\ conn = "on" /\ wire = <<>>
  BY DEF PollTasks, PollsRows, PollRows, rest
<1>c. ElementsTyped
  BY ElementsHaveTypes DEF InStep
<1>d. \A i : ~Tells(wire, i, row[i])
  <2>1. DOMAIN wire = {}
    BY <1>b
  <2>2. QED BY <2>1 DEF Tells
<1>1. ASSUME NEW i \in Existing, InLog(i), Awaits(row[i], cursor, seen)
      PROVE  Tells(wire', i, row[i])
  <2>1. CASE PollTasks
    <3>1. feed \in Tasks /\ event[row[i]] = i
      BY <1>1, <2>1 DEF PollTasks, InLog
    <3>2. row[i] \in Due
      <4>1. row[i] \in 1..clock
        BY <1>c DEF InStep, StampsInOrder, Existing, ElementsTyped
      <4>2. i # None
        BY FeedsAssumption DEF Existing
      <4>3. QED BY <1>1, <3>1, <4>1, <4>2 DEF Due, Awaits
    <3>3. QED BY <2>1, <3>1, <3>2, PollTasksFacts DEF Tells, InStep
  <2>2. CASE PollsRows
    <3>1. i \in Fresh
      BY <1>1 DEF Fresh, Awaits
    <3>2. QED BY <2>2, <3>1, PollRowsFacts DEF Tells, InStep
  <2>3. QED BY <2>1, <2>2
<1>2. feed \notin News => \A n \in DOMAIN wire' : wire'[n].at = row[wire'[n].id]
  <2>1. CASE PollTasks
    <3>1. feed \notin News => feed = "task"
      BY <2>1 DEF PollTasks, Tasks, News
    <3>2. QED BY <2>1, <3>1, PollTasksFacts DEF InStep
  <2>2. CASE PollsRows
    BY <2>2, PollRowsFacts DEF InStep
  <2>3. QED BY <2>1, <2>2
<1>3. \A i \in Existing : InLog(i) =>
        \/ Heard(list', i, row[i]) \/ Tells(wire', i, row[i]) \/ Elsewhere(query', found', cut', fallen', i, row[i])
  <2>1. \A i \in Existing : InLog(i) =>
          \/ Heard(list, i, row[i]) \/ Awaits(row[i], cursor, seen)
          \/ Elsewhere(query, found, cut, fallen, i, row[i])
    BY <1>b, <1>d DEF Complete, NothingMissed
  <2>2. QED BY <1>b, <1>1, <2>1
<1>4. query' \in {"read", "kept"} =>
        \A i \in Existing : InLog(i) =>
          Elsewhere(query', found', cut', fallen', i, row[i]) \/ \A f \in found' : f.at <= row[i]
  BY <1>b DEF Complete, QueryComplete
<1>5. feed = "task" /\ conn' # "unloaded" => \A i \in Existing : row[i] = 1 => Holds(list', i)
  BY <1>b DEF Complete, FirstTasksShown
<1>6. feed = "newsAgent" =>
        \A i \in Existing : known'[i] = row[i] =>
          Heard(list', i, row[i]) \/ Elsewhere(query', found', cut', fallen', i, row[i])
  BY <1>b DEF Complete, KnownIsTold
<1>7. QED BY <1>a, <1>2, <1>3, <1>4, <1>5, <1>6, CompleteAgain


\* A transaction begins or fails, or a task is deleted.
LEMMA RequestsStayComplete ==
  ASSUME InStep, Complete, NEW j \in Item,
         \/ BeginOther(j) \/ BeginOwn(j) \/ DeleteOther(j) \/ DeleteOwn(j) \/ Fail(j)
         \/ \E t \in 1..MaxClock : LogFails(j, t)
  PROVE  Complete'
<1>a. row' = row /\ event' = event /\ gone \subseteq gone'
  BY DEF BeginOther, BeginOwn, Begin, LogFails, DeleteOther, DeleteOwn, Delete, Fail
<1>b. UNCHANGED <<feed, conn, cursor, seen, wire, query, found, known, cut, fallen, list>>
  BY WhatChanges DEF OfRows, Logs
<1>1. conn' # "unloaded" =>
        \A i \in Existing : InLog(i) =>
          \/ Heard(list', i, row[i]) \/ Tells(wire', i, row[i])
          \/ Awaits(row[i], cursor', seen') \/ Elsewhere(query', found', cut', fallen', i, row[i])
  BY <1>b DEF Complete, NothingMissed
<1>2. feed \notin News =>
        \A n \in DOMAIN wire' : InLog(wire'[n].id) =>
          wire'[n].at = row[wire'[n].id] \/ Awaits(row[wire'[n].id], cursor', seen')
  BY <1>b DEF Complete, StaleFramesFollowed
<1>3. feed = "task" /\ conn' # "unloaded" => \A i \in Existing : row[i] = 1 => Holds(list', i)
  BY <1>b DEF Complete, FirstTasksShown
<1>4. query' \in {"read", "kept"} =>
        \A i \in Existing : InLog(i) =>
          Elsewhere(query', found', cut', fallen', i, row[i]) \/ \A f \in found' : f.at <= row[i]
  BY <1>b DEF Complete, QueryComplete
<1>5. feed = "newsAgent" =>
        \A i \in Existing : known'[i] = row[i] =>
          \/ Heard(list', i, row[i]) \/ Elsewhere(query', found', cut', fallen', i, row[i])
          \/ conn' # "on" /\ cursor' = 0 /\ found' = {}
  BY <1>b DEF Complete, KnownIsTold
<1>6. QED BY <1>a, <1>b, <1>1, <1>2, <1>3, <1>4, <1>5, CompleteAgain

\* A transaction commits a row: of a task, nothing is told yet; of another, its
\* stamp is one that neither the stream nor a query has passed.
LEMMA CommitStaysComplete ==
  ASSUME InStep, Complete, ~spoiled', NEW j \in Item,
         Commit(j) \/ CommitTask(j) \/ CommitSilently(j)
  PROVE  Complete'
<1> DEFINE o == open[j]
<1>a. /\ UNCHANGED <<feed, conn, cursor, seen, wire, query, found, known, cut, fallen, list>>
      /\ gone' = gone /\ event' = event
      /\ row'[j] = o /\ \A i \in Item : i # j => row'[i] = row[i]
  <2>1. gone' = gone
    BY CommitFacts DEF InStep, CommitRow
  <2>2. QED BY <2>1, WhatChanges, CommitFacts DEF InStep, OfRows
<1>b. ElementsTyped
  BY ElementsHaveTypes DEF InStep
<1>c. o # 0 /\ o > 1 /\ row[j] < o /\ event[o] = None /\ o \in 1..MaxClock /\ o \in Nat
  <2>1. o # 0 /\ o \in 1..MaxClock /\ o \in Nat
    BY CommitFacts, FeedsAssumption DEF InStep
  <2>2. QED BY <2>1 DEF InStep, StampsInOrder
<1>d. feed \in Tasks => ~(feed' \in Tasks => event'[row'[j]] = j)
  BY <1>a, <1>c, FeedsAssumption
<1>g. feed \notin Tasks /\ query # "asked" =>
        o >= cursor /\ o \notin seen /\ \A f \in found : f.at <= o
  <2>1. ASSUME feed \notin Tasks, query # "asked"
        PROVE  o >= cursor /\ o \notin seen /\ \A f \in found : f.at <= o
    <3>1. ~Late(o)
      BY <2>1 DEF Commit, CommitTask, CommitSilently
    <3>2. seen = {}
      BY <2>1 DEF InStep, StreamInStep
    <3>3. QED BY <1>b, <1>c, <2>1, <3>1, <3>2 DEF Late, ElementsTyped
  <2>2. QED BY <2>1
<1> HIDE DEF o
<1>1. ASSUME NEW i \in Existing', InLog(i)'
      PROVE  /\ i \in Item /\ i = j => feed \notin Tasks
             /\ i # j => i \in Existing /\ InLog(i) /\ row'[i] = row[i]
  <2>1. i \in Item
    BY DEF Existing
  <2>2. i = j => feed \notin Tasks
    BY <1>d, <1>1 DEF InLog
  <2>3. i # j => i \in Existing /\ row'[i] = row[i]
    BY <1>a, <1>1, <2>1 DEF Existing
  <2>4. i # j => InLog(i)
    BY <1>a, <1>1, <2>3 DEF InLog
  <2>5. QED BY <2>1, <2>2, <2>3, <2>4
<1>2. NothingMissed'
  <2>1. ASSUME conn # "unloaded", NEW i \in Existing', InLog(i)'
        PROVE  \/ Heard(list, i, row'[i]) \/ Tells(wire, i, row'[i])
               \/ Awaits(row'[i], cursor, seen) \/ Elsewhere(query, found, cut, fallen, i, row'[i])
    <3>1. CASE i = j
      BY <1>1, <1>a, <1>g, <2>1, <3>1 DEF Awaits, Elsewhere, Comes
    <3>2. CASE i # j
      <4>1. i \in Existing /\ InLog(i) /\ row'[i] = row[i]
        BY <1>1, <2>1, <3>2
      <4>2. QED BY <2>1, <4>1 DEF Complete, NothingMissed
    <3>3. QED BY <3>1, <3>2
  <2>2. QED BY <1>a, <2>1 DEF NothingMissed, Heard, Heads, Tells, Awaits, Elsewhere, Comes, Left
<1>3. StaleFramesFollowed'
  <2>1. ASSUME feed \notin News, NEW n \in DOMAIN wire,
               feed \in Tasks => event[row'[wire[n].id]] = wire[n].id
        PROVE  \/ wire[n].at = row'[wire[n].id]
               \/ Awaits(row'[wire[n].id], cursor, seen)
    <3>1. wire[n].id \in Item
      BY <1>b, <2>1 DEF ElementsTyped
    <3>2. CASE wire[n].id = j /\ query # "asked"
      BY <1>a, <1>d, <1>g, <2>1, <3>2 DEF Awaits
    <3>3. CASE wire[n].id = j /\ query = "asked"
      <4>1. feed \in Messages
        BY <2>1, <3>3 DEF InStep, StreamInStep, Messages
      <4>2. row[j] = 0
        BY <1>c, <4>1 DEF InStep, RequestsInStep, o
      <4>3. wire[n].at \in 1..row[j]
        BY <3>3 DEF InStep, VersionsExist, VersionOf
      <4>4. QED BY <4>2, <4>3
    <3>4. CASE wire[n].id # j
      <4>1. row'[wire[n].id] = row[wire[n].id] /\ InLog(wire[n].id)
        BY <1>a, <2>1, <3>1, <3>4 DEF InLog
      <4>2. QED BY <2>1, <4>1 DEF Complete, StaleFramesFollowed
    <3>5. QED BY <3>2, <3>3, <3>4
  <2>2. QED BY <1>a, <2>1 DEF StaleFramesFollowed, InLog, Awaits
<1>4. FirstTasksShown'
  <2>1. ASSUME feed = "task", conn # "unloaded", NEW i \in Existing', row'[i] = 1
        PROVE  Holds(list, i)
    <3>1. i # j
      BY <1>a, <1>c, <2>1
    <3>2. i \in Existing /\ row[i] = 1
      BY <1>a, <2>1, <3>1 DEF Existing
    <3>3. QED BY <2>1, <3>2 DEF Complete, FirstTasksShown
  <2>2. QED BY <1>a, <2>1 DEF FirstTasksShown, Holds
<1>5. QueryComplete'
  <2>1. ASSUME query \in {"read", "kept"}, NEW i \in Existing', InLog(i)'
        PROVE  Elsewhere(query, found, cut, fallen, i, row'[i]) \/ \A f \in found : f.at <= row'[i]
    <3>1. CASE i = j
      BY <1>1, <1>a, <1>g, <2>1, <3>1
    <3>2. CASE i # j
      <4>1. i \in Existing /\ InLog(i) /\ row'[i] = row[i]
        BY <1>1, <2>1, <3>2
      <4>2. QED BY <2>1, <4>1 DEF Complete, QueryComplete
    <3>3. QED BY <3>1, <3>2
  <2>2. QED BY <1>a, <2>1 DEF QueryComplete, Elsewhere, Comes, Left
<1>6. KnownIsTold'
  <2>1. ASSUME feed = "newsAgent", NEW i \in Existing', known[i] = row'[i]
        PROVE  \/ Heard(list, i, row'[i]) \/ Elsewhere(query, found, cut, fallen, i, row'[i])
               \/ conn # "on" /\ cursor = 0 /\ found = {}
    <3>1. known[j] <= row[j] /\ known[j] \in Nat /\ row[j] \in Nat
      BY <1>b DEF InStep, VersionsExist, ElementsTyped
    <3>2. i # j
      BY <1>a, <1>c, <2>1, <3>1
    <3>3. i \in Existing /\ row'[i] = row[i]
      BY <1>a, <2>1, <3>2 DEF Existing
    <3>4. QED BY <2>1, <3>3 DEF Complete, KnownIsTold
  <2>2. QED BY <1>a, <2>1 DEF KnownIsTold, Heard, Heads, Tells, Elsewhere, Comes, Left
<1>7. QED BY <1>2, <1>3, <1>4, <1>5, <1>6 DEF Complete

\* The event of a task is written: a stamp that neither the stream nor a query
\* has passed.
LEMMA LogStaysComplete ==
  ASSUME InStep, Complete, ~spoiled', NEW j \in Item, NEW t \in 1..MaxClock, Log(j, t)
  PROVE  Complete'
<1>a. /\ UNCHANGED <<feed, conn, cursor, seen, wire, query, found, known, cut, fallen, list>>
      /\ row' = row /\ gone' = gone
  BY WhatChanges DEF OfRows, Logs, Log
<1>b. ElementsTyped /\ t \in Nat
  BY ElementsHaveTypes, FeedsAssumption DEF InStep
<1>c. /\ pending[t] = j /\ j # None /\ event'[t] = j
      /\ \A u \in 1..MaxClock : u # t => event'[u] = event[u]
  BY LogFacts DEF InStep
<1>d. feed \in Tasks /\ t \notin seen
  <2>1. feed \in Tasks /\ event[t] = None
    BY <1>c DEF InStep, StampsInOrder
  <2>2. QED BY <2>1 DEF InStep, SeenTold
<1>e. query # "asked" => Awaits(t, cursor, seen) /\ \A f \in found : f.at <= t
  <2>1. ~Late(t)
    BY DEF Log
  <2>2. QED BY <1>b, <1>d, <2>1 DEF Late, Awaits, ElementsTyped
<1>1. ASSUME NEW i \in Item, row[i] # 0, feed \in Tasks => event'[row[i]] = i
      PROVE  InLog(i) \/ (i = j /\ row[i] = t)
  <2>1. event'[row[i]] = i
    BY <1>d, <1>1
  <2>2. row[i] \in 1..MaxClock
    <3>1. row[i] \in Nat /\ row[i] # 0
      BY <1>b, <1>1 DEF ElementsTyped
    <3>2. row[i] <= clock /\ clock \in 1..MaxClock
      BY <1>1 DEF InStep, StampsInOrder
    <3>3. MaxClock \in Nat
      BY FeedsAssumption
    <3>4. QED BY <3>1, <3>2, <3>3
  <2>3. CASE row[i] = t
    BY <1>c, <2>1, <2>3
  <2>4. CASE row[i] # t
    <3>1. event'[row[i]] = event[row[i]]
      BY <1>c, <2>2, <2>4
    <3>2. QED BY <2>1, <3>1 DEF InLog
  <2>5. QED BY <2>3, <2>4
<1>2. \A i \in Existing' : i \in Existing /\ i \in Item /\ row[i] # 0
  BY <1>a DEF Existing
<1>3. NothingMissed'
  <2>1. ASSUME conn # "unloaded", NEW i \in Existing', InLog(i)'
        PROVE  \/ Heard(list, i, row[i]) \/ Tells(wire, i, row[i])
               \/ Awaits(row[i], cursor, seen) \/ Elsewhere(query, found, cut, fallen, i, row[i])
    <3>1. CASE InLog(i)
      BY <1>2, <2>1, <3>1 DEF Complete, NothingMissed
    <3>2. CASE row[i] = t
      BY <1>e, <3>2 DEF Elsewhere, Comes
    <3>3. QED BY <1>1, <1>2, <1>a, <2>1, <3>1, <3>2 DEF InLog
  <2>2. QED BY <1>a, <2>1 DEF NothingMissed, Heard, Heads, Tells, Awaits, Elsewhere, Comes, Left
<1>4. StaleFramesFollowed'
  <2>1. ASSUME feed \notin News, NEW n \in DOMAIN wire,
               feed \in Tasks => event'[row[wire[n].id]] = wire[n].id
        PROVE  \/ wire[n].at = row[wire[n].id] \/ Awaits(row[wire[n].id], cursor, seen)
    <3>1. wire[n].id \in Item /\ row[wire[n].id] # 0
      <4>1. wire[n].id \in Item /\ row[wire[n].id] \in Nat /\ wire[n].at \in 1..row[wire[n].id]
        BY <1>b DEF ElementsTyped, InStep, VersionsExist, VersionOf
      <4>2. QED BY <4>1
    <3>2. CASE InLog(wire[n].id)
      BY <2>1, <3>2 DEF Complete, StaleFramesFollowed
    <3>3. CASE row[wire[n].id] = t
      <4>1. query # "asked"
        BY <1>d, <2>1, FeedKinds DEF InStep, StreamInStep
      <4>2. QED BY <1>e, <3>3, <4>1
    <3>4. QED BY <1>1, <2>1, <3>1, <3>2, <3>3
  <2>2. QED BY <1>a, <2>1 DEF StaleFramesFollowed, InLog, Awaits
<1>5. FirstTasksShown'
  BY <1>a, <1>2 DEF Complete, FirstTasksShown, Holds
<1>6. QueryComplete'
  <2>1. ASSUME query \in {"read", "kept"}, NEW i \in Existing', InLog(i)'
        PROVE  Elsewhere(query, found, cut, fallen, i, row[i]) \/ \A f \in found : f.at <= row[i]
    <3>1. CASE InLog(i)
      BY <1>2, <2>1, <3>1 DEF Complete, QueryComplete
    <3>2. CASE row[i] = t
      BY <1>e, <2>1, <3>2
    <3>3. QED BY <1>1, <1>2, <1>a, <2>1, <3>1, <3>2 DEF InLog
  <2>2. QED BY <1>a, <2>1 DEF QueryComplete, Elsewhere, Comes, Left
<1>7. KnownIsTold'
  BY <1>a, <1>d DEF KnownIsTold, Tasks
<1>8. QED BY <1>3, <1>4, <1>5, <1>6, <1>7 DEF Complete


\* The page asks for a change, or shows the answer.
LEMMA PageStaysComplete ==
  ASSUME InStep, Complete, ~spoiled', NEW j \in Item, OfPage(j)
  PROVE  Complete'
<1>a. /\ UNCHANGED <<feed, row, event, conn, cursor, seen, wire, query, found, known, cut, fallen>>
      /\ gone \subseteq gone'
  BY WhatChanges
<1>b. feed \notin News /\ conn # "unloaded" /\ feed # "newsAgent"
  BY NewsAsksNothing DEF InStep, News
<1>c. /\ list \in Seq(Card) /\ reply[j] \in Stamp /\ reply[j] \in Nat
      /\ before[j] \in Seq(Card) /\ ElementsTyped
  BY ElementsHaveTypes DEF InStep, TypeOK, ElementsTyped
<1>d. /\ ask[j] \in {"create", "move", "save", "delete"} => feed = "task"
      /\ ask[j] = "decide" => feed = "approval"
      /\ ask[j] = "post" => feed \in Messages
  BY DEF InStep, RequestsInStep, Kinds, Messages
<1>e. feed \in {"task", "approval"} => feed \notin News \cup Messages /\ feed \notin Messages
  BY DEF News, Messages, Groups
<1> DEFINE Kept(i) == /\ Heard(list, i, row[i]) => Heard(list', i, row[i])
                      /\ feed = "task" /\ Holds(list, i) => Holds(list', i)
<1>f. ASSUME feed \in {"task", "approval"}, stage[j] = "done", ask[j] # "delete", ~Overtaken(j),
             Heads(list, j, row[j])
      PROVE  reply[j] = row[j]
  <2>1. PICK n \in DOMAIN list : list[n].id = j /\ list[n].at = row[j]
    BY <1>f DEF Heads
  <2>2. n \in Copies(j)
    BY <2>1 DEF Copies
  <2>3. ~(row[j] > reply[j])
    BY <1>f, <2>1, <2>2 DEF Overtaken
  <2>4. reply[j] \in 1..row[j]
    BY <1>f DEF InStep, VersionsExist, VersionOf
  <2>5. QED BY <1>c, <2>3, <2>4 DEF ElementsTyped
<1>1. ASSUME NEW i \in Existing PROVE Kept(i)
  <2>0. i \in Item /\ i \notin gone
    BY DEF Existing
  <2>1. CASE AskMove(j)
    <3>1. feed = "task" /\ list' = Moved(list, j)
      BY <2>1 DEF AskMove
    <3>2. SameRows(list, list') /\ (Heads(list, i, row[i]) => Heads(list', i, row[i]))
      BY <1>c, <3>1, MovedKeeps
    <3>3. QED BY <1>e, <3>1, <3>2 DEF Heard, SameRows, Holds
  <2>2. CASE AsksOnly(j) \/ RequestFailed(j)
    <3>1. list' = list
      BY <2>2 DEF AsksOnly, RequestFailed
    <3>2. QED BY <3>1
  <2>3. CASE Created(j)
    <3>1. /\ feed = "task" /\ list' = <<Put(j, reply[j])>> \o list
          /\ stage[j] = "done" /\ ask[j] = "create" /\ ~Overtaken(j)
      BY <1>d, <2>3 DEF Created, Answered, Finish
    <3>2. Put(j, reply[j]) \in Card /\ Put(j, reply[j]).id = j /\ Put(j, reply[j]).at = reply[j]
      BY <1>c, PutFacts
    <3>3. Heads(list', j, reply[j])
      BY <1>c, <3>1, <3>2, PrependKeeps
    <3>4. Heads(list, i, row[i]) => Heads(list', i, row[i])
      <4>1. CASE i = j
        BY <1>f, <3>1, <3>3, <4>1
      <4>2. CASE i # j
        BY <1>c, <2>0, <3>1, <3>2, <4>2, PrependKeeps
      <4>3. QED BY <4>1, <4>2
    <3>5. Holds(list, i) => Holds(list', i)
      <4>1. \A n \in DOMAIN list : n + 1 \in DOMAIN list' /\ list'[n + 1] = list[n]
        BY <1>c, <3>1, <3>2, PrependFacts
      <4>2. QED BY <4>1 DEF Holds
    <3>6. QED BY <1>e, <3>1, <3>4, <3>5 DEF Heard
  <2>4. CASE Replaced(j)
    <3>1. /\ feed \in {"task", "approval"} /\ list' = Replace(j, reply[j])
          /\ stage[j] = "done" /\ ask[j] # "delete" /\ ~Overtaken(j)
      BY <1>d, <2>4 DEF Replaced, Answered, Finish
    <3>2. SameRows(list, list') /\ (j \in Shown => Heads(list', j, reply[j]))
      BY <1>c, <3>1, ReplaceKeeps
    <3>3. Heads(list, i, row[i]) => Heads(list', i, row[i])
      <4>1. CASE i = j
        <5>1. Heads(list, i, row[i]) => j \in Shown
          BY <4>1 DEF Heads, Shown
        <5>2. QED BY <1>f, <3>1, <3>2, <4>1, <5>1
      <4>2. CASE i # j
        BY <1>c, <2>0, <3>1, <4>2, ReplaceKeeps
      <4>3. QED BY <4>1, <4>2
    <3>4. QED BY <1>e, <3>1, <3>2, <3>3 DEF Heard, SameRows, Holds
  <2>5. CASE Posted(j)
    <3>1. feed \in Messages /\ feed # "task" /\ list' = Insert(j, reply[j])
      BY <1>d, <2>5 DEF Posted, Answered, Finish, Messages, Groups
    <3>2. \A n \in DOMAIN list : \E k \in DOMAIN list' : list'[k] = list[n]
      BY <1>c, <3>1, InsertKeeps
    <3>3. QED BY <3>1, <3>2 DEF Heard, Tells
  <2>6. CASE Deleted(j)
    <3>1. feed = "task" /\ j \in gone
      BY <1>d, <2>6 DEF Deleted, Finish, InStep, RequestsInStep
    <3>2. PICK others \in Ascending(Others(list, j)) : list' = Selected(list, others)
      BY <2>6 DEF Deleted, Others, Selected
    <3>3. i # j
      BY <2>0, <3>1
    <3>4. list \in Seq(Card)
      BY <1>c
    <3>5. /\ \A k \in Item : \A u : k # j /\ Heads(list, k, u) => Heads(list', k, u)
          /\ \A k \in DOMAIN list : list[k].id # j => \E n \in DOMAIN list' : list'[n] = list[k]
      BY <3>2, <3>4, OthersStay
    <3>6. Heads(list, i, row[i]) => Heads(list', i, row[i])
      BY <2>0, <3>3, <3>5
    <3>7. Holds(list, i) => Holds(list', i)
      BY <3>3, <3>5 DEF Holds
    <3>8. QED BY <1>e, <3>1, <3>6, <3>7 DEF Heard
  <2>7. CASE MoveFailed(j)
    <3>1. feed = "task" /\ list' = before[j] /\ list = Moved(before[j], j)
      BY <1>d, <2>7 DEF MoveFailed, Finish
    <3>2. SameRows(before[j], list) /\ (Heads(before[j], i, row[i]) <=> Heads(list, i, row[i]))
      BY <1>c, <3>1, MovedKeeps
    <3>3. QED BY <1>e, <3>1, <3>2 DEF Heard, SameRows, Holds
  <2>8. QED BY <2>1, <2>2, <2>3, <2>4, <2>5, <2>6, <2>7 DEF OfPage
<1>2. \A i \in Existing : InLog(i) =>
        \/ Heard(list', i, row[i]) \/ Tells(wire', i, row[i])
        \/ Awaits(row[i], cursor', seen') \/ Elsewhere(query', found', cut', fallen', i, row[i])
  BY <1>a, <1>b, <1>1 DEF Complete, NothingMissed
<1>3. feed = "task" => \A i \in Existing : row[i] = 1 => Holds(list', i)
  BY <1>b, <1>1 DEF Complete, FirstTasksShown
<1>4. feed \notin News =>
        \A n \in DOMAIN wire' : InLog(wire'[n].id) =>
          wire'[n].at = row[wire'[n].id] \/ Awaits(row[wire'[n].id], cursor', seen')
  BY <1>a DEF Complete, StaleFramesFollowed
<1>5. query' \in {"read", "kept"} =>
        \A i \in Existing : InLog(i) =>
          Elsewhere(query', found', cut', fallen', i, row[i]) \/ \A f \in found' : f.at <= row[i]
  BY <1>a DEF Complete, QueryComplete
<1>6. QED BY <1>a, <1>b, <1>2, <1>3, <1>4, <1>5, CompleteAgain

-----------------------------------------------------------------------------
(* As long as none of the races has happened, the page is complete.         *)
CompleteInStep == ~spoiled => Complete

\* Every step keeps the page complete, unless it is one of the races.
LEMMA CompleteKept ==
  ASSUME InStep, CompleteInStep, Next
  PROVE  CompleteInStep'
<1> SUFFICES ASSUME ~spoiled' PROVE Complete'
  BY DEF CompleteInStep
<1>a. Complete
  BY SpoiledStays DEF CompleteInStep
<1>b. OfQuery \/ OfStream \/ \E i \in Item : OfRows(i) \/ OfPage(i)
  BY StepKinds DEF InStep
<1>1. CASE OfQuery
  BY <1>a, <1>1, AsksStayComplete, AnswersStayComplete DEF OfQuery
<1>2. CASE OfStream
  BY <1>a, <1>2, ConnectionsStayComplete, PushedOutStaysComplete, ReadsStayComplete,
     PollsStayComplete DEF OfStream
<1>3. CASE \E i \in Item : OfRows(i)
  BY <1>a, <1>3, RequestsStayComplete, CommitStaysComplete, LogStaysComplete DEF OfRows, Logs
<1>4. CASE \E i \in Item : OfPage(i)
  BY <1>a, <1>4, PageStaysComplete
<1>5. QED BY <1>b, <1>1, <1>2, <1>3, <1>4

\* A page that none of the races has struck has, whatever the connections and
\* requests went through, shown, on its way, ahead of its stream or left out by
\* a limit the last change of every row that its event, if it needs one, tells:
\* the inductive invariant behind NothingLost.
THEOREM CompleteInvariant == Spec => []CompleteInStep
<1>1. Init /\ TypeOK => CompleteInStep
  <2> SUFFICES ASSUME Init, TypeOK PROVE Complete
    BY DEF CompleteInStep
  <2>1. conn = "unloaded" /\ wire = <<>> /\ query = "none" /\ found = {} /\ cursor = 0
    BY DEF Init
  <2>2. DOMAIN wire = {}
    BY <2>1
  <2>3. NothingMissed /\ FirstTasksShown /\ QueryComplete
    BY <2>1 DEF NothingMissed, FirstTasksShown, QueryComplete
  <2>4. StaleFramesFollowed /\ KnownIsTold
    BY <2>1, <2>2 DEF StaleFramesFollowed, KnownIsTold
  <2>5. QED BY <2>3, <2>4 DEF Complete
<1>2. ListsInStep /\ CompleteInStep /\ [Next]_vars => CompleteInStep'
  <2>1. ASSUME ListsInStep, CompleteInStep, Next PROVE CompleteInStep'
    BY <2>1, CompleteKept DEF ListsInStep
  <2>2. ASSUME CompleteInStep, UNCHANGED vars PROVE CompleteInStep'
    <3>1. UNCHANGED <<feed, row, gone, event, conn, cursor, seen, wire>>
      BY <2>2 DEF vars, rows, stream
    <3>2. UNCHANGED <<query, found, known, cut, fallen, list, spoiled>>
      BY <2>2 DEF vars, rest
    <3>3. Complete => Complete'
      <4>1. NothingMissed => NothingMissed'
        BY <3>1, <3>2 DEF NothingMissed, Existing, InLog, Heard, Heads, Tells, Awaits,
                              Elsewhere, Comes, Left
      <4>2. StaleFramesFollowed => StaleFramesFollowed'
        BY <3>1, <3>2 DEF StaleFramesFollowed, InLog, Awaits
      <4>3. FirstTasksShown => FirstTasksShown'
        BY <3>1, <3>2 DEF FirstTasksShown, Existing, Holds
      <4>4. QueryComplete => QueryComplete'
        BY <3>1, <3>2 DEF QueryComplete, Existing, InLog, Elsewhere, Comes, Left
      <4>5. KnownIsTold => KnownIsTold'
        BY <3>1, <3>2 DEF KnownIsTold, Existing, Heard, Heads, Tells, Elsewhere, Comes, Left
      <4>6. QED BY <4>1, <4>2, <4>3, <4>4, <4>5 DEF Complete
    <3>4. QED BY <2>2, <3>2, <3>3 DEF CompleteInStep
  <2>3. QED BY <2>1, <2>2
<1>3. QED BY <1>1, <1>2, FeedsTyped, ListsInvariant, PTL DEF Spec


\* A list that has heard of a row shows it as it is, but for a status of its own.
LEMMA HeardIsCurrent ==
  ASSUME ListsInStep, ~spoiled, NEW i \in Existing, Heard(list, i, row[i])
  PROVE  Current(i) \/ ask[i] = "move"
<1>a. list \in Seq(Card) /\ ElementsTyped /\ i \in Item
  BY ElementsHaveTypes DEF ListsInStep, InStep, TypeOK, Existing
<1>1. CASE feed \in News
  BY <1>1 DEF Heard, Tells, Current, Copies
<1>2. CASE feed \notin News
  <2> DEFINE n == Least(Copies(i))
  <2>1. i \in Shown
    BY DEF Heard, Tells, Heads, Shown
  <2>2. n \in DOMAIN list /\ list[n].id = i /\ \A k \in DOMAIN list : list[k].id = i => n <= k
    BY <1>a, <2>1, FirstCard
  <2>3. list[n].mine => ask[i] = "move"
    BY <2>2 DEF ListsInStep, MovesSettle
  <2>4. list[n].at = row[i]
    <3>1. CASE feed \in Messages
      BY <2>2, <3>1 DEF ListsInStep, InStep, VersionsExist, VersionOf
    <3>2. CASE feed \notin Messages
      <4>1. PICK k \in DOMAIN list : /\ list[k].id = i /\ list[k].at = row[i]
                                     /\ \A m \in DOMAIN list : list[m].id = i => k <= m
        BY <1>2, <3>2 DEF Heard, Heads
      <4>2. k <= n /\ n <= k /\ k \in Nat /\ n \in Nat
        BY <1>a, <2>2, <4>1 DEF ElementsTyped
      <4>3. k = n
        BY <4>2
      <4>4. QED BY <4>1, <4>3
    <3>3. QED BY <3>1, <3>2
  <2>5. QED BY <1>2, <2>1, <2>3, <2>4 DEF Current
<1>3. QED BY <1>1, <1>2

\* The snapshot, the streams and the answers of the page and the generators of
\* the backend lose no change that is told, but by the races and the limits:
\* every such row is shown as it is or will be sent, across lost connections and
\* failed requests.
THEOREM NothingIsLost == Spec => []NothingLost
<1>1. ListsInStep /\ CompleteInStep => NothingLost
  <2> SUFFICES ASSUME ListsInStep, CompleteInStep, ~spoiled, conn # "unloaded",
                      conn # "on" => ~Ahead /\ ~Gap, NEW i \in Existing, Told(i)
               PROVE  Current(i) \/ InWire(i) \/ ToBeSent(i) \/ Coming(i)
                      \/ LeftOut(i) \/ ask[i] = "move"
    BY DEF NothingLost
  <2>a. Complete
    BY DEF CompleteInStep
  <2>b. /\ list \in Seq(Card) /\ ElementsTyped /\ Since \in Nat
        /\ i \in Item /\ row[i] # 0 /\ row[i] \in Nat /\ cursor \in Nat
    <3>1. list \in Seq(Card) /\ ElementsTyped
      BY ElementsHaveTypes DEF ListsInStep, InStep, TypeOK
    <3>2. Since \in Nat
      BY <3>1, SinceFacts, FeedsAssumption DEF Stamp
    <3>3. QED BY <3>1, <3>2 DEF ElementsTyped, Existing
  <2>1. CASE feed = "task" /\ row[i] = 1
    <3>1. Holds(list, i)
      BY <2>a, <2>1 DEF Complete, FirstTasksShown
    <3>2. i \in Shown
      BY <3>1 DEF Holds, Shown
    <3>3. /\ Least(Copies(i)) \in DOMAIN list /\ list[Least(Copies(i))].id = i
          /\ \A k \in DOMAIN list : list[k].id = i => Least(Copies(i)) <= k
      BY <2>b, <3>2, FirstCard
    <3>4. list[Least(Copies(i))].at \in 1..row[i]
      BY <3>3 DEF ListsInStep, InStep, VersionsExist, VersionOf
    <3>5. list[Least(Copies(i))].at = row[i]
      BY <2>1, <3>4
    <3>6. Heard(list, i, row[i])
      BY <3>3, <3>5 DEF Heard, Tells, Heads
    <3>7. QED BY <3>6, HeardIsCurrent
  <2>2. CASE ~(feed = "task" /\ row[i] = 1)
    <3>1. InLog(i)
      BY <2>2 DEF Told, InLog
    <3>2. \/ Heard(list, i, row[i]) \/ Tells(wire, i, row[i])
          \/ Awaits(row[i], cursor, seen) \/ Elsewhere(query, found, cut, fallen, i, row[i])
      BY <2>a, <3>1 DEF Complete, NothingMissed
    <3>3. CASE Heard(list, i, row[i])
      BY <3>3, HeardIsCurrent
    <3>4. CASE Tells(wire, i, row[i])
      BY <3>4 DEF Tells, InWire
    <3>5. CASE Elsewhere(query, found, cut, fallen, i, row[i])
      BY <3>5 DEF Elsewhere, Comes, Left, Coming, LeftOut, Version
    <3>6. CASE Awaits(row[i], cursor, seen)
      <4>1. CASE conn = "on"
        BY <3>6, <4>1 DEF Awaits, ToBeSent
      <4>2. CASE conn # "on" /\ ~Coming(i)
        <5>1. Uncertain
          BY <2>b, <4>2 DEF Uncertain
        <5>2. Since <= cursor
          BY <2>b, <4>2, <5>1 DEF Ahead
        <5>3. QED BY <2>b, <3>6, <4>2, <5>2 DEF Awaits, ToBeSent
      <4>3. QED BY <4>1, <4>2
    <3>7. QED BY <3>2, <3>3, <3>4, <3>5, <3>6
  <2>3. QED BY <2>1, <2>2
<1>2. QED BY <1>1, ListsInvariant, CompleteInvariant, PTL
=============================================================================
