------------------------------- MODULE Huffman -------------------------------
(***************************************************************************)
(* The compression of values (src/src/ddb_huffman.c, ddb_queue.c).  The    *)
(* words of the values are counted and sorted by frequency, a Huffman tree *)
(* is built over them with a queue of inner nodes, and the codes no longer *)
(* than MaxDepth make the code book.  A compressed value is a sequence of  *)
(* bits: a residual of three bits, then codes, each behind a 1, and        *)
(* literals, each behind a 0.  Bits are kept in the order of their offset. *)
(*                                                                         *)
(* Building the tree is followed node by node; counting, the allocation of *)
(* the codes and the two conversions are operators.                        *)
(***************************************************************************)
EXTENDS Integers, SequencesExt

CONSTANTS
  Corpora,        \* the sets of values compressed: sets of sequences of bytes
  ByteBits,       \* 8, the bits of a byte
  Word,           \* 4, the bytes of a word
  MaxDepth,       \* 16, the length of the longest code
  CodebookSize,   \* DDB_CODEBOOK_SIZE, 2 ^ 16
  MaxCandidates,  \* MAX_CANDIDATES, the words counted at most
  FreqLimit,      \* 2 ^ 32, the values of the type words are sorted and weighed by
  SizeLimit       \* UINT_MAX, a bound on the bytes of a compressed value

\* x without its lowest bits: without none, one, and so on.
Shifted(x) == LET s[b \in 0 .. ByteBits] == IF b = 0 THEN x ELSE s[b - 1] \div 2 IN s
Byte == {x \in Nat : Shifted(x)[ByteBits] = 0}

ASSUME HuffmanAssumption ==
  /\ ByteBits \in Nat \ {0} /\ Word \in Nat \ {0} /\ MaxDepth \in Nat \ {0}
  /\ CodebookSize \in Nat /\ CodebookSize = 2 ^ MaxDepth /\ MaxCandidates \in Nat \ {0}
  /\ FreqLimit \in Nat \ {0} /\ SizeLimit \in Nat
  /\ \A C \in Corpora : IsFiniteSet(C) /\ C \subseteq Seq(Byte)

None == [inner |-> FALSE, at |-> 0]   \* a child that is NULL
Leaf(k) == [inner |-> FALSE, at |-> k]
Node(k) == [inner |-> TRUE, at |-> k]

VARIABLES
  corpus,    \* the keys of values_map
  stage,     \* "counting", "building", "coded", "failed"
  symbols,   \* the words, by descending weight: nodes of ddb_create_codemap
  left,      \* num_symbols in huffman_code: the symbols not yet in the tree
  nodes,     \* newnodes
  queue,     \* the inner nodes that have no parent yet
  codes      \* the code book: the code of each word that has one

hvars == <<corpus, stage, symbols, left, nodes, queue, codes>>

HuffmanInit == /\ corpus \in Corpora
               /\ stage = "counting" /\ symbols = <<>> /\ left = 0
               /\ nodes = <<>> /\ queue = <<>> /\ codes = <<>>
-----------------------------------------------------------------------------
(***************************************************************************)
(* collect_frequencies and sort_symbols                                    *)
(***************************************************************************)
\* A value is read as overlapping words; the one at its end is left out.
WordAt(v, p) == SubSeq(v, p + 1, p + Word)
WordPlaces(v) == IF Len(v) < Word THEN {} ELSE 0 .. Len(v) - Word - 1

Places == UNION {{v} \X WordPlaces(v) : v \in corpus}
Words == {WordAt(p[1], p[2]) : p \in Places}
Frequency(w) == Cardinality({p \in Places : WordAt(p[1], p[2]) = w})

\* A count is as wide as a pointer; only 32 bits of it are left in a struct sortpair.
Freq(w) == Frequency(w) % FreqLimit

\* qsort leaves words of the same frequency in any order.
Orders == {q \in SetToSeqs(Words) : \A k \in 1 .. Len(q) - 1 : Freq(q[k]) >= Freq(q[k + 1])}

\* The most frequent words become the symbols of the code.
SortSymbols ==
  /\ stage = "counting"
  /\ Cardinality(Words) <= MaxCandidates
  /\ \E q \in Orders :
       LET chosen == SubSeq(q, 1, IF Len(q) < CodebookSize THEN Len(q) ELSE CodebookSize)
       IN  /\ symbols' = [k \in DOMAIN chosen |->
                            [word |-> chosen[k], weight |-> Freq(chosen[k])]]
           /\ left' = Len(chosen)
  /\ stage' = "building"
  /\ UNCHANGED <<corpus, nodes, queue, codes>>

\* An allocation fails, or there are more words than can be counted: no code map.
NoCodemap == /\ stage \in {"counting", "building"}
             /\ stage' = "failed"
             /\ UNCHANGED <<corpus, symbols, left, nodes, queue, codes>>
-----------------------------------------------------------------------------
(***************************************************************************)
(* huffman_code                                                            *)
(***************************************************************************)
Weight(r) == IF r = None THEN 0 ELSE IF r.inner THEN nodes[r.at].weight ELSE symbols[r.at].weight

Popped(r, l, q) == [ref |-> r, left |-> l, queue |-> q]

\* Mutant: symbols are taken as long as there are any.
PopSymbolsFirst(l, q) ==
  CASE l > 0 -> Popped(Leaf(l), l - 1, q)
    [] l = 0 /\ q # <<>> -> Popped(Node(Head(q)), l, Tail(q))
    [] OTHER -> Popped(None, l, q)

\* pop_min_weight: the lighter of the last symbol and the first inner node.
PopMinWeight(l, q) ==
  CASE q # <<>> /\ (l = 0 \/ nodes[Head(q)].weight < symbols[l].weight) ->
         Popped(Node(Head(q)), l, Tail(q))
    [] l > 0 /\ (q = <<>> \/ nodes[Head(q)].weight >= symbols[l].weight) ->
         Popped(Leaf(l), l - 1, q)
    [] OTHER -> Popped(None, l, q)

\* Mutant: the last node is given a parent, too.
MakeNodeMore ==
  /\ stage = "building"
  /\ left > 0 \/ Len(queue) > 0
  /\ LET a == PopMinWeight(left, queue)
         b == PopMinWeight(a.left, a.queue)
     IN  /\ nodes' = Append(nodes, [left |-> a.ref, right |-> b.ref,
                                    weight |-> Weight(a.ref) + Weight(b.ref)])
         /\ left' = b.left
         /\ queue' = Append(b.queue, Len(nodes'))
  /\ UNCHANGED <<corpus, stage, symbols, codes>>

\* One pass of the loop: the two lightest get a parent.
MakeNode ==
  /\ stage = "building"
  /\ left > 0 \/ Len(queue) > 1
  /\ LET a == PopMinWeight(left, queue)
         b == PopMinWeight(a.left, a.queue)
     IN  /\ nodes' = Append(nodes, [left |-> a.ref, right |-> b.ref,
                                    weight |-> Weight(a.ref) + Weight(b.ref)])
         /\ left' = b.left
         /\ queue' = Append(b.queue, Len(nodes'))
  /\ UNCHANGED <<corpus, stage, symbols, codes>>

\* The way from the root, which is the last node, to a node: 0 to the left, 1 to the right.
Parent(r) == CHOOSE p \in DOMAIN nodes : r \in {nodes[p].left, nodes[p].right}
Turn(r) == IF nodes[Parent(r)].right = r THEN 1 ELSE 0
Ways == LET way[k \in DOMAIN nodes] ==
              IF k = Len(nodes) THEN <<>>
              ELSE Append(way[Parent(Node(k))], Turn(Node(k)))
        IN  way
WayTo(r) == Append(Ways[Parent(r)], Turn(r))

\* Mutant: a word that lies too deep is given what its ancestor got.
CodewordsCut == [w \in {symbols[k].word : k \in DOMAIN symbols} |->
                   LET way == WayTo(Leaf(CHOOSE k \in DOMAIN symbols : symbols[k].word = w))
                   IN  IF Len(way) > MaxDepth THEN SubSeq(way, 1, MaxDepth) ELSE way]

\* allocate_codewords and make_codebook: words that lie too deep have no code.
Codewords ==
  LET Way(k) == WayTo(Leaf(k))
      coded == {k \in DOMAIN symbols : Len(Way(k)) <= MaxDepth}
  IN  [w \in {symbols[k].word : k \in coded} |->
         Way(CHOOSE k \in coded : symbols[k].word = w)]

AllocateCodewords == /\ stage = "building" /\ left = 0 /\ Len(queue) <= 1
                     /\ codes' = Codewords
                     /\ stage' = "coded"
                     /\ UNCHANGED <<corpus, symbols, left, nodes, queue>>

HuffmanNext == SortSymbols \/ NoCodemap \/ MakeNode \/ AllocateCodewords
-----------------------------------------------------------------------------
(***************************************************************************)
(* ddb_compress and ddb_decompress                                         *)
(***************************************************************************)
\* Bit b of a byte, the lowest first; a byte from its bits.
Bits(x) == [b \in 1 .. ByteBits |-> Shifted(x)[b - 1] % 2]
ByteOf(q) == LET x[b \in 0 .. ByteBits] == IF b = 0 THEN 0 ELSE 2 * x[b - 1] + q[ByteBits + 1 - b]
             IN  x[ByteBits]

Zeros(k) == [b \in 1 .. k |-> 0]

\* The codes and literals of a value.
Body(v) ==
  LET from[p \in 0 .. Len(v)] ==
        CASE p = Len(v) -> <<>>
          [] p < Len(v) /\ p \in WordPlaces(v) /\ WordAt(v, p) \in DOMAIN codes ->
               <<1>> \o codes[WordAt(v, p)] \o from[p + Word]
          [] OTHER -> <<0>> \o Bits(v[p + 1]) \o from[p + 1]
  IN  from[0]

\* A value that is too long is refused, and the constructor is not finalized.
TooLong(v) == (3 + Len(Body(v))) \div 8 >= SizeLimit

\* Bytes are filled up; the residual says by how many bits.
Compress(v) ==
  LET offs == 3 + Len(Body(v))
      residual == (-offs) % 8
  IN  [size |-> (offs + residual) \div 8, residual |-> residual,
       bits |-> Zeros(3) \o Body(v) \o Zeros(residual)]

\* ddb_save_codemap: an index that begins with a code has its word; other entries are zero.
Codes(index) == {w \in DOMAIN codes : IsPrefix(codes[w], index)}
Book(index) == IF Codes(index) = {} THEN [symbol |-> Zeros(Word), bits |-> 0]
               ELSE LET w == CHOOSE w \in Codes(index) : TRUE
                    IN  [symbol |-> w, bits |-> Len(codes[w])]

\* Seventeen bits are read at a time, behind the end too, where anything may be.
Decompress(e, anything) ==
  LET bits == e.bits \o [b \in 1 .. MaxDepth + ByteBits |-> anything]
      num_bits == e.size * 8 - e.residual
      from[offs \in 0 .. num_bits + MaxDepth + ByteBits] ==
        CASE offs >= num_bits -> <<>>
          [] offs < num_bits /\ bits[offs + 1] = 0 ->
               <<ByteOf(SubSeq(bits, offs + 2, offs + 1 + ByteBits))>> \o from[offs + 1 + ByteBits]
          [] OTHER ->
               LET entry == Book(SubSeq(bits, offs + 2, offs + 1 + MaxDepth))
               IN  entry.symbol \o from[offs + 1 + entry.bits]
  IN  from[3]
-----------------------------------------------------------------------------
(***************************************************************************)
(* What a constructor compresses a reader gets back: the codes are free of *)
(* prefixes although the tree may be cut and counts may have been too      *)
(* large for their type, and the end of the bits is found whatever lies    *)
(* behind them.                                                            *)
(***************************************************************************)
RoundTrip == stage = "coded" =>
  \A v \in corpus, anything \in {0, 1} : ~TooLong(v) => Decompress(Compress(v), anything) = v

\* The entries of the code book that begin with a code so much shorter than the longest.
Share == LET share[b \in 0 .. MaxDepth] == IF b = 0 THEN 1 ELSE 2 * share[b - 1] IN share

(***************************************************************************)
(* When no word had to be left out no other code of words, of whatever     *)
(* lengths, makes the words shorter in total; as long as no word is found  *)
(* so often that its count does not fit the type it is sorted by.          *)
(***************************************************************************)
CountsFit == \A w \in Words : Frequency(w) < FreqLimit

Optimal == stage = "coded" /\ DOMAIN codes = Words /\ CountsFit =>
  \A len \in [Words -> 1 .. MaxDepth] :
    SumFunction([w \in Words |-> Share[MaxDepth - len[w]]]) <= Share[MaxDepth] =>
      SumFunction([w \in Words |-> Frequency(w) * Len(codes[w])])
        <= SumFunction([w \in Words |-> Frequency(w) * len[w]])

(***************************************************************************)
(* newnodes has room for as many nodes as there are symbols, the queue for *)
(* twice as many: ddb_queue_push never gives up (src/src/ddb_queue.c:44).  *)
(***************************************************************************)
NodesFit == stage = "building" => /\ Len(nodes) <= Len(symbols)
                                  /\ Len(queue) <= 2 * Len(symbols)
=============================================================================
