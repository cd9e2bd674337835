------------------------------ MODULE Umalloc ------------------------------
(* umalloc.c: the allocator of the user programs.  Addresses count units of *)
(* sizeof(Header); the header base is at 0 and the heap above it, as the    *)
(* linker puts them.  A block is its header and the units behind it.        *)
EXTENDS Integers, FiniteSets
CONSTANTS Units,      \* how far the break may go
          Chunk,      \* the least number of units morecore() asks for
          Requests    \* the sizes malloc() is asked for, in units with the header
VARIABLES hdr,        \* address -> [ptr, size]
          freep,      \* where the last search ended
          brk,        \* the break
          op,         \* the call: its loop, the units asked for, and where it is;
                      \*   history: moved: on from freep; grown: after morecore()
          arena,      \* history: the units morecore() got
          held,       \* history: <<address, units>> the program may use
          nomem       \* history: the request that malloc() answered with 0, or 0

heapVars == <<hdr, freep, brk, op, arena, held, nomem>>
ASSUME HeapAssumption == Units \in Nat /\ Units >= 2 /\ Chunk \in Nat \ {0} /\ Requests \subseteq Nat \ {0}

Base == 0
NULL == Units + 1
Larger(a, b) == IF a < b THEN b ELSE a
NoCall == [fn |-> "none", nu |-> 0, at |-> Base, bp |-> Base, moved |-> FALSE, grown |-> FALSE]
\* malloc() looks at the block behind prevp, which is prev.
Find(nu, prev, grown) == [NoCall EXCEPT !.fn = "find", !.nu = nu, !.at = prev, !.grown = grown]
\* free() looks whether bp belongs behind p; morecore() calls it for a request nu.
Place(nu, p, bp) == [NoCall EXCEPT !.fn = "place", !.nu = nu, !.at = p, !.bp = bp]

\* free(): bp belongs behind p when it is between p and the next block, or p is
\* the end of the ring and bp below or above all of it.
Belongs(p, bp) == LET next == hdr[p].ptr IN \/ bp > p /\ bp < next
                                            \/ p >= next /\ (bp > p \/ bp < next)
\* The block is joined with the one above it, then with the one below.
JoinUpNot(h, p, bp) == [h EXCEPT ![bp].ptr = h[p].ptr]
JoinUp(h, p, bp) == LET next == h[p].ptr IN
                    IF bp + h[bp].size = next
                    THEN [h EXCEPT ![bp] = [ptr |-> h[next].ptr, size |-> h[bp].size + h[next].size]]
                    ELSE [h EXCEPT ![bp].ptr = next]
JoinDown(h, p, bp) == IF p + h[p].size = bp
                      THEN [h EXCEPT ![p] = [ptr |-> h[bp].ptr, size |-> h[p].size + h[bp].size]]
                      ELSE [h EXCEPT ![p].ptr = bp]
free == /\ op.fn = "none"
        /\ \E b \in held : op' = Place(0, freep, b[1]) /\ held' = held \ {b}
        /\ nomem' = 0
        /\ UNCHANGED <<hdr, freep, brk, arena>>
passes == /\ op.fn = "place" /\ ~Belongs(op.at, op.bp)
          /\ op' = [op EXCEPT !.at = hdr[op.at].ptr, !.moved = TRUE]
          /\ UNCHANGED <<hdr, freep, brk, arena, held, nomem>>
\* The new block of morecore() is in the ring, and malloc() goes on behind freep.
links == /\ op.fn = "place" /\ Belongs(op.at, op.bp)
         /\ hdr' = JoinDown(JoinUp(hdr, op.at, op.bp), op.at, op.bp)
         /\ freep' = op.at
         /\ op' = IF op.nu = 0 THEN NoCall ELSE Find(op.nu, op.at, TRUE)
         /\ UNCHANGED <<brk, arena, held, nomem>>

\* malloc(): the first call makes base the only block of the ring, of size 0.
malloc == /\ op.fn = "none"
          /\ hdr' = IF freep = NULL THEN [hdr EXCEPT ![Base] = [ptr |-> Base, size |-> 0]] ELSE hdr
          /\ freep' = IF freep = NULL THEN Base ELSE freep
          /\ \E nu \in Requests : op' = Find(nu, freep', FALSE)
          /\ nomem' = 0
          /\ UNCHANGED <<brk, arena, held>>
\* The block is taken out of the ring, or its upper end is cut off: <<headers, address>>.
TakeWhole(prev, p, nu) == LET at == p + hdr[p].size - nu
                          IN  <<[hdr EXCEPT ![p].size = @ - nu, ![at].size = nu], at>>
Take(prev, p, nu) ==
    IF hdr[p].size = nu THEN <<[hdr EXCEPT ![prev].ptr = hdr[p].ptr], p>>
    ELSE LET at == p + hdr[p].size - nu
         IN  <<[hdr EXCEPT ![p].size = @ - nu, ![at].size = nu], at>>
\* A program fills the units behind the header with its own data.
Filled(h, at, nu) == [a \in DOMAIN h |-> IF a \in at + 1 .. at + nu - 1 THEN [ptr |-> Base, size |-> 0] ELSE h[a]]
takes == /\ op.fn = "find"
         /\ LET p == hdr[op.at].ptr
                t == Take(op.at, p, op.nu)
            IN  /\ hdr[p].size >= op.nu
                /\ hdr' = Filled(t[1], t[2], op.nu)
                /\ held' = held \cup {<<t[2], op.nu>>}
         /\ freep' = op.at /\ op' = NoCall
         /\ UNCHANGED <<brk, arena, nomem>>
\* A block that is too small and not where the search began.
looks == /\ op.fn = "find"
         /\ LET p == hdr[op.at].ptr IN hdr[p].size < op.nu /\ p # freep /\ op' = [op EXCEPT !.at = p]
         /\ UNCHANGED <<hdr, freep, brk, arena, held, nomem>>
\* All are too small: morecore() frees a new block, or there is no memory.
CanGrowLess(n) == brk + n < Units
CanGrow(n) == brk + n <= Units
morecore == /\ op.fn = "find"
            /\ hdr[op.at].ptr = freep /\ hdr[freep].size < op.nu
            /\ LET n == Larger(op.nu, Chunk) IN
               \/ /\ CanGrow(n)
                  /\ hdr' = [hdr EXCEPT ![brk].size = n]
                  /\ op' = Place(op.nu, freep, brk)
                  /\ brk' = brk + n /\ arena' = arena \cup brk .. brk + n - 1
                  /\ UNCHANGED nomem
               \/ /\ ~CanGrow(n)
                  /\ op' = NoCall /\ nomem' = op.nu
                  /\ UNCHANGED <<hdr, brk, arena>>
            /\ UNCHANGED <<freep, held>>
\* The program may move the break itself; what it gets is not malloc()'s.
sbrk == /\ op.fn = "none" /\ CanGrow(1) /\ brk' = brk + 1
        /\ UNCHANGED <<hdr, freep, op, arena, held, nomem>>

HeapInit == /\ hdr = [a \in 0 .. Units |-> [ptr |-> Base, size |-> 0]]
            /\ freep = NULL /\ brk = 2 /\ op = NoCall /\ arena = {} /\ held = {} /\ nomem = 0
HeapNext == free \/ passes \/ links \/ malloc \/ takes \/ looks \/ morecore \/ sbrk
HeapSpec == HeapInit /\ [][HeapNext]_heapVars

------------------------------------------------------------------------------

\* F are the blocks of the ring: it rises from base through all of them and
\* comes back to it.
Follows(F, a, n) == \/ n \in F /\ a < n /\ \A b \in F : a < b => n <= b
                    \/ n = Base /\ \A b \in F : b <= a
Ring(F) == Base \notin F /\ \A a \in F \cup {Base} : Follows(F, a, hdr[a].ptr)
Pointed == {hdr[a].ptr : a \in DOMAIN hdr}

\* However a program mixes malloc(), free() and sbrk(), what it holds, what is
\* free and what free() has in hand never overlap and are together all that
\* morecore() got: nothing that is freed is lost and nothing is handed out twice.
Block(a) == a .. a + hdr[a].size - 1
InHand == IF op.fn = "place" THEN {op.bp} ELSE {}
HeapTiled(F) ==
    LET given  == {b[1] : b \in held}
        blocks == F \cup given \cup InHand
    IN  /\ \A b \in held : hdr[b[1]].size = b[2]
        /\ F \cap given = {} /\ F \cap InHand = {} /\ given \cap InHand = {}
        /\ \A a, b \in blocks : a # b => Block(a) \cap Block(b) = {}
        /\ UNION {Block(a) : a \in blocks} = arena

\* No free block ends where the next begins, the searches are on the ring, and
\* free() finds the place before it is back where it began.
RingJoined(F) ==
    /\ \A a, b \in F : a + hdr[a].size # b
    /\ freep \in F \cup {Base}
    /\ op.fn # "none" => op.at \in F \cup {Base}
    /\ op.fn = "place" /\ op.moved => op.at # freep

\* malloc() gives up only when no free block is large enough and the break
\* cannot go on; when morecore() gave it memory it finds the block it needs.
FailsOnlyWhenFull(F) ==
    /\ nomem # 0 => brk + Larger(nomem, Chunk) > Units /\ \A a \in F : hdr[a].size < nomem
    /\ op.fn = "find" /\ op.grown => \E a \in F : hdr[a].size >= op.nu

\* The heap of a program is whole, its free list in order, and used up before
\* malloc() gives up.
HeapInv == IF freep = NULL THEN arena = {} /\ held = {} /\ nomem = 0
           ELSE \E F \in SUBSET Pointed : Ring(F) /\ HeapTiled(F) /\ RingJoined(F) /\ FailsOnlyWhenFull(F)
=============================================================================
