------------------------------- MODULE Memory -------------------------------
(***************************************************************************)
(* Physical pages and user page tables of the VisionFive 2 kernel:         *)
(* kernel/kalloc.c and kernel/vm.c under src/platform/visionfive2.         *)
(*                                                                         *)
(* Every operator takes the kernel state k, a record, and returns the next *)
(* one, with a C return value r where the function has one.  The fields    *)
(* used here are                                                           *)
(*    free   the pages on kmem.freelist                                    *)
(*    mem    what each page holds: a sequence of units, << >> for zeroes   *)
(*    pt     the page tables, by the address of their root page; of each   *)
(*           one tab, the lower page-table pages by level and index, and   *)
(*           pte, the valid leaf entries by virtual page number            *)
(*    proc   the process table, for p->sz and p->pagetable                 *)
(*    panic  the message of a panic(), "" while there was none             *)
(* A unit is the model's byte.  The freelist is a set: which free page     *)
(* kalloc() returns is not observable, so it is the lowest one.            *)
(***************************************************************************)
EXTENDS Integers, Sequences, FiniteSets, FiniteSetsExt, Functions, TLC

CONSTANTS Pages,      \* physical pages the allocator manages, naturals from 1
          PGSIZE,     \* units in a page
          FANOUT      \* entries of a page-table page, 512 in the hardware

ASSUME PagesAssumption == Pages \subseteq Nat \ {0} /\ IsFiniteSet(Pages)
ASSUME LayoutAssumption == PGSIZE \in Nat \ {0} /\ FANOUT \in Nat \ {0}

MAXVA == FANOUT * FANOUT * FANOUT * PGSIZE
TRAMPOLINE == MAXVA - PGSIZE
TRAPFRAME == TRAMPOLINE - PGSIZE
WRAP == 4 * MAXVA       \* stands for 2^64: where the sum of two addresses wraps
VPage(va) == va \div PGSIZE
PGROUNDUP(sz) == VPage(sz + PGSIZE - 1) * PGSIZE

Ret(k, r) == [k |-> k, r |-> r]
Panic(k, why) == [k EXCEPT !.panic = why]
Lower(a, b) == IF a < b THEN a ELSE b

(* What a page holds after kalloc() and after kfree() filled it with junk. *)
Junk == << <<0, "junk">> >>
Zeroes == << >>

-----------------------------------------------------------------------------
(* kernel/kalloc.c *)

kalloc(k) ==
    IF k.free = {} THEN Ret(k, 0)
    ELSE LET r == Min(k.free)
         IN Ret([k EXCEPT !.free = @ \ {r}, !.mem[r] = Junk], r)

(* Freeing a page that is on the freelist already would link it twice.     *)
(* kfree() does not notice that; the model stops there.                    *)
kfree(k, pa) ==
    IF pa \notin Pages \ k.free THEN Panic(k, "kfree")
    ELSE [k EXCEPT !.free = @ \cup {pa}, !.mem[pa] = Junk]

(* A loop that frees pages: the one after the other, in any order.         *)
kfreeall(k, pas) ==
    IF ~(pas \subseteq Pages \ k.free) THEN Panic(k, "kfree")
    ELSE [k EXCEPT !.free = @ \cup pas,
                   !.mem = [pa \in Pages |-> IF pa \in pas THEN Junk ELSE @[pa]]]

-----------------------------------------------------------------------------
(* kernel/vm.c: the walk and the leaf entries *)

Pte(k, pt, v) == k.pt[pt].pte[v]
Mapped(k, pt, v) == v \in DOMAIN k.pt[pt].pte

(* The page-table pages walk() visits for page v below the root.           *)
Tables(v) == << <<1, v \div (FANOUT * FANOUT)>>, <<0, v \div FANOUT>> >>

(* One level of walk() with alloc != 0.                                    *)
NextTable(k, pt, key) ==
    IF key \in DOMAIN k.pt[pt].tab THEN Ret(k, 1)
    ELSE LET m == kalloc(k)
         IN IF m.r = 0 THEN m
            ELSE Ret([m.k EXCEPT !.mem[m.r] = Zeroes,
                                 !.pt[pt].tab = @ @@ (key :> m.r)], 1)

walk(k, pt, v, alloc) ==
    IF v * PGSIZE >= MAXVA THEN Ret(Panic(k, "walk"), 0)
    ELSE IF alloc
         THEN LET top == NextTable(k, pt, Tables(v)[1])
              IN IF top.r = 0 THEN top ELSE NextTable(top.k, pt, Tables(v)[2])
         ELSE Ret(k, IF Tables(v)[2] \in DOMAIN k.pt[pt].tab THEN 1 ELSE 0)

(* Every caller modelled here maps one page.                               *)
mappages(k, pt, v, pa, perm) ==
    LET w == walk(k, pt, v, TRUE)
    IN IF w.r = 0 THEN Ret(w.k, -1)
       ELSE IF Mapped(w.k, pt, v) THEN Ret(Panic(w.k, "mappages: remap"), -1)
       ELSE Ret([w.k EXCEPT !.pt[pt].pte = @ @@ (v :> [pa |-> pa, perm |-> perm])], 0)

walkaddr(k, pt, v) ==
    IF /\ v * PGSIZE < MAXVA
       /\ Mapped(k, pt, v)
       /\ "U" \in Pte(k, pt, v).perm
    THEN Pte(k, pt, v).pa ELSE 0

ismapped(k, pt, v) == Mapped(k, pt, v)

uvmcreate(k) ==
    LET m == kalloc(k)
    IN IF m.r = 0 THEN m
       ELSE Ret([m.k EXCEPT !.mem[m.r] = Zeroes,
                            !.pt = @ @@ (m.r :> [tab |-> <<>>, pte |-> <<>>])], m.r)

uvmunmap(k, pt, v, npages, dofree) ==
    LET hit == {a \in v .. (v + npages - 1) : Mapped(k, pt, a)}
        freed == IF dofree THEN kfreeall(k, {Pte(k, pt, a).pa : a \in hit}) ELSE k
    IN [freed EXCEPT !.pt[pt].pte = Restrict(@, DOMAIN @ \ hit)]

uvmdealloc(k, pt, oldsz, newsz) ==
    IF newsz >= oldsz THEN Ret(k, oldsz)
    ELSE Ret(uvmunmap(k, pt, VPage(PGROUNDUP(newsz)),
                      VPage(PGROUNDUP(oldsz)) - VPage(PGROUNDUP(newsz)), TRUE), newsz)

RECURSIVE GrowFrom(_, _, _, _, _, _)
GrowFrom(k, pt, a, oldsz, newsz, perm) ==
    IF a >= newsz THEN Ret(k, newsz)
    ELSE LET m == kalloc(k)
             mapped == mappages([m.k EXCEPT !.mem[m.r] = Zeroes], pt, VPage(a), m.r, perm)
         IN IF m.r = 0 THEN Ret(uvmdealloc(m.k, pt, a, oldsz).k, 0)
            ELSE IF mapped.r # 0
                 THEN Ret(uvmdealloc(kfree(mapped.k, m.r), pt, a, oldsz).k, 0)
                 ELSE GrowFrom(mapped.k, pt, a + PGSIZE, oldsz, newsz, perm)

uvmalloc(k, pt, oldsz, newsz, xperm) ==
    IF newsz < oldsz THEN Ret(k, oldsz)
    ELSE GrowFrom(k, pt, PGROUNDUP(oldsz), PGROUNDUP(oldsz), newsz, {"R", "U"} \cup xperm)

freewalk(k, pt) ==
    IF DOMAIN k.pt[pt].pte # {} THEN Panic(k, "freewalk: leaf")
    ELSE LET pages == {pt} \cup Range(k.pt[pt].tab)
         IN [kfreeall(k, pages)
             EXCEPT !.pt = Restrict(@, DOMAIN @ \ {pt})]

\* Mutant: a last page that is not full is left mapped.
uvmfree_down(k, pt, sz) == freewalk(uvmunmap(k, pt, 0, VPage(sz), TRUE), pt)

uvmfree(k, pt, sz) ==
    freewalk(uvmunmap(k, pt, 0, VPage(PGROUNDUP(sz)), TRUE), pt)

RECURSIVE CopyFrom(_, _, _, _, _)
CopyFrom(k, old, new, v, sz) ==
    IF v * PGSIZE >= sz THEN Ret(k, 0)
    ELSE IF ~Mapped(k, old, v) THEN CopyFrom(k, old, new, v + 1, sz)
    ELSE LET m == kalloc(k)
             src == Pte(k, old, v)
             mapped == mappages([m.k EXCEPT !.mem[m.r] = k.mem[src.pa]],
                                new, v, m.r, src.perm)
         IN IF m.r = 0 THEN Ret(uvmunmap(k, new, 0, v, TRUE), -1)
            ELSE IF mapped.r # 0
                 THEN Ret(uvmunmap(kfree(mapped.k, m.r), new, 0, v, TRUE), -1)
                 ELSE CopyFrom(mapped.k, old, new, v + 1, sz)

uvmcopy(k, old, new, sz) == CopyFrom(k, old, new, 0, sz)

uvmclear(k, pt, v) ==
    IF walk(k, pt, v, FALSE).r = 0 THEN Panic(k, "uvmclear")
    ELSE [k EXCEPT !.pt[pt].pte[v].perm = @ \ {"U"}]

-----------------------------------------------------------------------------
(* kernel/vm.c: user addresses.  p is myproc().                            *)

vmfault(k, p, pt, va) ==
    IF va >= k.proc[p].sz \/ ismapped(k, pt, VPage(va)) THEN Ret(k, 0)
    ELSE LET m == kalloc(k)
             mapped == mappages([m.k EXCEPT !.mem[m.r] = Zeroes], k.proc[p].pagetable,
                                VPage(va), m.r, {"R", "W", "U"})
         IN IF m.r = 0 THEN m
            ELSE IF mapped.r # 0 THEN Ret(kfree(mapped.k, m.r), 0)
            ELSE Ret(mapped.k, m.r)

(* The page of a user address, faulted in if it is lazily allocated.       *)
Resolve(k, p, pt, v) ==
    LET pa == walkaddr(k, pt, v)
    IN IF pa # 0 THEN Ret(k, pa) ELSE vmfault(k, p, pt, v * PGSIZE)

RECURSIVE copyout(_, _, _, _, _, _)
copyout(k, p, pt, dstva, data, len) ==
    IF len = 0 THEN Ret(k, 0)
    ELSE LET v == VPage(dstva)
             n == Lower(PGSIZE - (dstva % PGSIZE), len)
             at == Resolve(k, p, pt, v)
         IN IF v * PGSIZE >= MAXVA THEN Ret(k, -1)
            ELSE IF at.r = 0 THEN Ret(at.k, -1)
            ELSE IF "W" \notin Pte(at.k, pt, v).perm THEN Ret(at.k, -1)
            ELSE copyout([at.k EXCEPT !.mem[at.r] = data], p, pt,
                         (v + 1) * PGSIZE, data, len - n)

RECURSIVE copyin(_, _, _, _, _)
copyin(k, p, pt, srcva, len) ==
    IF len = 0 THEN Ret(k, 0)
    ELSE LET v == VPage(srcva)
             n == Lower(PGSIZE - (srcva % PGSIZE), len)
             at == Resolve(k, p, pt, v)
         IN IF at.r = 0 THEN Ret(at.k, -1)
            ELSE copyin(at.k, p, pt, (v + 1) * PGSIZE, len - n)

copyincheck(k, p, pt, srcva, len) ==
    IF len = 0 THEN Ret(k, 0)
    ELSE IF srcva >= MAXVA \/ len > MAXVA - srcva THEN Ret(k, -1)
    ELSE copyin(k, p, pt, srcva, len)

(* A string argument: its address, whether it crosses into the next page,  *)
(* whether it has no NUL within the size of the kernel's buffer, and the   *)
(* path it spells.                                                         *)
copyinstr(k, pt, str) ==
    IF \/ walkaddr(k, pt, VPage(str.va)) = 0
       \/ str.crosses /\ walkaddr(k, pt, VPage(str.va) + 1) = 0
       \/ str.toolong
    THEN -1 ELSE 0
=============================================================================
