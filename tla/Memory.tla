------------------------------- MODULE Memory -------------------------------
(***************************************************************************)
(* Physical frames, page tables and program images: mem/pmm.rs,            *)
(* mem/vmm.rs, mem/heap.rs and task/elfload.rs.  A load is a sequence of   *)
(* steps here: the frames may run out at every point of it.                *)
(***************************************************************************)
EXTENDS Integers, Sequences, FiniteSets, FiniteSetsExt, SequencesExt

CONSTANTS
    MAX_FRAMES,         \* frames the bitmap tracks
    FRAME_SIZE,         \* bytes of a frame
    MemMap,             \* the USABLE entries of the boot loader: records [base, length], bytes
    HEAP_FRAMES,        \* frames of the kernel heap
    USER_CANON_MAX,     \* the user half ends here, a byte address
    ADDR_MAX,           \* addresses are 0 .. ADDR_MAX - 1 (2^64)
    USER_STACK_BASE,    \* byte address of the lowest stack page
    USER_STACK_PAGES,
    ARGV_MAX, ARGV_STR_MAX,
    FAN,                \* entries of a page table
    Elfs,               \* files a program is loaded from, see load
    Argvs,              \* argument lists: sequences of string lengths
    Mmio,               \* MMIO ranges a driver maps: records [page, n]
    MAX_IMAGES,         \* bound: images alive at once
    MAX_LOST,           \* bound: loads of files that do not parse
    MAX_DMA             \* bound: DMA buffers alive at once

USER_STACK_TOP == USER_STACK_BASE + USER_STACK_PAGES * FRAME_SIZE

Frames == 0 .. MAX_FRAMES - 1

\* A program header of a file.
Phdrs == [type : {"LOAD", "DYNAMIC", "OTHER"}, wx : BOOLEAN, vaddr : Nat, memsz : Nat, filesz : Nat, offset : Nat]

ASSUME MemoryConstants ==
    /\ {MAX_FRAMES, FRAME_SIZE, HEAP_FRAMES, USER_STACK_PAGES, FAN} \subseteq Nat \ {0}
    /\ USER_STACK_TOP <= USER_CANON_MAX
    /\ USER_CANON_MAX % FRAME_SIZE = 0 /\ USER_CANON_MAX < ADDR_MAX
    /\ {USER_STACK_BASE, USER_CANON_MAX, ADDR_MAX} \subseteq Nat
    /\ \A f \in Elfs : f.phdrs \in Seq(Phdrs)
    /\ Argvs \subseteq Seq(Nat) /\ Mmio \subseteq [page : Nat, n : Nat]

VARIABLES
    used,       \* BITMAP: the frames whose bit is set
    FREE,       \* the counter of free frames
    heap,       \* the first frame of the kernel heap
    images,     \* Images alive
    cr3,        \* the root of the current page table: a frame, or KERNEL_CR3
    ldr,        \* the load in progress
    kmaps,      \* MMIO pages mapped, and the tables made for them
    dma,        \* buffers of drivers: records [start, n]
    lost        \* frames of images that did not parse: nothing frees them

memVars == <<used, FREE, heap, images, cr3, ldr, kmaps, dma, lost>>

NoFrame == -1
KERNEL_CR3 == -2        \* Limine's root, outside the bitmap
NoArgv == [argc |-> 0]

----------------------------------------------------------------------------
\* pmm.rs, on a pair of the bitmap and the counter.

Usable == {f \in Frames : \E e \in MemMap :
              f >= (e.base + FRAME_SIZE - 1) \div FRAME_SIZE /\ f < (e.base + e.length) \div FRAME_SIZE}

pmm_init == [used |-> Frames \ Usable, FREE |-> Cardinality(Usable)]

Run(f, n) == f .. f + n - 1

\* First fit; NoFrame, and nothing is marked, when no run is long enough.
alloc_contiguous(p, n) ==
    LET fits == {f \in Frames : f + n <= MAX_FRAMES /\ Run(f, n) \cap p.used = {}}
    IN  IF n = 0 \/ fits = {} THEN [p |-> p, frame |-> NoFrame]
        ELSE [p |-> [used |-> p.used \cup Run(Min(fits), n), FREE |-> p.FREE - n], frame |-> Min(fits)]

alloc(p) == alloc_contiguous(p, 1)

\* Frees the frames that are used and counts only those.
free_contiguous(p, start, n) ==
    LET freed == Run(start, n) \cap p.used
    IN  [used |-> p.used \ freed, FREE |-> p.FREE + Cardinality(freed)]

pmm_free(p, f) == free_contiguous(p, f, 1)

\* pmm_free of each frame of a set, in any order.
FreeAll(p, frames) == [used |-> p.used \ frames, FREE |-> p.FREE + Cardinality(frames \cap p.used)]

Pmm == [used |-> used, FREE |-> FREE]
SetPmm(p) == used' = p.used /\ FREE' = p.FREE

----------------------------------------------------------------------------
\* vmm.rs.  A page has a table on each of three levels below the root; tables are
\* named by level and index, and a mapping is a page that has a frame.

Page(va) == va \div FRAME_SIZE
TablesFor(page) == <<<<3, page \div (FAN * FAN * FAN)>>, <<2, page \div (FAN * FAN)>>, <<1, page \div FAN>>>>

\* create_next_table of the x86_64 crate: a table that is missing, if a frame is left.
create_table(a, t) ==
    IF ~a.ok \/ t \in DOMAIN a.tables THEN a
    ELSE LET r == alloc(a.p)
         IN  IF r.frame = NoFrame THEN [a EXCEPT !.ok = FALSE]
             ELSE [p |-> r.p, ok |-> TRUE,
                   tables |-> [k \in DOMAIN a.tables \cup {t} |->
                                  IF k = t THEN r.frame ELSE a.tables[k]]]

\* map_to: makes the tables that are missing, top down, until the frames run out; a page
\* already mapped is refused.  Tables made stay.
map_to(p, tables, mapped, page) ==
    LET t == TablesFor(page)
        a == create_table(create_table(create_table([p |-> p, ok |-> TRUE, tables |-> tables], t[1]), t[2]), t[3])
    IN  [a EXCEPT !.ok = @ /\ page \notin mapped]

\* RecAlloc: pt_frames keeps every table made, of a failed call too.
map_user_in_slip(p, pt_frames, mapped, va) ==
    LET r == map_to(p, pt_frames, mapped, Page(va))
    IN  IF va >= USER_CANON_MAX \/ va % FRAME_SIZE # 0 THEN [p |-> p, ok |-> FALSE, tables |-> pt_frames]
        ELSE IF r.ok THEN r ELSE [r EXCEPT !.tables = pt_frames]

map_user_in(p, pt_frames, mapped, va) ==
    IF va >= USER_CANON_MAX \/ va % FRAME_SIZE # 0 THEN [p |-> p, ok |-> FALSE, tables |-> pt_frames]
    ELSE map_to(p, pt_frames, mapped, Page(va))

\* The pages the current root lets user mode see; the kernel half has no USER flag.
user_page_mapped(va) ==
    \E i \in images : i.l4 = cr3 /\ Page(va) \in DOMAIN i.pages

user_slice_ok_slip(ptr, len) ==
    \/ len = 0
    \/ /\ ptr + len < ADDR_MAX
       /\ \A k \in 0 .. (len - 1) \div FRAME_SIZE : user_page_mapped(ptr + k * FRAME_SIZE)

\* Page by page from the one ptr lies in, while below the end; an end, or a next page,
\* past the last address is refused.
user_slice_ok(ptr, len) ==
    LET Steps(va) == {va + k * FRAME_SIZE : k \in 0 .. (ptr + len - 1 - va) \div FRAME_SIZE}
        first == (ptr \div FRAME_SIZE) * FRAME_SIZE
    IN  \/ len = 0
        \/ /\ ptr + len < ADDR_MAX
           /\ \A va \in Steps(first) : user_page_mapped(va) /\ va + FRAME_SIZE < ADDR_MAX

----------------------------------------------------------------------------
\* elfload.rs.  An ELF file is a record: parse says how far the headers are good
\* ("bad", "nosegs", "machine" or "fine"), bytes is its length, and phdrs its program
\* headers.

IdleLdr == [pc |-> "idle"]

\* fail: pages, tables and root go back to the allocator.
FramesOf(i) == {i.l4} \cup {i.pages[v] : v \in DOMAIN i.pages} \cup {i.pts[t] : t \in DOMAIN i.pts}
fail(p, i) == FreeAll(p, FramesOf(i))

Abort(p, l) == SetPmm(fail(p, l)) /\ ldr' = IdleLdr

\* load up to the program headers.  A file that does not parse returns with the root
\* still allocated.
load(f) ==
    /\ ldr.pc = "idle" /\ Cardinality(images) < MAX_IMAGES
    /\ LET r == alloc(Pmm)
       IN  IF r.frame = NoFrame THEN UNCHANGED <<used, FREE, ldr, lost>>
           ELSE \/ /\ f.parse \in {"bad", "nosegs"} /\ Cardinality(lost) < MAX_LOST
                   /\ SetPmm(r.p) /\ lost' = lost \cup {r.frame} /\ UNCHANGED ldr
                \/ /\ f.parse = "machine"
                   /\ SetPmm(pmm_free(r.p, r.frame)) /\ UNCHANGED <<lost, ldr>>
                \/ /\ f.parse = "fine"
                   /\ SetPmm(r.p) /\ UNCHANGED lost
                   /\ ldr' = [pc |-> "phdr", l4 |-> r.frame, pages |-> <<>>, pts |-> <<>>,
                              file |-> f, i |-> 1, va |-> 0, ok |-> FALSE]
    /\ UNCHANGED <<heap, images, cr3, kmaps, dma>>

\* One program header: PT_DYNAMIC ends the load, PT_LOAD is checked, others are skipped.
Segment ==
    /\ ldr.pc = "phdr" /\ ldr.i <= Len(ldr.file.phdrs)
    /\ LET ph == ldr.file.phdrs[ldr.i]
       IN  \/ ph.type = "DYNAMIC" /\ Abort(Pmm, ldr)
           \/ ph.type = "OTHER" /\ ldr' = [ldr EXCEPT !.i = @ + 1] /\ UNCHANGED <<used, FREE>>
           \/ /\ ph.type = "LOAD"
              /\ IF ph.filesz > ph.memsz \/ ph.wx \/ ph.vaddr + ph.memsz > USER_CANON_MAX
                 THEN Abort(Pmm, ldr)
                 ELSE /\ ldr' = [ldr EXCEPT !.pc = "page", !.ok = TRUE, !.va = Page(ph.vaddr) * FRAME_SIZE]
                      /\ UNCHANGED <<used, FREE>>
    /\ UNCHANGED <<heap, images, cr3, kmaps, dma, lost>>

\* Allocate a frame and map it at ldr.va, or give up; the frame of a page that could
\* not be mapped is freed, and so are all the others.
MapPage(short, next) ==
    LET f == alloc(Pmm)
        m == map_user_in(f.p, ldr.pts, DOMAIN ldr.pages, ldr.va)
    IN  IF f.frame = NoFrame THEN Abort(Pmm, ldr)
        ELSE IF short THEN Abort(pmm_free(f.p, f.frame), ldr)
        ELSE IF ~m.ok THEN Abort(pmm_free(m.p, f.frame), [ldr EXCEPT !.pts = m.tables])
        ELSE /\ SetPmm(m.p)
             /\ ldr' = [next EXCEPT !.pts = m.tables,
                           !.pages = [v \in DOMAIN ldr.pages \cup {Page(ldr.va)} |->
                                         IF v = Page(ldr.va) THEN f.frame ELSE ldr.pages[v]]]

\* One turn of map_segment's loop; a file shorter than the segment says is refused.
map_segment ==
    /\ ldr.pc = "page"
    /\ LET ph == ldr.file.phdrs[ldr.i]
           lo == IF ph.vaddr > ldr.va THEN ph.vaddr ELSE ldr.va
           hi == Min({ph.vaddr + ph.filesz, ldr.va + FRAME_SIZE})
           short == lo < hi /\ ph.offset + (hi - ph.vaddr) > ldr.file.bytes
       IN  IF ldr.va < ph.vaddr + ph.memsz
           THEN MapPage(short, [ldr EXCEPT !.va = @ + FRAME_SIZE])
           ELSE ldr' = [ldr EXCEPT !.pc = "phdr", !.i = @ + 1] /\ UNCHANGED <<used, FREE>>
    /\ UNCHANGED <<heap, images, cr3, kmaps, dma, lost>>

\* After the last header: no PT_LOAD is an error, else the stack is mapped page by page.
EndSegments ==
    /\ ldr.pc = "phdr" /\ ldr.i > Len(ldr.file.phdrs)
    /\ IF ldr.ok THEN ldr' = [ldr EXCEPT !.pc = "stack", !.va = USER_STACK_BASE] /\ UNCHANGED <<used, FREE>>
       ELSE Abort(Pmm, ldr)
    /\ UNCHANGED <<heap, images, cr3, kmaps, dma, lost>>

map_stack ==
    /\ ldr.pc = "stack" /\ ldr.va < USER_STACK_TOP
    /\ MapPage(FALSE, [ldr EXCEPT !.va = @ + FRAME_SIZE])
    /\ UNCHANGED <<heap, images, cr3, kmaps, dma, lost>>

----------------------------------------------------------------------------
\* write_argv: the strings go down from the top of the stack, each with its zero; below
\* them, 16-byte aligned, argc, the pointers and two null words (8 bytes each).

Cursor(strs, i) ==
    LET cursor[k \in 0 .. Len(strs)] == IF k = 0 THEN USER_STACK_TOP ELSE cursor[k - 1] - (strs[k] + 1)
    IN  cursor[i]

\* A store below the stack finds no frame of the image (frame_at): an error.
write_argv(strs) ==
    LET n == Len(strs)
        table == 8 + (n + 2) * 8
        cursor == Cursor(strs, n)
        rsp == ((cursor - table) \div 16) * 16
    IN  IF n = 0 \/ n > ARGV_MAX THEN NoArgv
        ELSE IF \E i \in 1 .. n : strs[i] = 0 \/ strs[i] > ARGV_STR_MAX THEN NoArgv
        ELSE IF rsp < USER_STACK_BASE \/ rsp + table > cursor THEN NoArgv
        ELSE [rsp |-> rsp, argc |-> n, strs |-> [i \in 1 .. n |-> Cursor(strs, i)], lens |-> strs]

\* The end of a load and argv_setup of spawn_with: an image that cannot take its
\* arguments is unloaded.
Spawn(strs) ==
    /\ ldr.pc = "stack" /\ ldr.va >= USER_STACK_TOP
    /\ LET a == write_argv(strs)
       IN  IF a = NoArgv THEN Abort(Pmm, ldr) /\ UNCHANGED images
           ELSE /\ images' = images \cup {[l4 |-> ldr.l4, pages |-> ldr.pages, pts |-> ldr.pts, argv |-> a]}
                /\ ldr' = IdleLdr /\ UNCHANGED <<used, FREE>>
    /\ UNCHANGED <<heap, cr3, kmaps, dma, lost>>

\* unload: the kernel's root first when the image's is the current one.
unload_image(i) ==
    /\ cr3' = IF cr3 = i.l4 THEN KERNEL_CR3 ELSE cr3
    /\ SetPmm(fail(Pmm, i)) /\ images' = images \ {i}
    /\ UNCHANGED <<heap, ldr, kmaps, dma, lost>>

\* load_cr3 and restore_kernel_cr3, when the scheduler switches.
load_cr3(root) ==
    /\ cr3' = root /\ UNCHANGED <<used, FREE, heap, images, ldr, kmaps, dma, lost>>

----------------------------------------------------------------------------
\* Drivers.  try_map_mmio_range maps page after page, skips those already mapped, and
\* stops where no table can be made, keeping what it mapped.
map_one(a, page) ==
    IF ~a.ok \/ page \in a.pages THEN a
    ELSE LET m == map_to(a.p, a.tables, a.pages, page)
         IN  [p |-> m.p, ok |-> m.ok, tables |-> m.tables,
              pages |-> IF m.ok THEN a.pages \cup {page} ELSE a.pages]

try_map_mmio_range(r) ==
    LET start == [p |-> Pmm, ok |-> TRUE, tables |-> kmaps.tables, pages |-> kmaps.pages]
        after[n \in 0 .. r.n] == IF n = 0 THEN start ELSE map_one(after[n - 1], r.page + n - 1)
        a == after[r.n]
    IN  /\ SetPmm(a.p) /\ kmaps' = [pages |-> a.pages, tables |-> a.tables]
        /\ UNCHANGED <<heap, images, cr3, ldr, dma, lost>>

\* dma_alloc of the VirtIO HAL, and alloc_page of the network driver; out of frames
\* the former panics, so there is no next state.
dma_alloc(n) ==
    /\ Cardinality(dma) < MAX_DMA
    /\ LET r == alloc_contiguous(Pmm, n)
       IN  r.frame # NoFrame /\ SetPmm(r.p) /\ dma' = dma \cup {[start |-> r.frame, n |-> n]}
    /\ UNCHANGED <<heap, images, cr3, ldr, kmaps, lost>>

dma_dealloc(d) ==
    /\ SetPmm(free_contiguous(Pmm, d.start, d.n)) /\ dma' = dma \ {d}
    /\ UNCHANGED <<heap, images, cr3, ldr, kmaps, lost>>

----------------------------------------------------------------------------
\* pmm::init and heap::init; a heap that does not fit panics.
MemInit ==
    /\ LET r == alloc_contiguous(pmm_init, HEAP_FRAMES)
       IN  used = r.p.used /\ FREE = r.p.FREE /\ heap = r.frame /\ heap # NoFrame
    /\ images = {} /\ cr3 = KERNEL_CR3 /\ ldr = IdleLdr
    /\ kmaps = [pages |-> {}, tables |-> <<>>] /\ dma = {} /\ lost = {}

\* A load runs to its end before anything else does: the kernel is not preempted.
MemNext ==
    \/ \E f \in Elfs : load(f)
    \/ Segment \/ map_segment \/ EndSegments \/ map_stack
    \/ \E s \in Argvs : Spawn(s)
    \/ /\ ldr.pc = "idle"
       /\ \/ \E i \in images : unload_image(i)
          \/ \E root \in {i.l4 : i \in images} \cup {KERNEL_CR3} : load_cr3(root)
          \/ \E r \in Mmio : try_map_mmio_range(r)
          \/ \E n \in 1 .. 2 : dma_alloc(n)
          \/ \E d \in dma : dma_dealloc(d)

MemSpec == MemInit /\ [][MemNext]_memVars

----------------------------------------------------------------------------
\* Everything that holds frames: what it is, and its frames.
Held(of, set) == [of |-> of, frames |-> set]
Holders ==
    {Held(<<"image", i>>, FramesOf(i)) : i \in images}
    \cup {Held(<<"load", l>>, FramesOf(l)) : l \in {ldr} \ {IdleLdr}}
    \cup {Held(<<"dma", d>>, Run(d.start, d.n)) : d \in dma}
    \cup {Held(<<"tables">>, Range(kmaps.tables)), Held(<<"heap">>, Run(heap, HEAP_FRAMES)), Held(<<"lost">>, lost)}

\* The root, each page and each table of an image have a frame of their own.
FramesDiffer(i) ==
    /\ IsInjective(i.pages) /\ IsInjective(i.pts) /\ Range(i.pages) \cap Range(i.pts) = {}
    /\ i.l4 \notin Range(i.pages) \cup Range(i.pts)

\* Frames are accounted for, whatever point of a load the memory ran out at: the free
\* counter is the number of free bits, every used frame has exactly one holder and one use
\* in it, and apart from the roots of files that did not parse none is held by nobody.
\* The current root is the kernel's or a living image's.
FramesAccounted ==
    /\ FREE = Cardinality(Frames \ used)
    /\ used \cap Usable = UNION {h.frames : h \in Holders}
    /\ \A g, h \in Holders : g # h => g.frames \cap h.frames = {}
    /\ \A i \in images \cup ({ldr} \ {IdleLdr}) : FramesDiffer(i)
    /\ IsInjective(kmaps.tables)
    /\ cr3 \in {KERNEL_CR3} \cup {i.l4 : i \in images}

\* Part of UserMemory.  The arguments of a program lie on its stack: each string with its
\* zero, and below them the table of argc, the pointers and the two null words, none over
\* another.
ArgvFits ==
    \A i \in images :
        LET a == i.argv
            Str(k) == a.strs[k] .. a.strs[k] + a.lens[k]
            Table == a.rsp .. a.rsp + 8 + (a.argc + 2) * 8 - 1
        IN  /\ a.rsp % 16 = 0
            /\ \A k \in 1 .. a.argc : Str(k) \cap Table = {} /\ \A j \in 1 .. k - 1 : Str(j) \cap Str(k) = {}
            /\ \A b \in Table \cup UNION {Str(k) : k \in 1 .. a.argc} : Page(b) \in DOMAIN i.pages

\* Part of UserMemory.  user_slice_ok says yes exactly for the ranges whose every byte
\* user mode can see, at page boundaries and at the end of the address space as well.
Edges == {p * FRAME_SIZE + d : p \in 1 .. ADDR_MAX \div FRAME_SIZE - 1, d \in {-1, 0}} \cup {0, ADDR_MAX - 1}
SliceIsMapped ==
    ldr.pc = "idle" =>
        \A ptr \in Edges : \A len \in {0, 1, 2, FRAME_SIZE, FRAME_SIZE + 1} :
            user_slice_ok(ptr, len) <=> \A b \in ptr .. ptr + len - 1 : b < ADDR_MAX /\ user_page_mapped(b)

\* What the kernel takes for a program's memory is the program's: the arguments it puts
\* on the stack, and the ranges it accepts from system calls, whatever the lengths, the
\* page boundaries and the end of the address space (write_argv, user_slice_ok).
UserMemory == ArgvFits /\ SliceIsMapped
=============================================================================
