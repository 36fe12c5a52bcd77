---------------------------- MODULE MemAllocator ----------------------------
(***************************************************************************)
(* examples/class_6/01_memory_allocator_demo/mem_allocator_demo.c          *)
(*                                                                         *)
(* Commands that allocate and free in loops, any allocation of which may   *)
(* fail, and a proc file that prints the times.  The first test runs in    *)
(* init, with the file already there.  A command is a list of loops over   *)
(* arrays of pointers on its own stack, one step each; a time is known by  *)
(* whether it is zero.                                                     *)
(***************************************************************************)
EXTENDS Naturals, Sequences

CONSTANTS Writers, Viewers,
          Loader,        \* the process that runs insmod
          N,             \* length of the arrays (1000, 10, 100)
          MaxCommands    \* bound on the commands in one load

Arrays == {"ptrs", "large", "small"}   \* on the stack; every test has ptrs at the same place
Tests  == {"kmalloc", "vmalloc", "slab"}
Index  == 0 .. N - 1
Runners == Writers \cup {Loader}

VARIABLES phase,         \* of the module: out, cache, tests, live, exit
          demo_cache,    \* the slab cache exists
          script,        \* of each runner: the loops still to run
          ptrs,          \* of each array: the slots that are not NULL
          allocated,     \* its count in test_allocation_failures
          held,          \* of each array: the slots allocated and not freed
          results,       \* small_test_results: the times that are not zero
          pc,            \* of each viewer: where it is in the analysis
          overtaken,     \* history: viewers since whose last check a time was stored
          commands

runner == <<script, ptrs, allocated, held>>
viewer == <<pc, overtaken>>
vars == <<phase, demo_cache, runner, results, viewer, commands>>

-----------------------------------------------------------------------------
(* The loops of the commands.                                              *)

Loop(do, a) == [do |-> do, array |-> a]

Alloc(a)   == Loop("alloc", a)
FreeAll(a) == Loop("free", a)
Record(t)  == Loop("record", t)

\* test_kmalloc_performance, test_vmalloc_performance, test_slab_performance
Performance(t) == <<Alloc("ptrs"), FreeAll("ptrs"), Record(t)>>

\* The small sizes, and the medium and large ones, whose times nothing divides by
run_performance_tests ==
    LET Untimed == SubSeq(Performance("kmalloc"), 1, 2)
    IN  Performance("kmalloc") \o Performance("vmalloc") \o Performance("slab")
        \o Untimed \o Untimed \o Untimed \o Untimed

\* Fault: the pointers of the freed half keep their values.
test_fragmentation_stale ==
    <<Alloc("large"), Loop("free_even", "large"), Alloc("small"), FreeAll("large"),
      FreeAll("small")>>

test_memory_fragmentation ==
    <<Alloc("large"), Loop("free_even_null", "large"), Alloc("small"), FreeAll("large"),
      FreeAll("small")>>

\* Allocates until the first failure, and frees what it counted
test_allocation_failures == <<Loop("alloc_until", "ptrs"), Loop("free_counted", "ptrs")>>

\* mem_demo_write: a long or faulting write, and one that is no command, does nothing
Commands == {run_performance_tests, test_memory_fragmentation, test_allocation_failures}

TypeOK ==
    /\ phase \in {"out", "cache", "tests", "live", "remove", "destroy"}
    /\ demo_cache \in BOOLEAN
    /\ \A r \in Runners : Len(script[r]) <= Len(run_performance_tests)
    /\ ptrs \in [Runners -> [Arrays -> SUBSET Index]]
    /\ held \in [Runners -> [Arrays -> SUBSET Index]]
    /\ allocated \in [Runners -> 0 .. N]
    /\ results \subseteq Tests
    /\ pc \in [Viewers -> {"idle", "ratio", "slab", "slab_ratio"}]
    /\ overtaken \subseteq Viewers
    /\ commands \in 0 .. MaxCommands

Init ==
    /\ phase = "out" /\ demo_cache = FALSE
    /\ script = [r \in Runners |-> <<>>] /\ allocated = [r \in Runners |-> 0]
    /\ ptrs = [r \in Runners |-> [a \in Arrays |-> {}]] /\ held = ptrs
    /\ results = {} /\ pc = [v \in Viewers |-> "idle"] /\ overtaken = {}
    /\ commands = 0

-----------------------------------------------------------------------------
\* mem_allocator_demo_init: the cache, the proc file or the cache given back,
\* and the first test
CreateCache ==
    /\ phase = "out" /\ phase' = "cache"
    /\ demo_cache' = TRUE
    /\ results' = {} /\ commands' = 0
    /\ UNCHANGED <<runner, viewer>>

CreateEntry ==
    /\ phase = "cache" /\ phase' = "tests"
    /\ script' = [script EXCEPT ![Loader] = run_performance_tests]
    /\ UNCHANGED <<demo_cache, ptrs, allocated, held, results, viewer, commands>>

CreateEntryFails ==
    /\ phase = "cache" /\ phase' = "out"
    /\ demo_cache' = FALSE
    /\ UNCHANGED <<runner, results, viewer, commands>>

InitReturns ==
    /\ phase = "tests" /\ script[Loader] = <<>> /\ phase' = "live"
    /\ UNCHANGED <<demo_cache, runner, results, viewer, commands>>

ExitBegin ==
    /\ phase = "live" /\ phase' = "remove"
    /\ UNCHANGED <<demo_cache, runner, results, viewer, commands>>

\* Fault: does not wait for the calls under way.
RemoveEntryAtOnce ==
    /\ phase = "remove" /\ phase' = "destroy"
    /\ UNCHANGED <<demo_cache, runner, results, viewer, commands>>

\* mem_allocator_demo_exit: remove_proc_entry waits for the calls under way,
RemoveEntry ==
    /\ phase = "remove" /\ phase' = "destroy"
    /\ \A r \in Runners : script[r] = <<>>
    /\ \A v \in Viewers : pc[v] = "idle"
    /\ UNCHANGED <<demo_cache, runner, results, viewer, commands>>

\* kmem_cache_destroy
DestroyCache ==
    /\ phase = "destroy" /\ phase' = "out"
    /\ demo_cache' = FALSE
    /\ UNCHANGED <<runner, results, viewer, commands>>

-----------------------------------------------------------------------------
mem_demo_write(w) ==
    /\ phase \in {"tests", "live"} /\ script[w] = <<>> /\ commands < MaxCommands
    /\ commands' = commands + 1
    /\ \E s \in Commands : script' = [script EXCEPT ![w] = s]
    /\ UNCHANGED <<phase, demo_cache, ptrs, allocated, held, results, viewer>>

At(r, loops) == script[r] # <<>> /\ Head(script[r]).do \in loops
Proceed(r)   == script' = [script EXCEPT ![r] = Tail(@)]

\* A loop of kmalloc, vmalloc or kmem_cache_alloc: any of the calls may return
\* NULL.  One loop stops there.
Allocate(r) ==
    LET a == Head(script[r]).array IN
    /\ At(r, {"alloc"})
    /\ \E got \in SUBSET Index :
          /\ ptrs' = [ptrs EXCEPT ![r][a] = got]
          /\ held' = [held EXCEPT ![r][a] = @ \cup got]
    /\ Proceed(r)
    /\ UNCHANGED <<phase, demo_cache, allocated, results, viewer, commands>>

AllocateUntil(r) ==
    LET a == Head(script[r]).array IN
    /\ At(r, {"alloc_until"})
    /\ \E n \in 0 .. N :
          /\ allocated' = [allocated EXCEPT ![r] = n]
          /\ ptrs' = [ptrs EXCEPT ![r][a] = 0 .. n - 1]
          /\ held' = [held EXCEPT ![r][a] = @ \cup 0 .. n - 1]
    /\ Proceed(r)
    /\ UNCHANGED <<phase, demo_cache, results, viewer, commands>>

\* What a freeing loop gives to kfree, vfree or kmem_cache_free: the pointers
\* that are not NULL, of all or of every other slot, or as many as were counted
Freed(r) ==
    LET loop == Head(script[r])
        even == {n \in Index : n % 2 = 0}
    IN  CASE loop.do = "free" -> ptrs[r][loop.array]
          [] loop.do = "free_counted" -> 0 .. allocated[r] - 1
          [] OTHER -> ptrs[r][loop.array] \cap even

\* The arrays go with the function: this is the last loop of it over this array.
Last(r) == \A n \in 2 .. Len(script[r]) :
               script[r][n].array = Head(script[r]).array => script[r][n].do = "alloc"

Frees(r) == At(r, {"free", "free_even", "free_even_null", "free_counted"})

Free(r) ==
    LET a == Head(script[r]).array IN
    /\ Frees(r)
    /\ held' = [held EXCEPT ![r][a] = @ \ Freed(r)]
    /\ ptrs' = [ptrs EXCEPT ![r][a] = IF At(r, {"free_even_null"}) THEN @ \ Freed(r)
                                    ELSE IF Last(r) THEN {} ELSE @]
    /\ allocated' = [allocated EXCEPT ![r] = 0]
    /\ Proceed(r)
    /\ UNCHANGED <<phase, demo_cache, results, viewer, commands>>

\* result->..._time_ns = end_time - start_time, which may be too short for the clock
RecordTime(r) ==
    LET t == Head(script[r]).array IN
    /\ At(r, {"record"})
    /\ results' \in {results \cup {t}, results \ {t}}
    /\ overtaken' = Viewers
    /\ Proceed(r)
    /\ UNCHANGED <<phase, demo_cache, ptrs, allocated, held, pc, commands>>

Step(r) == Allocate(r) \/ AllocateUntil(r) \/ Free(r) \/ RecordTime(r)

-----------------------------------------------------------------------------
\* Fault: checks the dividend only.
ShowTestOther(v) ==
    /\ phase \in {"tests", "live"} /\ pc[v] = "idle"
    /\ "vmalloc" \in results
    /\ pc' = [pc EXCEPT ![v] = "ratio"]
    /\ overtaken' = overtaken \ {v}
    /\ UNCHANGED <<phase, demo_cache, runner, results, commands>>

\* mem_demo_show checks the times and then reads them again to divide.
ShowTest(v) ==
    /\ phase \in {"tests", "live"} /\ pc[v] = "idle"
    /\ {"kmalloc", "vmalloc"} \subseteq results
    /\ pc' = [pc EXCEPT ![v] = "ratio"]
    /\ overtaken' = overtaken \ {v}
    /\ UNCHANGED <<phase, demo_cache, runner, results, commands>>

ShowRatio(v) ==
    /\ pc[v] = "ratio" /\ pc' = [pc EXCEPT ![v] = "slab"]
    /\ UNCHANGED <<phase, demo_cache, runner, results, overtaken, commands>>

ShowSlab(v) ==
    /\ pc[v] = "slab"
    /\ pc' = [pc EXCEPT ![v] = IF "slab" \in results THEN "slab_ratio" ELSE "idle"]
    /\ overtaken' = overtaken \ {v}
    /\ UNCHANGED <<phase, demo_cache, runner, results, commands>>

ShowSlabRatio(v) ==
    /\ pc[v] = "slab_ratio" /\ pc' = [pc EXCEPT ![v] = "idle"]
    /\ UNCHANGED <<phase, demo_cache, runner, results, overtaken, commands>>

Show(v) == ShowRatio(v) \/ ShowSlab(v) \/ ShowSlabRatio(v)

-----------------------------------------------------------------------------
Exit == RemoveEntry \/ DestroyCache

Next ==
    \/ CreateCache \/ CreateEntry \/ CreateEntryFails \/ InitReturns \/ ExitBegin \/ Exit
    \/ \E w \in Writers : mem_demo_write(w)
    \/ \E r \in Runners : Step(r)
    \/ \E v \in Viewers : ShowTest(v) \/ Show(v)

Spec == Init /\ [][Next]_vars

-----------------------------------------------------------------------------
\* Whichever allocations fail, a command frees everything it got, and nothing
\* twice: what a loop is about to free is still allocated, and when the command
\* returns nothing is (mem_allocator_demo.c:65-77, 123-139, 186-220, 234-248).
AllFreedOnce ==
    \A r \in Runners :
        /\ script[r] = <<>> => \A a \in Arrays : held[r][a] = {}
        /\ Frees(r) => Freed(r) \subseteq held[r][Head(script[r]).array]

\* No object of the cache is in use, or asked for, once the cache is destroyed
\* (mem_allocator_demo.c:124, 137, 385-388).
CacheOutlivesObjects ==
    ~demo_cache => \A r \in Runners : script[r] = <<>>

\* A viewer divides by a time that is zero only if a test has stored a time
\* since the viewer's check of it (mem_allocator_demo.c:81, 143, 289-295).
UndisturbedDivides ==
    \A v \in Viewers \ overtaken :
        /\ pc[v] = "ratio" => "kmalloc" \in results
        /\ pc[v] = "slab_ratio" => "slab" \in results
=============================================================================
