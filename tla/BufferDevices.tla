---------------------------- MODULE BufferDevices ---------------------------
(***************************************************************************)
(* The devices that answer from a buffer of their own: the shared memory,  *)
(* through which clients exchange messages with the driver, and the disk.  *)
(***************************************************************************)
EXTENDS Naturals, Sequences, FiniteSets

CONSTANTS Procs,
          Messages, MaxCount,          \* SharedMemory
          Sectors, Tags, Shapes        \* BlockDemo

VARIABLES phase_sm, made_sm, opened_sm, mapped_sm, user_to_kernel, kernel_to_user, mutex_sm,
          msg_count, pc_sm, message, input, served, alone_sm,
          phase_bd, made_bd, opened_bd, data, req, buffer_bd, alone_bd

SM == INSTANCE SharedMemory WITH
          phase <- phase_sm, made <- made_sm, opened <- opened_sm, mapped <- mapped_sm,
          mutex <- mutex_sm, pc <- pc_sm, alone <- alone_sm

BD == INSTANCE BlockDemo WITH
          Values <- Tags, phase <- phase_bd, made <- made_bd, opened <- opened_bd,
          buffer <- buffer_bd, alone <- alone_bd

\* The processes are finitely many and none is the value of a free mutex, the
\* bounds are numbers, and the block layer cuts requests without gaps.
ASSUME BufferAssumption ==
    /\ IsFiniteSet(Procs) /\ SM!Nobody \notin Procs
    /\ MaxCount \in Nat /\ Sectors \in Nat
    /\ \A shape \in Shapes : BD!Tiled(shape)

\* shared_memory_demo.c: every message is counted once and its answer numbered;
\* shared_mem_test.c: an undisturbed client reads the echo of its message.
AnswersRight == SM!AnswersNumbered /\ SM!UndisturbedEcho

\* block_demo.c: a request that ends well has moved all of its sectors, each to
\* its place.
TransfersWhole == BD!OkMeansMoved

\* shared_memory_demo.c, block_demo.c: a module whose file or mapping is in use
\* stays, with all it made; init is all or nothing, and exit gives everything
\* back.
OrderlyUnload ==
    /\ SM!DM!BufferOutlivesUsers /\ SM!DM!NothingLeftBehind
    /\ BD!DM!BufferOutlivesUsers /\ BD!DM!NothingLeftBehind
=============================================================================
