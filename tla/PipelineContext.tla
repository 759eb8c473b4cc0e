---------------------------- MODULE PipelineContext ----------------------------
(***************************************************************************)
(* The namespace context on its way through the pipeline.  It is one flat  *)
(* map from prefixes to URIs (NamespaceContext, prelude.rs): the framer    *)
(* inserts what a container declares when it comes to the container's start*)
(* tag, over what the map had for the prefix, and takes nothing out.  A    *)
(* batch carries the map as it is when the batch is sent; every record of  *)
(* the batch is handed to the closure with it (Batch, stream.rs).          *)
(* The containers are numbered in document order, the root is 0.           *)
(***************************************************************************)
EXTENDS StreamPipeline

CONSTANTS
    Prefixes,
    Uris,
    Undeclared,     \* instead of a URI: the map has no entry
    Opened,         \* Opened[i]: the container opened last in front of record i
    Around,         \* Around[i]: the containers that record i is in, the root among them
    Declares        \* Declares[c]: what the start tag of container c declares

Containers == 0 .. Opened[MaxRecords]

Contexts == [Prefixes -> Uris \cup {Undeclared}]

\* A record's innermost container is the one opened last in front of it.
ASSUME ContainersAssumption ==
    /\ Undeclared \notin Uris
    /\ Opened \in [0 .. MaxRecords -> Nat]
    /\ \A i, j \in 0 .. MaxRecords : i < j => Opened[i] <= Opened[j]
    /\ Around \in [Records -> SUBSET Nat]
    /\ \A i \in Records : {0, Opened[i]} \subseteq Around[i] /\ Around[i] \subseteq 0 .. Opened[i]
    /\ Declares \in [Containers -> Contexts]

VARIABLES
    namespaces, \* the map in the framer's prelude
    merged,     \* the container whose start tag has been merged into it last
    carried,    \* the maps of the batches in the channel
    context,    \* the map of the batch in each worker's hands
    given       \* history: the map each record was handed over with

contextVars == <<namespaces, merged, carried, context, given>>

Empty == [p \in Prefixes |-> Undeclared]

ContextInit ==
    /\ Init
    /\ namespaces = Empty
    /\ merged = 0
    /\ carried = <<>>
    /\ context = [w \in Workers |-> Empty]
    /\ given = [i \in Records |-> Empty]

-------------------------------------------------------------------------------
\* Fault: the first declaration of a prefix is kept.
InsertIfAbsent(ns, c) ==
    [p \in Prefixes |-> IF ns[p] = Undeclared THEN Declares[c][p] ELSE ns[p]]

\* NamespaceContext::insert for every declaration of container c.
Insert(ns, c) ==
    [p \in Prefixes |-> IF Declares[c][p] # Undeclared THEN Declares[c][p] ELSE ns[p]]

\* try_prelude has parsed the root start tag.
SpawnWithPrelude ==
    /\ Spawn
    /\ namespaces' = Insert(Empty, 0)
    /\ UNCHANGED <<merged, carried, context, given>>

\* next_record_into comes to the start tag of the next container.
Descend ==
    /\ producer = "fill"
    /\ BatchOpen
    /\ merged < Opened[framed]
    /\ merged' = merged + 1
    /\ namespaces' = Insert(namespaces, merged')
    /\ UNCHANGED <<vars, carried, context, given>>

\* It comes to a record behind the start tags of its containers.  When the bytes run
\* out, or a token is rejected, containers of the next one may be merged already.
FrameInContainer ==
    /\ \/ FrameRecord /\ merged = Opened[framed]
       \/ FrameNeedsMore \/ FrameFails
    /\ UNCHANGED contextVars

\* Fault: the prelude that try_prelude returned.
PreludeOfProlog == Insert(Empty, 0)

\* framer.prelude() where the batch is sent.
Prelude == namespaces

SendWithPrelude ==
    /\ Send
    /\ carried' = Append(carried, Prelude)
    /\ UNCHANGED <<namespaces, merged, context, given>>

RecvWithPrelude(w) ==
    /\ RecvBatch(w)
    /\ carried' = Tail(carried)
    /\ context' = [context EXCEPT ![w] = Head(carried)]
    /\ UNCHANGED <<namespaces, merged, given>>

\* Record::new with the batch's prelude.
CallWithPrelude(w) ==
    /\ CallReturns(w) \/ CallPanics(w)
    /\ given' = [given EXCEPT ![at[w]] = context[w]]
    /\ UNCHANGED <<namespaces, merged, carried, context>>

\* The receiver is dropped with what it buffers.
ConsumeEndsDropping ==
    /\ ConsumeEnds
    /\ carried' = IF ScopePanics THEN <<>> ELSE carried
    /\ UNCHANGED <<namespaces, merged, context, given>>

Elsewhere ==
    /\ \/ PrologRead \/ PrologFails \/ JoinProducer \/ UnwindJoins
       \/ BatchFull \/ SendFails \/ ReadChunk \/ ReadEof \/ ReadFails
       \/ \E w \in Workers :
            \/ CheckStop(w) \/ AcquireLock(w) \/ RecvDisconnected(w) \/ Exit(w)
            \/ StopBecomesVisible(w)
       \/ Returned
    /\ UNCHANGED contextVars

ContextNext ==
    \/ SpawnWithPrelude
    \/ Descend \/ FrameInContainer \/ SendWithPrelude
    \/ ConsumeEndsDropping
    \/ \E w \in Workers : RecvWithPrelude(w) \/ CallWithPrelude(w)
    \/ Elsewhere

ContextSpec == ContextInit /\ [][ContextNext]_<<vars, contextVars>>

-------------------------------------------------------------------------------
(***************************************************************************)
(* Properties                                                              *)
(***************************************************************************)

DeclaresPrefix(c, p) == Declares[c][p] # Undeclared

\* ns is the map once containers 0 to n have been merged: for every prefix, what
\* the last one of them that declares it says.
IsAfter(ns, n) ==
    \A p \in Prefixes :
        \/ ns[p] = Undeclared /\ \A c \in 0 .. n : ~DeclaresPrefix(c, p)
        \/ \E c \in 0 .. n :
            /\ DeclaresPrefix(c, p)
            /\ ns[p] = Declares[c][p]
            /\ \A d \in c + 1 .. n : ~DeclaresPrefix(d, p)

\* A cap is reached: the framer has not looked past the batch's last record.
Full(b) == b.hi - b.lo >= BatchRecords \/ Bytes(b) >= BatchBytes

\* The map of batch b: that at its last record, and only of a batch cut short by
\* the end of the bytes that have been read possibly a later one.
OfBatch(ns, b) ==
    \E n \in Opened[b.hi - 1] .. Opened[b.hi] :
        IsAfter(ns, n) /\ (Full(b) => n = Opened[b.hi - 1])

\* stream.rs 248-250: a batch travels with the map as it was when framing stopped
\* behind its last record, whatever the framer merges and the channel does meanwhile.
ContextOfBatch ==
    /\ \A k \in 1 .. Len(queue) : OfBatch(carried[k], queue[k])
    /\ \A w \in Holders : OfBatch(context[w], hold[w])

\* The farthest record that can be in a batch with record i.
LastWith(i) ==
    IF i + BatchRecords - 1 < MaxRecords THEN i + BatchRecords - 1 ELSE MaxRecords

\* What a closure may rely on.  If a container around a record declares a prefix, the
\* record is given that declaration, or the one of a container that begins behind it:
\* the last that begins in front of the record, closed or not, or one that begins
\* behind the record but within the reach of a batch.  With batches of one record
\* nothing is within reach, and what is given is the last in document order.
OwnUnlessRedeclared ==
    \A i \in Records : visits[i] > 0 =>
        \A p \in Prefixes, c \in Around[i] :
            DeclaresPrefix(c, p) =>
                \E d \in c .. Opened[LastWith(i)] :
                    /\ DeclaresPrefix(d, p)
                    /\ given[i][p] = Declares[d][p]
                    /\ \A e \in d + 1 .. Opened[i] : ~DeclaresPrefix(e, p)

-------------------------------------------------------------------------------
(***************************************************************************)
(* The inductive invariant.                                                *)
(***************************************************************************)

ContextTypeOK ==
    /\ namespaces \in Contexts
    /\ merged \in Nat
    /\ carried \in Seq(Contexts)
    /\ context \in [Workers -> Contexts]
    /\ given \in [Records -> Contexts]

\* The framer is between the containers of the record it framed last and those of
\* the next one, and behind neither once a cap is reached; the channel carries one
\* map per batch.
FramerContextInv ==
    /\ IF producer = "unborn" THEN merged = 0 ELSE IsAfter(namespaces, merged)
    /\ framed > 0 => Opened[framed - 1] <= merged
    /\ framed > 0 /\ ~BatchOpen => merged = Opened[framed - 1]
    /\ merged <= Opened[framed]
    /\ Len(carried) = Len(queue)

\* The map a record was given is that of some moment between the record and the
\* last one that can be in its batch.
GivenInv ==
    \A i \in Records : visits[i] > 0 =>
        \E n \in Opened[i] .. Opened[LastWith(i)] : IsAfter(given[i], n)

ContextInv == ContextTypeOK /\ FramerContextInv /\ ContextOfBatch /\ GivenInv
===============================================================================
