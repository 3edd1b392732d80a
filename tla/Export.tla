-------------------------------- MODULE Export --------------------------------
(***************************************************************************)
(* The export of a venue as a bundle, from the provider to the file that   *)
(* another host imports.  The sources of the venue are fetched             *)
(* concurrently, each in one of three ways: a single response read as a    *)
(* stream, pages that follow a cursor, or pages that are counted.  The     *)
(* provider lists and delists meanwhile, and any request may fail.  The    *)
(* bundle then replaces the file of the export before, and the process may *)
(* be killed, or the host lose power, between any two steps.               *)
(***************************************************************************)
EXTENDS Integers, SequencesExt

CONSTANTS Source,       \* the sources of the venue
          Registered,   \* of each source in the registry
          Terminal,     \* sources whose lifecycle no longer collects
          Paging,       \* "stream", "cursor" or "number", of each source
          Financing,    \* sources of financing records
          Instrument,   \* of every provider, numbered in the order of its pages
          Malformed,    \* instruments that a connector cannot read
          PageSize, MaxPages, Attempts,
          FetchSlots,   \* max_concurrent_fetches
          MaxListings, MaxExports    \* bounds on the changes and the exports

ASSUME ExportAssumption ==
    /\ Registered \in [Source -> Nat]
    /\ Paging \in [Source -> {"stream", "cursor", "number"}]
    /\ Terminal \subseteq Source /\ Financing \subseteq Source
    /\ Instrument \subseteq Nat \ {0} /\ IsFiniteSet(Instrument)
    /\ Malformed \subseteq Instrument
    /\ {PageSize, MaxPages, Attempts, FetchSlots} \subseteq Nat \ {0}
    /\ {MaxListings, MaxExports} \subseteq Nat

Collectable == Source \ Terminal

VARIABLES listed,       \* by each provider
          listings,     \* how often that changed
          fetch,        \* of each source
          export,       \* the number of the export
          stage,        \* of its process
          file,         \* what is found at the path of the output
          durable,      \* what is found there after a loss of power
          \* History, for the properties only:
          seen,         \* the listings a provider had during its fetch
          exited        \* the last export that exited with its file written

exportVars == <<listed, listings, fetch, export, stage, file, durable, seen, exited>>

Absent == [of |-> 0, whole |-> FALSE]

Queued == [state |-> "queued", page |-> 0, cursor |-> 0, attempt |-> 0,
           response |-> <<>>, rows |-> <<>>, status |-> "none"]

Fetching(s) == stage = "fetching" /\ fetch[s].state = "fetching"
Settled(s) == fetch[s].state = "settled"

ExportInit ==
    /\ listed \in [Source -> SUBSET Instrument] /\ \A s, t \in Source : listed[s] = listed[t]
    /\ listings = 0 /\ fetch = [s \in Source |-> Queued]
    /\ export = 0 /\ stage = "idle" /\ file = Absent /\ durable = Absent
    /\ seen = [s \in Source |-> {}] /\ exited = 0

-----------------------------------------------------------------------------
(* The provider. *)

\* Instruments are listed and delisted, whatever is being fetched.
List(s, now) ==
    /\ listings < MaxListings /\ listings' = listings + 1
    /\ now # listed[s] /\ listed' = [listed EXCEPT ![s] = now]
    /\ seen' = [seen EXCEPT ![s] = IF Fetching(s) THEN @ \union {now} ELSE @]
    /\ UNCHANGED <<fetch, export, stage, file, durable, exited>>

InOrder(instruments) ==
    CHOOSE rows \in [1 .. Cardinality(instruments) -> instruments] :
        \A i, j \in DOMAIN rows : i < j => rows[i] < rows[j]

\* What is left to be served: behind the cursor, or behind so many pages.
Remaining(s) ==
    CASE Paging[s] = "stream" -> InOrder(listed[s])
      [] Paging[s] = "cursor" -> InOrder({i \in listed[s] : i > fetch[s].cursor})
      [] Paging[s] = "number" ->
            LET rows == InOrder(listed[s])
            IN  SubSeq(rows, fetch[s].page * PageSize + 1, Len(rows))

Page(s) == SubSeq(Remaining(s), 1, Min({PageSize, Len(Remaining(s))}))
HasNext(s) == Len(Remaining(s)) > PageSize

-----------------------------------------------------------------------------
(* What a connector makes of the rows. *)

\* Records it cannot read, and second ones of an instrument, become issues.
Readable(rows) == Range(rows) \ Malformed
Issues(rows) == Len(rows) > Cardinality(Readable(rows))

\* A snapshot without records is refused, as are financing records that repeat or
\* cannot be read.
Status(s, rows) ==
    IF Readable(rows) = {} \/ (s \in Financing /\ Issues(rows)) THEN "FAILED"
    ELSE IF Issues(rows) THEN "PARTIAL" ELSE "COMPLETE"

-----------------------------------------------------------------------------
(* The fetches. *)

Settle(s, status, rows) ==
    fetch' = [fetch EXCEPT ![s] = [Queued EXCEPT !.state = "settled", !.status = status,
                                                 !.rows = rows]]
Failed(s) == Settle(s, "FAILED", <<>>)
Parsed(s, rows) == Settle(s, Status(s, rows), rows)
Same == UNCHANGED <<listed, listings, export, stage, file, durable, seen, exited>>

Begin ==
    /\ stage \in {"idle", "exited"} /\ export < MaxExports
    /\ export' = export + 1 /\ stage' = "fetching"
    /\ UNCHANGED <<listed, listings, fetch, file, durable, seen, exited>>

\* A slot of the semaphore is free; the sources wait for it in their order.
StartFetch(s) ==
    /\ stage = "fetching" /\ s \in Collectable /\ fetch[s].state = "queued"
    /\ \A t \in Collectable : fetch[t].state = "queued" => Registered[s] <= Registered[t]
    /\ Cardinality({t \in Source : Fetching(t)}) < FetchSlots
    /\ fetch' = [fetch EXCEPT ![s].state = "fetching"]
    /\ seen' = [seen EXCEPT ![s] = {listed[s]}]
    /\ UNCHANGED <<listed, listings, export, stage, file, durable, exited>>

\* One page, whole; every page has its own attempts.
Answer(s) ==
    /\ Fetching(s) /\ Paging[s] # "stream"
    /\ LET rows == fetch[s].rows \o Page(s)
       IN  IF ~HasNext(s)
           THEN Parsed(s, rows)
           ELSE IF fetch[s].page + 1 = MaxPages THEN Failed(s)
           ELSE fetch' = [fetch EXCEPT ![s].rows = rows, ![s].page = @ + 1,
                                       ![s].cursor = Last(Page(s)), ![s].attempt = 0]
    /\ Same

\* A stream is answered at once and read record by record.  A brace ends the list: the
\* response shown by <<0>> has been read to its end.
Open(s) ==
    /\ Fetching(s) /\ Paging[s] = "stream" /\ fetch[s].response = <<>>
    /\ fetch' = [fetch EXCEPT ![s].response = Append(InOrder(listed[s]), 0)]
    /\ Same

Read(s) ==
    /\ Fetching(s) /\ Len(fetch[s].response) > 1
    /\ fetch' = [fetch EXCEPT ![s].rows = Append(@, Head(fetch[s].response)),
                              ![s].response = Tail(@)]
    /\ Same

Close(s) ==
    /\ Fetching(s) /\ fetch[s].response = <<0>> /\ Parsed(s, fetch[s].rows)
    /\ Same

\* What a retry starts with: nothing of the stream that broke, all pages before this one.
Kept_always(s) == fetch[s].rows
Kept(s) == IF Paging[s] = "stream" THEN <<>> ELSE fetch[s].rows

\* The connection breaks, or the status is transient.
Interrupt(s) ==
    /\ Fetching(s)
    /\ IF fetch[s].attempt + 1 = Attempts THEN Failed(s)
       ELSE fetch' = [fetch EXCEPT ![s].attempt = @ + 1, ![s].rows = Kept(s),
                                   ![s].response = <<>>]
    /\ Same

\* Another status, or a response that cannot be read: no cursor, the same cursor again.
Reject(s) == Fetching(s) /\ Failed(s) /\ Same

-----------------------------------------------------------------------------
(* The file. *)

\* Of the snapshot of an entry only whether it has records is told apart.
Entry(s) ==
    LET failed == fetch[s].status = "FAILED"
    IN  [status |-> IF failed THEN "FAILED" ELSE "SUCCEEDED",
         records |-> ~failed /\ Readable(fetch[s].rows) # {}]

Bundle(synced) ==
    [of |-> export, whole |-> TRUE, synced |-> synced,
     entries |-> [s \in Collectable |-> Entry(s)]]

\* Every source has its entry, failed or not.  The bundle is written to a file of another
\* name, and forced to disk.
Write ==
    /\ stage = "fetching" /\ \A s \in Collectable : Settled(s)
    /\ stage' = "written"
    /\ UNCHANGED <<listed, listings, fetch, export, file, durable, seen, exited>>

Promoted_unsynced == Bundle(FALSE)
Promoted == Bundle(TRUE)

Replace ==
    /\ stage = "written" /\ stage' = "replaced" /\ file' = Promoted
    /\ UNCHANGED <<listed, listings, fetch, export, durable, seen, exited>>

\* What the process holds is gone when it ends.
End(to) ==
    /\ stage' = to /\ fetch' = [s \in Source |-> Queued]
    /\ seen' = [s \in Source |-> {}]
    /\ UNCHANGED <<listed, listings, export>>

\* The directory is forced to disk, and the process exits.
Exit ==
    /\ stage = "replaced" /\ End("exited")
    /\ durable' = file /\ exited' = export /\ UNCHANGED file

Kill ==
    /\ stage \in {"fetching", "written", "replaced"} /\ End("idle")
    /\ UNCHANGED <<file, durable, exited>>

\* A replacement that was not forced to disk survives or not; contents that were not are
\* torn.
PowerLoss ==
    /\ \E found \in {file, durable} :
           LET left == IF found = Absent \/ found.synced THEN found
                       ELSE [found EXCEPT !.whole = FALSE]
           IN  file' = left /\ durable' = left
    /\ End("idle") /\ UNCHANGED exited

\* An import refuses what is torn, another set of sources than it has itself, and entries
\* it cannot decode: a failure with data, or a snapshot that is not valid.
Accepted(bundle) ==
    /\ bundle.whole /\ DOMAIN bundle.entries = Source
    /\ \A s \in Source :
           bundle.entries[s].status = "SUCCEEDED" <=> bundle.entries[s].records

-----------------------------------------------------------------------------
ExportNext ==
    \/ \E s \in Source : \E now \in SUBSET Instrument : List(s, now)
    \/ \E s \in Source :
           \/ StartFetch(s) \/ Answer(s) \/ Open(s) \/ Read(s) \/ Close(s)
           \/ Interrupt(s) \/ Reject(s)
    \/ Begin \/ Write \/ Replace \/ Exit \/ Kill \/ PowerLoss

ExportSpec == ExportInit /\ [][ExportNext]_exportVars

-----------------------------------------------------------------------------
(* Properties *)

\* A snapshot without issues, from which absence will be concluded, is a listing the
\* provider had while it was fetched, if a single stream served it; of pages that follow
\* a cursor it holds every instrument that was listed throughout the fetch, and none that
\* never was.  Retries and changes of the listing do not matter.
FetchIsExact ==
    \A s \in Source :
        LET records == Readable(fetch[s].rows)
        IN  fetch[s].status = "COMPLETE" =>
                /\ Paging[s] = "stream" => records \in seen[s]
                /\ Paging[s] = "cursor" => records \subseteq UNION seen[s]
                /\ Paging[s] = "cursor" =>
                       \A i \in Instrument : (\A now \in seen[s] : i \in now) => i \in records

\* What is found at the path is a bundle that an import accepts, whenever the process is
\* killed or the host loses power, and no export that exited is lost to an older one.
FileIsWhole ==
    /\ file # Absent => Accepted(file)
    /\ file.of >= exited
=============================================================================
