---------------------------- MODULE TableParser ----------------------------
(***************************************************************************)
(* The tables of the transport stream: filter_callback of                  *)
(* src/stream_controller.c and the three parsers of src/table_parser.c,    *)
(* one step per turn of a loop, on the bytes of a section.  The            *)
(* broadcaster is the environment: it encodes a multiplex.  Reading        *)
(* outside the section or writing outside an array is undefined and ends   *)
(* the behaviour ("strayed").                                              *)
(*                                                                         *)
(* Who reads the tables while they are written is in StreamController;     *)
(* here a section is parsed before anything else happens.                  *)
(***************************************************************************)
EXTENDS Integers, Sequences, SequencesExt

CONSTANTS
  Multiplexes,  \* what may be broadcast
  NoPid         \* 65000

VARIABLES
  mux,      \* the multiplex
  section,  \* the section in the engine's buffer
  at,       \* where its parser is
  PAT,      \* pmt_count and pmts; pmts is the memory malloc returned
  SDT,      \* services
  parsed    \* which tables have been parsed, and the PMTs of which programs

tableVars == <<mux, section, at, PAT, SDT, parsed>>

-----------------------------------------------------------------------------
(* The broadcaster.  Sections end with four bytes of checksum.             *)

High(n) == n \div 256
Low(n) == n % 256
Crc == <<0, 0, 0, 0>>
Filler(n) == [k \in 1..n |-> 0]

Section(table_id, body) ==
  LET length == Len(body) + 4 IN <<table_id, 176 + High(length), Low(length)>> \o body \o Crc

ProgramEntry(e) == <<High(e.pr), Low(e.pr), 224 + High(e.pid), Low(e.pid)>>

PatSection(m) ==
  Section(0, <<0, 1, 193, 0, 0>> \o FlattenSeq([k \in DOMAIN m.pat |-> ProgramEntry(m.pat[k])]))

\* info is the length of the descriptors of the program, and of each stream.
StreamEntry(e) ==
  <<e.type, 224 + High(e.pid), Low(e.pid), 240 + High(e.info), Low(e.info)>> \o Filler(e.info)

PmtSection(p) ==
  Section(2,
    <<High(p.pr), Low(p.pr), 193, 0, 0, 224, 0, 240 + High(p.info), Low(p.info)>> \o Filler(p.info)
      \o FlattenSeq([k \in DOMAIN p.es |-> StreamEntry(p.es[k])]))

\* The service descriptor, the provider's name and the service's, and more
\* descriptors.
Descriptors(s) ==
  <<72, 3 + s.provider + Len(s.name), s.type, s.provider>> \o Filler(s.provider)
    \o <<Len(s.name)>> \o s.name \o Filler(s.more)

ServiceEntry(s) ==
  LET length == Len(Descriptors(s))
  IN  <<High(s.id), Low(s.id), 252, 128 + High(length), Low(length)>> \o Descriptors(s)

SdtSection(m) ==
  Section(66, <<0, 1, 193, 0, 0, 0, 1, 255>> \o
    FlattenSeq([k \in DOMAIN m.sdt |-> ServiceEntry(m.sdt[k])]))

-----------------------------------------------------------------------------
(* The parsers.  Lengths and the count-downs sl are 16 bits wide, the      *)
(* counts of parse_PAT eight.                                              *)

Byte(k) == section[k + 1]
InSection(k) == k + 1 \in DOMAIN section
Word(k) == Byte(k) * 256 + Byte(k + 1)
SectionLength == (Byte(1) % 16) * 256 + Byte(2)

Idle == [pc |-> "idle", i |-> 0, j |-> 0, sl |-> 0, pos |-> 0]

\* Whatever memory held before it is written.
Unwritten == [pr_num |-> 0, table_id |-> 0, video_pid |-> 0, audio_pid |-> 0, has_teletext |-> 0]
NoService == [service_id |-> 0, service_type |-> 0, service_name |-> <<>>]

TableInit ==
  /\ mux \in Multiplexes
  /\ section = <<>> /\ at = Idle
  /\ parsed = [PAT |-> FALSE, SDT |-> FALSE, PMT |-> {}]
  /\ PAT = [pmt_count |-> 0, pmts |-> <<>>]
  /\ SDT = <<>>

Stray == at' = [at EXCEPT !.pc = "strayed"] /\ UNCHANGED <<mux, section, PAT, SDT, parsed>>

Parsed(table, what) ==
  /\ at' = Idle /\ section' = <<>> /\ parsed' = [parsed EXCEPT ![table] = what]
  /\ UNCHANGED <<mux, PAT, SDT>>

\* The filter passes the sections of one PID with one table_id: stream_init sets
\* it for the PAT, then for the SDT, then for the PMTs.
Filtered ==
  IF ~parsed.PAT THEN {PatSection(mux)}
  ELSE IF ~parsed.SDT THEN {SdtSection(mux)}
  ELSE {PmtSection(p) : p \in {p \in Range(mux.pmts) :
                                 \E k \in DOMAIN PAT.pmts : p.pid = PAT.pmts[k].table_id}}

filter_callback ==
  /\ at.pc = "idle"
  /\ section' \in Filtered
  /\ at' = [Idle EXCEPT !.pc = CASE section'[1] = 0  -> "parse_PAT"
                                 [] section'[1] = 2  -> "find_PMT"
                                 [] section'[1] = 66 -> "parse_SDT"]
  /\ UNCHANGED <<mux, PAT, SDT, parsed>>

parse_PAT ==
  /\ at.pc = "parse_PAT"
  /\ LET count == ((SectionLength - 9) \div 4 - 1) % 256 IN
       PAT' = [pmt_count |-> count, pmts |-> [k \in 1..count |-> Unwritten]]
  /\ at' = [at EXCEPT !.pc = "PAT"]
  /\ UNCHANGED <<mux, section, SDT, parsed>>

\* An entry counts when the high byte of its program number is not zero.
PatEntry ==
  /\ at.pc = "PAT" /\ at.i < PAT.pmt_count + 1
  /\ LET pos == 8 + at.i * 4 IN
     IF ~InSection(pos + 3) \/ (Byte(pos) # 0 /\ at.j + 1 \notin DOMAIN PAT.pmts) THEN Stray
     ELSE /\ IF Byte(pos) # 0
             THEN /\ PAT' = [PAT EXCEPT !.pmts[at.j + 1].pr_num = Word(pos),
                                        !.pmts[at.j + 1].table_id = Word(pos + 2) % 8192]
                  /\ at' = [at EXCEPT !.i = @ + 1, !.j = (@ + 1) % 256]
             ELSE at' = [at EXCEPT !.i = @ + 1] /\ UNCHANGED PAT
          /\ UNCHANGED <<mux, section, SDT, parsed>>

PatEnds ==
  /\ at.pc = "PAT" /\ at.i >= PAT.pmt_count + 1
  /\ Parsed("PAT", TRUE)

\* The entry of the section's program is looked for without a bound.
FindPmt ==
  /\ at.pc = "find_PMT"
  /\ IF at.j + 1 \notin DOMAIN PAT.pmts THEN Stray
     ELSE /\ at' = IF PAT.pmts[at.j + 1].pr_num = Word(3) THEN [at EXCEPT !.pc = "parse_PMT"]
                   ELSE [at EXCEPT !.j = @ + 1]
          /\ UNCHANGED <<mux, section, PAT, SDT, parsed>>

\* The length of the program's own descriptors is not looked at.
parse_PMT ==
  /\ at.pc = "parse_PMT"
  /\ PAT' = [PAT EXCEPT !.pmts[at.j + 1] =
               [@ EXCEPT !.video_pid = NoPid, !.audio_pid = NoPid, !.has_teletext = 0]]
  /\ at' = [at EXCEPT !.pc = "PMT", !.sl = (SectionLength - 13) % 65536, !.pos = 12]
  /\ UNCHANGED <<mux, section, SDT, parsed>>

\* Mutant of WithStream: the last stream of a kind counts.
WithStreamLast(p, type, pid) ==
  [p EXCEPT !.video_pid = IF type \in {1, 2} THEN pid ELSE @,
            !.audio_pid = IF type \in {3, 4} THEN pid ELSE @,
            !.has_teletext = IF type = 6 THEN 1 ELSE @]

\* What an entry of the PMT with this type and PID makes of the program p.
WithStream(p, type, pid) ==
  [p EXCEPT !.video_pid = IF type \in {1, 2} /\ @ = NoPid THEN pid ELSE @,
            !.audio_pid = IF type \in {3, 4} /\ @ = NoPid THEN pid ELSE @,
            !.has_teletext = IF type = 6 THEN 1 ELSE @]

Skip(n) == at' = [at EXCEPT !.sl = (@ - n) % 65536, !.pos = @ + n]

PmtEntry ==
  /\ at.pc = "PMT" /\ at.sl # 0
  /\ IF ~InSection(at.pos + 4) THEN Stray
     ELSE /\ PAT' = [PAT EXCEPT !.pmts[at.j + 1] =
                       WithStream(@, Byte(at.pos), Word(at.pos + 1) % 8192)]
          /\ Skip((Word(at.pos + 3) % 4096) + 5)
          /\ UNCHANGED <<mux, section, SDT, parsed>>

PmtEnds ==
  /\ at.pc = "PMT" /\ at.sl = 0
  /\ Parsed("PMT", parsed.PMT \cup {Word(3)})

\* There is room for as many services as there are programs.
parse_SDT ==
  /\ at.pc = "parse_SDT"
  /\ SDT' = [k \in 1..PAT.pmt_count |-> NoService]
  /\ at' = [at EXCEPT !.pc = "SDT", !.sl = (SectionLength - 12) % 65536, !.pos = 11]
  /\ UNCHANGED <<mux, section, PAT, parsed>>

\* Mutant of NameAt: the provider's name is not skipped.
NameWithoutProvider(pos) == pos + 10

\* Where the name of the service at pos starts, behind its provider's.
NameAt(pos) == pos + 10 + Byte(pos + 8)

\* The first descriptor of a service is taken for its service descriptor.
SdtEntry ==
  /\ at.pc = "SDT" /\ at.sl # 0
  /\ IF ~InSection(at.pos + 8) \/ at.j + 1 \notin DOMAIN SDT THEN Stray
     ELSE LET name == NameAt(at.pos) IN
          IF ~InSection(name - 1) \/ ~InSection(name + Byte(name - 1) - 1) THEN Stray
          ELSE /\ SDT' = [SDT EXCEPT ![at.j + 1] =
                    [service_id |-> Word(at.pos), service_type |-> Byte(at.pos + 7),
                     service_name |-> [k \in 1..Byte(name - 1) |-> Byte(name + k - 1)]]]
               /\ LET n == (Word(at.pos + 3) % 4096) + 5 IN
                    at' = [at EXCEPT !.sl = (@ - n) % 65536, !.pos = @ + n, !.j = @ + 1]
               /\ UNCHANGED <<mux, section, PAT, parsed>>

SdtEnds ==
  /\ at.pc = "SDT" /\ at.sl = 0
  /\ Parsed("SDT", TRUE)

Parse ==
  \/ parse_PAT \/ PatEntry \/ PatEnds
  \/ FindPmt \/ parse_PMT \/ PmtEntry \/ PmtEnds
  \/ parse_SDT \/ SdtEntry \/ SdtEnds

TableSpec == TableInit /\ [][filter_callback \/ Parse]_tableVars

-----------------------------------------------------------------------------
(* What the tables should say.                                             *)

\* How many of the first n entries of the PAT are programs; program 0 is the network.
Place(pat, n) == Cardinality({k \in 1..n : pat[k].pr # 0})

\* Of the first n streams, the PID of the first one of these types.
FirstPid(es, n, types) ==
  LET those == {k \in 1..n : es[k].type \in types}
  IN  IF those = {} THEN NoPid ELSE es[Min(those)].pid

HasTeletext(es, n) == IF \E k \in 1..n : es[k].type = 6 THEN 1 ELSE 0

-----------------------------------------------------------------------------
(* What the parsers handle.                                                *)

Bytes == 0..255
Words == 0..65535
Pids == 0..8191
Lengths == 0..4095

ProgramEntries == [pr : Words, pid : Pids]
StreamEntries == [type : Bytes, pid : Pids, info : Lengths]
Pmts == [pr : Words, pid : Pids, info : {0}, es : Seq(StreamEntries)]
Services == [id : Words, type : Bytes, provider : Bytes, name : Seq(Bytes), more : Nat]

\* The network is listed once, the programs have numbers of two bytes and fit into
\* the count of one byte.
HandledPat(pat) ==
  /\ pat \in Seq(ProgramEntries) /\ Len(pat) \in 1..256
  /\ \E z \in DOMAIN pat : pat[z].pr = 0 /\ \A k \in DOMAIN pat \ {z} : pat[k].pr >= 256
  /\ \A k, l \in DOMAIN pat : pat[k].pr = pat[l].pr => k = l

\* Each program has at most one PMT, without descriptors of its own.
HandledPmts(pmts, pat) ==
  /\ pmts \in Seq(Pmts)
  /\ \A n \in DOMAIN pmts : Len(PmtSection(pmts[n])) < 4096
  /\ \A n \in DOMAIN pmts : \E k \in DOMAIN pat : pat[k].pr = pmts[n].pr /\ pat[k].pr # 0
  /\ \A n, l \in DOMAIN pmts : pmts[n].pr = pmts[l].pr => n = l

\* There are as many services as programs, in any order, and they describe
\* themselves first.
HandledSdt(m) ==
  /\ m.sdt \in Seq(Services)
  /\ \A k \in DOMAIN m.sdt : /\ 3 + m.sdt[k].provider + Len(m.sdt[k].name) \in Bytes
                             /\ Len(Descriptors(m.sdt[k])) \in Lengths
  /\ Len(SdtSection(m)) < 4096
  /\ Len(m.sdt) = Len(m.pat) - 1

Handled(m) == HandledPat(m.pat) /\ HandledPmts(m.pmts, m.pat) /\ HandledSdt(m)

AllHandled == NoPid \notin Pids /\ \A m \in Multiplexes : Handled(m)

-----------------------------------------------------------------------------
TableTypeOK ==
  /\ mux \in Multiplexes
  /\ \A k \in DOMAIN section : section[k] \in Bytes
  /\ at.pc \in {"idle", "parse_PAT", "PAT", "find_PMT", "parse_PMT", "PMT", "parse_SDT", "SDT",
                "strayed"}
  /\ at.sl \in Words /\ at.i \in Nat /\ at.j \in Nat /\ at.pos \in Nat
  /\ PAT.pmt_count \in Bytes /\ DOMAIN PAT.pmts = 1..PAT.pmt_count

\* No parser reads outside the section or writes outside an array: the loops end
\* where the section does, although they count an unsigned length down to
\* exactly zero (table_parser.c:14, 42, 70, stream_controller.c:88).
ParsersStayInside == at.pc # "strayed"

\* The PAT lists the programs of the multiplex in its order, and a program whose
\* PMT has been parsed has its first video stream, its first audio stream and
\* its teletext, whichever programs share a PID (table_parser.c:5-60).
TablesMatchBroadcast ==
  /\ at.pc # "strayed"
  /\ parsed.PAT =>
       /\ PAT.pmt_count = Place(mux.pat, Len(mux.pat))
       /\ \A k \in DOMAIN mux.pat : mux.pat[k].pr # 0 =>
            /\ PAT.pmts[Place(mux.pat, k)].pr_num = mux.pat[k].pr
            /\ PAT.pmts[Place(mux.pat, k)].table_id = mux.pat[k].pid
  /\ at.pc = "idle" =>
       \A k \in DOMAIN PAT.pmts, n \in DOMAIN mux.pmts :
         LET es == mux.pmts[n].es IN
         mux.pmts[n].pr = PAT.pmts[k].pr_num /\ mux.pmts[n].pr \in parsed.PMT =>
           /\ PAT.pmts[k].video_pid = FirstPid(es, Len(es), {1, 2})
           /\ PAT.pmts[k].audio_pid = FirstPid(es, Len(es), {3, 4})
           /\ PAT.pmts[k].has_teletext = HasTeletext(es, Len(es))

\* The list numbers the services of the SDT, and a digit key changes to that entry
\* of the PAT.  There is a line for every digit, with the name of the service that
\* the SDT has in this place; it is the service of the program that the digit
\* changes to exactly if the broadcaster lists both in one order
\* (graphics_controller.c:174, main.c:22, stream_controller.c:534).
ListNamesPrograms ==
  parsed.SDT =>
    /\ DOMAIN SDT = DOMAIN PAT.pmts
    /\ \A k \in DOMAIN mux.pat : mux.pat[k].pr # 0 =>
         LET digit == Place(mux.pat, k) IN
         /\ SDT[digit].service_name = mux.sdt[digit].name
         /\ SDT[digit].service_id = PAT.pmts[digit].pr_num <=> mux.sdt[digit].id = mux.pat[k].pr

\* A number in the list is the digit of the program it names: not if the SDT lists
\* the programs in another order than the PAT.
NumbersAreDigits ==
  parsed.SDT => \A k \in DOMAIN SDT : SDT[k].service_id = PAT.pmts[k].pr_num
=============================================================================
