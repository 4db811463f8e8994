----------------------------- MODULE MCParsers -----------------------------
(* A configuration file is parsed, or the tables of a multiplex are.       *)
EXTENDS ConfigParser, TableParser, FiniteSetsExt

W(param, number) == [param |-> param, value |-> "number", number |-> number]
V(param, value) == [param |-> param, value |-> value, number |-> 0]

Good ==
  << W("frequency", 754), W("bandwidth", 8), V("modulation", "DVB_T"), W("audio_pid", 1003),
     W("video_pid", 1001), V("audio_type", "AUDIO_TYPE_MPEG_AUDIO"),
     V("video_type", "VIDEO_TYPE_MPEG2"), W("program_number", 3) >>

\* The file of the repository with one word left out, with one word put in
\* anywhere or with one word in the place of another.
Odd ==
  {W("program_number", n) : n \in {-1, 0, 1, 7, 8, 256, 259}}
    \cup {W("audio_pid", 0), W("audio_pid", -5), W("video_pid", 70000),
          V("modulation", "DVB_T"), V("modulation", "DVB_T2"), V("comment", "any"),
          V("video_type", None), V("frequency", None)}

MCFiles ==
  {None, <<>>, Good} \cup {RemoveAt(Good, k) : k \in DOMAIN Good}
    \cup {InsertAt(Good, k, w) : k \in 1..9, w \in Odd}
    \cup {ReplaceAt(Good, k, w) : k \in DOMAIN Good, w \in Odd}

-----------------------------------------------------------------------------
E0(pr, pid) == [pr |-> pr, pid |-> pid]
Es(type, pid, info) == [type |-> type, pid |-> pid, info |-> info]
Pmt(e, info, es) == [pr |-> e.pr, pid |-> e.pid, info |-> info, es |-> es]
Service(id, provider, name, more) ==
  [id |-> id, type |-> 1, provider |-> provider, name |-> name, more |-> more]

Network == E0(0, 16)
Streams == {Es(2, 1001, 0), Es(27, 1002, 3), Es(4, 1003, 6), Es(3, 1004, 0), Es(6, 8190, 2)}
Orders == {<<>>} \cup {<<a>> : a \in Streams} \cup {<<a, b>> : a, b \in Streams}
            \cup {<<a, b, Es(6, 700, 1), Es(1, 701, 0)>> : a, b \in Streams}

\* Two programs, the services in the order of the PAT.
Regular(pat, es) ==
  [pat |-> pat,
   pmts |-> [k \in 1..2 |-> Pmt(SelectSeq(pat, LAMBDA e : e.pr # 0)[k], 0, es[k])],
   sdt |-> [k \in 1..2 |-> Service(SelectSeq(pat, LAMBDA e : e.pr # 0)[k].pr, 2 * (k - 1),
                                    IF k = 1 THEN <<65>> ELSE <<66, 67>>, 4 * (k - 1))]]

\* The network's entry anywhere, programs with PIDs of their own or with one PID.
Pats ==
  UNION {{<<Network, p, q>>, <<p, Network, q>>, <<p, q, Network>>} :
           p \in {E0(258, 256)}, q \in {E0(513, 256), E0(511, 8191)}}

OtherOrder(m) == [m EXCEPT !.sdt = Reverse(@)]

MCMultiplexes ==
  {Regular(pat, <<es1, es2>>) : pat \in Pats, es1 \in Orders, es2 \in {<<>>, <<Es(4, 99, 44)>>}}
    \cup {OtherOrder(Regular(pat, <<<<>>, es>>)) : pat \in Pats, es \in Orders}

\* What the parsers do not handle: no entry of the network, a program number
\* below 256, descriptors of a program, and a PMT of a program that is not in the
\* PAT.
Plain == Regular(<<Network, E0(258, 256), E0(513, 256)>>, <<<<>>, <<Es(2, 1001, 0)>>>>)

MCNoNetwork == {[Plain EXCEPT !.pat = Tail(@)]}
MCSmallNumber == {Regular(<<Network, E0(100, 256), E0(513, 257)>>, <<<<>>, <<>>>>)}
MCDescribed == {[Plain EXCEPT !.pmts[1].info = 6]}
MCUnlisted == {[Plain EXCEPT !.pat = <<Network, E0(258, 256)>>, !.sdt = <<@[1]>>]}

\* The theorems about the parsers suppose the first of these.
ASSUME OnlyTheHandled == AllHandled
ASSUME NotTheOthers ==
  \A m \in UNION {MCNoNetwork, MCSmallNumber, MCDescribed, MCUnlisted} : ~Handled(m)

-----------------------------------------------------------------------------
VARIABLE what   \* which of the two happens

NoTables ==
  /\ mux = (CHOOSE m \in Multiplexes : TRUE)
  /\ section = <<>> /\ at = Idle /\ parsed = [PAT |-> FALSE, SDT |-> FALSE, PMT |-> {}]
  /\ PAT = [pmt_count |-> 0, pmts |-> <<>>] /\ SDT = <<>>

NoConfig ==
  /\ file = None /\ word = 1 /\ loaded = {} /\ params = [p \in Numbers |-> 0]
  /\ verdict = "reading"

MCInit ==
  \/ what = "config" /\ ConfigInit /\ NoTables
  \/ what = "tables" /\ TableInit /\ NoConfig

MCNext ==
  /\ \/ what = "config" /\ parse_config_file /\ UNCHANGED tableVars
     \/ what = "tables" /\ (filter_callback \/ Parse) /\ UNCHANGED configVars
  /\ UNCHANGED what

MCSpec == MCInit /\ [][MCNext]_<<configVars, tableVars, what>>
=============================================================================
