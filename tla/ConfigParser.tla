---------------------------- MODULE ConfigParser ----------------------------
(***************************************************************************)
(* parse_config_file (src/config_parser.c): the words of a file, one at a  *)
(* time, of the form parameter=value.  A word is what its two tokens are:  *)
(* the parameter, the value, and the number atoi makes of the value (0 for *)
(* what is no number).  A word fits into config_line.                      *)
(***************************************************************************)
EXTENDS Integers, Sequences, FiniteSets

CONSTANTS
  Files,    \* what the file may hold: sequences of words
  None      \* a word without a second token, no file

\* The three parameters that have one accepted value, and the others.
Accepted ==
  [modulation |-> "DVB_T", audio_type |-> "AUDIO_TYPE_MPEG_AUDIO",
   video_type |-> "VIDEO_TYPE_MPEG2"]
Numbers == {"frequency", "bandwidth", "audio_pid", "video_pid", "program_number"}
Parameters == Numbers \cup DOMAIN Accepted

ASSUME FilesAssumption ==
  /\ \A f \in Files : f = None \/ \A k \in DOMAIN f : f[k].number \in Int
  /\ Files \subseteq Seq([param : STRING, value : STRING \cup {None}, number : Int]) \cup {None}

VARIABLES
  file,     \* the words, or None when the file cannot be opened
  word,     \* the word that is read next
  loaded,   \* loaded_params
  params,   \* the caller's parameters; 0 before they are set
  verdict   \* "reading", then what parse_config_file returns

configVars == <<file, word, loaded, params, verdict>>

ConfigInit ==
  /\ file \in Files /\ word = 1
  /\ loaded = {} /\ params = [p \in Numbers |-> 0]
  /\ verdict = "reading"

-----------------------------------------------------------------------------
Here == file[word]
Reading == verdict = "reading" /\ file # None
InFile == Reading /\ word \in DOMAIN file

\* A named value the parser does not know leaves the word without effect, like
\* a parameter it does not know.
Recognised(w) ==
  \/ w.param \in Numbers
  \/ w.param \in DOMAIN Accepted /\ w.value = Accepted[w.param]

\* program_number is a byte, and is tested after it was stored in it.  The others
\* have 32 bits, as atoi's number has: a negative one keeps its pattern.
Stored(w) == IF w.param = "program_number" THEN w.number % 256 ELSE w.number

Valid(w) ==
  w.param \in Numbers =>
    /\ Stored(w) # 0
    /\ w.param = "program_number" => Stored(w) \in 1..7

Refuse ==
  verdict' = "ERROR" /\ UNCHANGED <<file, word, loaded>>

FileNotOpened == verdict = "reading" /\ file = None /\ Refuse /\ UNCHANGED params

ValueMissing == InFile /\ Here.value = None /\ Refuse /\ UNCHANGED params

\* Neither an unknown parameter nor an unknown value is an error.
SkipWord ==
  /\ InFile /\ Here.value # None /\ ~Recognised(Here)
  /\ word' = word + 1
  /\ UNCHANGED <<file, loaded, params, verdict>>

DeclaredAgain ==
  /\ InFile /\ Here.value # None /\ Recognised(Here) /\ Here.param \in loaded
  /\ Refuse /\ UNCHANGED params

\* A parameter is set before its value is tested.
SetParam ==
  params' = IF Here.param \in Numbers THEN [params EXCEPT ![Here.param] = Stored(Here)]
            ELSE params

\* Mutant of LoadParam: a number is loaded again, over the one before.
LoadParamAgain ==
  /\ InFile /\ Here.value # None /\ Recognised(Here)
  /\ SetParam
  /\ IF Valid(Here)
     THEN word' = word + 1 /\ loaded' = loaded \cup {Here.param} /\ UNCHANGED <<file, verdict>>
     ELSE Refuse

LoadParam ==
  /\ InFile /\ Here.value # None /\ Recognised(Here) /\ Here.param \notin loaded
  /\ SetParam
  /\ IF Valid(Here)
     THEN word' = word + 1 /\ loaded' = loaded \cup {Here.param} /\ UNCHANGED <<file, verdict>>
     ELSE Refuse

\* The file is closed, which may fail ("not_closed" is that ERROR), and all eight
\* must have been loaded.
EndOfFile ==
  /\ Reading /\ word \notin DOMAIN file
  /\ verdict' \in {IF loaded = Parameters THEN "OK" ELSE "ERROR", "not_closed"}
  /\ UNCHANGED <<file, word, loaded, params>>

parse_config_file ==
  FileNotOpened \/ ValueMissing \/ SkipWord \/ DeclaredAgain \/ LoadParam \/ EndOfFile

ConfigSpec == ConfigInit /\ [][parse_config_file]_configVars

-----------------------------------------------------------------------------
ConfigTypeOK ==
  /\ file \in Files /\ word \in Nat \ {0}
  /\ loaded \subseteq Parameters
  /\ params \in [Numbers -> Int]
  /\ verdict \in {"reading", "OK", "ERROR", "not_closed"}

\* The words of f that speak of parameter p with a value that counts.
Lines(f, p) == {k \in DOMAIN f : f[k].param = p /\ Recognised(f[k])}

\* What the messages ask of a file: every word has a value, and each parameter is
\* given exactly once.
OnceEach(f) ==
  /\ f # None
  /\ \A k \in DOMAIN f : f[k].value # None
  /\ \A p \in Parameters : \E k \in Lines(f, p) : Lines(f, p) = {k}

\* What they ask of a number ("must be given as a number!", "must be in range 1-7!").
InRange(p, n) == n # 0 /\ (p = "program_number" => n \in 1..7)

\* The numbers as the file has them, whatever is made of them in the parser.
Given(f, p) == {f[k].number : k \in Lines(f, p)}
Complete(f) ==
  OnceEach(f) /\ \A p \in Numbers : \A n \in Given(f, p) : InRange(p, n)

\* The numbers that the field of a parameter can hold: program_number is a byte.
Fits(p, n) == p = "program_number" => n \in 0..255

\* No complete file is refused; an accepted one gives each parameter once, the
\* parameters are in range, and each is the number of the file if that fits its
\* field: so an accepted file whose program number is a byte is complete, in
\* whatever order and among whatever other words (src/config_parser.c:20-181).
AcceptsTheComplete ==
  /\ verdict = "ERROR" => ~Complete(file)
  /\ verdict = "OK" =>
       /\ OnceEach(file)
       /\ \A p \in Numbers :
            /\ InRange(p, params[p])
            /\ \A n \in Given(file, p) : Fits(p, n) => params[p] = n

\* "Program number must be in range 1-7!" (src/config_parser.c:152): said of the
\* number of the file, and without the width of its field.
ProgramNumberInRange ==
  verdict = "OK" => \A n \in Given(file, "program_number") : n \in 1..7
=============================================================================
