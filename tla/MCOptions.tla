------------------------------- MODULE MCOptions -------------------------------
EXTENDS Options, SequencesExt

Words == {"--", "--help", "-d", "--no-color", "-j", "-j=3", "-j=010", "--workers=0",
          "0", "3", "12", "010", "+3", "5000000000", "projects", "-x", "-"}

(* Every command line of up to four of these words.                        *)
UpToFour == UNION {[1 .. n -> Words] : n \in 0 .. 4}

===============================================================================
