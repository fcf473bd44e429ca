------------------------------ MODULE MCOptions ------------------------------
EXTENDS Options

MCNumbers == {"0", "8", "24", "32", "4096"}

MCatoi(w) == CASE w = "8" -> 8 [] w = "24" -> 24 [] w = "32" -> 32 [] w = "4096" -> 4096
               [] OTHER -> 0
=============================================================================
