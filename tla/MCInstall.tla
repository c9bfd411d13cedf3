-------------------------------- MODULE MCInstall --------------------------------
EXTENDS Install

\* The installation script restricted to the resources of the run.  The steps that
\* are not about one resource are kept.
ReducedScript ==
  LET InRun(task) ==
        task.do \in {"create", "await", "saveHash", "writeSecret"} => task.what \in Resources
  IN  [p \in Phases |-> SelectSeq(InstallScript[p], InRun)]
================================================================================
