------------------------------- MODULE MCIndexSync -------------------------------
(* The job and a webhook at once, on a repository with a branch and renames.    *)
EXTENDS IndexSync
================================================================================
