---- MODULE MCJobService ----
EXTENDS JobService
====
