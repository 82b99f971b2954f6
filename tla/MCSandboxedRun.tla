---------------------------- MODULE MCSandboxedRun ----------------------------
EXTENDS SandboxedRun

CONSTANTS main, d1, d2
=============================================================================
