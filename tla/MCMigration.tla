---------------------------- MODULE MCMigration ----------------------------
EXTENDS Migration

\* A replaced file, a derived artifact and the created pointer.
ThreeActions == <<"replace", "regenerate", "create">>
ThreePrevious == <<"old", "old", "absent">>
============================================================================
