\* A window of three packets that slides, and room for a pattern of two bits:
\* one of three overflows sendbuf.  Three arrivals from both links in any order,
\* duplicates and corrupted numbers included; such a number, or an overflow, may
\* end the program.
CONSTANTS
  CHAR_BIT = 2
  PATTERN_ROOM = 1
  MAX_SEQ_NUMBER = 4
  WildNumbers <- MCWildNumbers
  PAGE_REST = 1
  max_ACK_bit_pattern = 3
  MAX_PROCESS_QUEUE = 2
  MaxArrivals = 3
SPECIFICATION FairSpec
INVARIANTS TypeOK CumulativeAckSound ProcessedRecorded
           StableReportExact ReportDecodes
PROPERTIES ReportsAdvance EventuallyReported
CHECK_DEADLOCK FALSE
