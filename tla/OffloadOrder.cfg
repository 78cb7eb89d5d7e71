SPECIFICATION CalmSpec
CONSTANTS CP_NUM = 2
          TABLE_ENTRIES = 2
          STALL_TIMEOUT = 2
          Reg = {0, 1}
INVARIANT CompletesOutOfOrder
